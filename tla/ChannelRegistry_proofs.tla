----------------------- MODULE ChannelRegistry_proofs -----------------------
(***************************************************************************)
(* The registry keeps its books, for any number of channels, clients,      *)
(* outputs and requests, and any outcomes of the Redis writes.             *)
(*                                                                         *)
(* The properties compare the indices with Registered, which the operation *)
(* in progress determines; so the invariant says first what is known at    *)
(* each of its steps (Progress), and how every step changes Registered     *)
(* (not at all, but for one channel detached or attached) is a lemma that  *)
(* all the proofs about the indices share.                                 *)
(***************************************************************************)
EXTENDS ChannelRegistry, FiniteSetTheorems, TLAPS

Ops ==
  [step : {"idle"}]
    \union [step : {"insert", "publish", "attach"}, kind : {"create"}, id : Nat, new : Channels]
    \union [step : {"set", "publish", "detach", "attach"}, kind : {"update"}, id : Nat,
            new : Channels, old : Channels, fields : SUBSET Fields]
    \union [step : {"del", "publish", "detach"}, kind : {"delete"}, id : Nat, old : Channels]

Patches == [id : {0}] \union [id : ChannelIDs, clone : Channels]

Types ==
  /\ TypeOK
  /\ chanSeq <= MaxChannels
  /\ chanRecs \in [DOMAIN chanRecs -> Models]
  /\ objs \in [DOMAIN objs -> Channels]
  /\ op \in Ops
  /\ patches \in [Patchers -> Patches]
  /\ op.step = "insert" => chanSeq < MaxChannels
  /\ op.step \in {"set", "del", "publish", "detach", "attach"} => op.id \in 1..chanSeq

\* What the operation in progress has done so far, and has found.
Progress ==
  /\ ~up => op = Idle
  /\ op.step \in {"set", "del"} => op.id \in DOMAIN objs /\ objs[op.id] = op.old
  /\ op.step = "publish" =>
       /\ IF op.kind = "create" THEN op.id \notin DOMAIN objs
          ELSE op.id \in DOMAIN objs /\ objs[op.id] = op.old
       /\ IF op.kind = "delete" THEN op.id \notin DOMAIN chanRecs
          ELSE op.id \in DOMAIN chanRecs /\ chanRecs[op.id] = Model(op.new)
  /\ op.step \in {"detach", "attach"} =>
       IF op.kind = "delete" THEN op.id \notin DOMAIN objs
       ELSE op.id \in DOMAIN objs /\ objs[op.id] = op.new

-----------------------------------------------------------------------------
(* Sets of channels *)

(* A set of channels is finite, and has no more than there are.            *)
LEMMA ChannelSets ==
  ASSUME NEW S, S \subseteq ChannelIDs
  PROVE  /\ IsFiniteSet(S)
         /\ Cardinality(S) \in Nat
         /\ Cardinality(S) <= MaxChannels
<1>1. IsFiniteSet(ChannelIDs) /\ Cardinality(ChannelIDs) = MaxChannels
  BY BoundsAssumption, FS_Interval DEF ChannelIDs
<1> QED
  BY <1>1, FS_Subset, FS_CardinalityType, BoundsAssumption

(* One channel more, one channel less.                                     *)
LEMMA ChannelAdded ==
  ASSUME NEW S, S \subseteq ChannelIDs, NEW id, id \notin S
  PROVE  Cardinality(S \union {id}) = Cardinality(S) + 1
  BY ChannelSets, FS_AddElement

(* One channel less is one less to count.                                  *)
LEMMA ChannelRemoved ==
  ASSUME NEW S, S \subseteq ChannelIDs, NEW id \in S
  PROVE  Cardinality(S \ {id}) = Cardinality(S) - 1
  BY ChannelSets, FS_RemoveElement

(* The highest stored id exists, and the counter is not behind it.         *)
LEMMA HighestID ==
  ASSUME Types
  PROVE  Higher(chanSeq, MaxID) = chanSeq
<1> DEFINE Bounds == {n \in Nat : \A id \in DOMAIN chanRecs : id <= n}
           Less == {ss \in Nat \X Nat : ss[1] < ss[2]}
<1>1. DOMAIN chanRecs \subseteq ChannelIDs /\ chanSeq \in Nat
  BY BoundsAssumption DEF Types, TypeOK, ChannelIDs
<1>2. chanSeq \in Bounds
  BY DEF Types, TypeOK
<1>3. IsWellFoundedOn(Less, Nat)
  BY NatLessThanWellFounded, Zenon DEF OpToRel
<1>4. PICK n \in Bounds : \A m \in Bounds : <<m, n>> \notin Less
  BY <1>2, <1>3, WFMin, Zenon
<1>5. n \in DOMAIN chanRecs \union {0}
  <2> SUFFICES ASSUME n \notin DOMAIN chanRecs, n # 0
               PROVE  FALSE
    OBVIOUS
  <2>1. n - 1 \in Bounds
    BY <1>1 DEF ChannelIDs
  <2>2. <<n - 1, n>> \in Less
    BY <2>1
  <2> QED
    BY <1>4, <2>1, <2>2
<1>6. MaxID \in DOMAIN chanRecs \union {0}
  BY <1>1, <1>5 DEF MaxID
<1> QED
  BY <1>1, <1>6 DEF Higher, Types, TypeOK

-----------------------------------------------------------------------------
(* Types *)

(* Nothing is stored or in progress at first.                              *)
LEMMA TypesInit == Init => Types /\ Progress
<1> SUFFICES ASSUME Init
             PROVE  Types /\ Progress
  OBVIOUS
<1>1. DOMAIN Nothing = {} /\ Nothing \in [DOMAIN Nothing -> Models] /\ Nothing \in [DOMAIN Nothing -> Channels]
  BY DEF Nothing
<1>2. op \in Ops /\ op.step = "idle"
  BY DEF Init, Idle, Ops
<1>3. patches \in [Patchers -> Patches]
  BY DEF Init, NoPatch, Patches
<1>4. TypeOK
  <2>1. /\ attached \in [ClientIDs -> [ChannelIDs -> Nat]]
        /\ enabledUsage \in [ClientIDs -> Int]
        /\ outputUsage \in [ClientIDs -> [Refs -> Int]]
        /\ pm2 \in [ClientIDs -> SUBSET ChannelIDs]
    BY DEF Init
  <2> QED
    BY <1>1, <2>1 DEF Init, TypeOK
<1> QED
  BY <1>1, <1>2, <1>3, <1>4, BoundsAssumption DEF Init, Types, Progress

(* The first step of an operation puts its arguments into op.              *)
LEMMA TypesBegin ==
  ASSUME Types, Progress,
         \/ \E ch \in Requests : Create(ch)
         \/ \E id \in ChannelIDs, ch \in Channels, fields \in SUBSET Fields : Update(id, ch, fields)
         \/ \E id \in ChannelIDs : Delete(id),
         patches' \in [Patchers -> Patches]
  PROVE  Types' /\ Progress'
<1> USE DEF Types, TypeOK, Begin, redis, counters
<1>1. CASE \E ch \in Requests : Create(ch)
  <2>1. PICK ch \in Requests : Create(ch)
    BY <1>1
  <2>2. ch \in Channels
    BY DEF Requests
  <2>3. op' \in Ops /\ op'.step = "insert"
    BY <2>1, <2>2 DEF Create, Ops
  <2> QED
    BY <2>1, <2>3 DEF Create, Quiet, Progress
<1>2. CASE \E id \in ChannelIDs, ch \in Channels, fields \in SUBSET Fields : Update(id, ch, fields)
  <2>1. PICK id \in ChannelIDs, ch \in Channels, fields \in SUBSET Fields : Update(id, ch, fields)
    BY <1>2
  <2>2. id \in DOMAIN objs /\ id \in 1..chanSeq /\ objs[id] \in Channels
    BY <2>1 DEF Update
  <2>3. op' \in Ops /\ op'.step = "set" /\ op'.id = id /\ op'.old = objs[id]
    BY <2>1, <2>2 DEF Update, Ops
  <2> QED
    BY <2>1, <2>2, <2>3 DEF Update, Quiet, Progress
<1>3. CASE \E id \in ChannelIDs : Delete(id)
  <2>1. PICK id \in ChannelIDs : Delete(id)
    BY <1>3
  <2>2. id \in DOMAIN objs /\ id \in 1..chanSeq /\ objs[id] \in Channels
    BY <2>1 DEF Delete
  <2>3. op' \in Ops /\ op'.step = "del" /\ op'.id = id /\ op'.old = objs[id]
    BY <2>1, <2>2 DEF Delete, Ops
  <2> QED
    BY <2>1, <2>2, <2>3 DEF Delete, Quiet, Progress
<1> QED
  BY <1>1, <1>2, <1>3

(* A request of the channel API is a step that touches the patches only,   *)
(* or the first step of an operation.                                      *)
LEMMA ChannelOpsCases ==
  ASSUME Types, ChannelOps
  PROVE  /\ patches' \in [Patchers -> Patches]
         /\ UNCHANGED <<redis, up, objs, clients, counters, pm1, pm2, lists, panicked, inDoubt, peak>>
         /\ \/ UNCHANGED op
            \/ \E ch \in Requests : Create(ch)
            \/ \E id \in ChannelIDs, ch \in Channels, fields \in SUBSET Fields : Update(id, ch, fields)
            \/ \E id \in ChannelIDs : Delete(id)
<1> USE DEF Types, TypeOK
<1>1. NoPatch \in Patches /\ Requests \subseteq Channels
  BY DEF NoPatch, Patches, Requests
<1>2. CASE \E ch \in Requests : Create(ch)
  BY <1>2 DEF Create, Begin
<1>3. ASSUME NEW id \in ChannelIDs, NEW ch \in Requests, ReplaceChannel(id, ch)
      PROVE  /\ UNCHANGED patches
             /\ Update(id, ch, Fields) /\ ch \in Channels
             /\ UNCHANGED <<redis, up, objs, clients, counters, pm1, pm2, lists, panicked, inDoubt, peak>>
  BY <1>1, <1>3 DEF ReplaceChannel, Update, Begin
<1>4. CASE \E id \in ChannelIDs : Delete(id)
  BY <1>4 DEF Delete, Begin
<1>5. ASSUME NEW h \in Patchers, NEW id \in ChannelIDs, LoadForPatch(h, id)
      PROVE  /\ patches' \in [Patchers -> Patches]
             /\ UNCHANGED <<redis, up, objs, clients, counters, pm1, pm2, op, lists, panicked, inDoubt, peak>>
  <2>1. [id |-> id, clone |-> objs[id]] \in Patches
    BY <1>5 DEF LoadForPatch, Patches
  <2> QED
    BY <1>5, <2>1 DEF LoadForPatch
<1>6. ASSUME NEW h \in Patchers, NEW f \in Fields, NEW patch \in Requests, PatchAndUpdate(h, {f}, patch)
      PROVE  /\ patches' \in [Patchers -> Patches]
             /\ \E id \in ChannelIDs, ch \in Channels, fields \in SUBSET Fields : Update(id, ch, fields)
             /\ UNCHANGED <<redis, up, objs, clients, counters, pm1, pm2, lists, panicked, inDoubt, peak>>
  <2>1. patches[h].id \in ChannelIDs /\ patches[h].clone \in Channels
    BY <1>6 DEF PatchAndUpdate, Patches, NoPatch
  <2>2. Merge(patches[h].clone, {f}, patch) \in Channels
    BY <2>1, <1>1 DEF Merge, Channels
  <2>3. Update(patches[h].id, Merge(patches[h].clone, {f}, patch), {f})
    BY <1>6 DEF PatchAndUpdate
  <2>4. patches' \in [Patchers -> Patches]
    BY <1>1, <1>6 DEF PatchAndUpdate, DropPatch
  <2>5. UNCHANGED <<redis, up, objs, clients, counters, pm1, pm2, lists, panicked, inDoubt, peak>>
    BY <2>3 DEF Update, Begin
  <2> QED
    BY <2>1, <2>2, <2>3, <2>4, <2>5
<1>7. ASSUME NEW h \in Patchers, PatchFails(h)
      PROVE  /\ patches' \in [Patchers -> Patches]
             /\ UNCHANGED <<redis, up, objs, clients, counters, pm1, pm2, op, lists, panicked, inDoubt, peak>>
  BY <1>1, <1>7 DEF PatchFails, DropPatch
<1> QED
  BY <1>1, <1>2, <1>3, <1>4, <1>5, <1>6, <1>7 DEF ChannelOps, Create, Delete

(* Models and channels: what is stored and what is held.                   *)
LEMMA ModelOfChannel ==
  /\ \A ch \in Channels : Model(ch) \in Models
  /\ \A ch \in Channels :
       /\ [ch EXCEPT !.interactive = TRUE] \in Channels
       /\ Model([ch EXCEPT !.interactive = TRUE]) = Model(ch)
  /\ \A rec \in Models, b \in BOOLEAN :
       /\ [Load(rec) EXCEPT !.interactive = b] \in Channels
       /\ Model([Load(rec) EXCEPT !.interactive = b]) = rec
<1>1. \A ch \in Channels : Model(ch) \in Models
  BY DEF Model, Models, Channels
<1>2. ASSUME NEW ch \in Channels
      PROVE  /\ [ch EXCEPT !.interactive = TRUE] \in Channels
             /\ Model([ch EXCEPT !.interactive = TRUE]) = Model(ch)
  BY DEF Model, Channels
<1>3. ASSUME NEW rec \in Models, NEW b \in BOOLEAN
      PROVE  /\ [Load(rec) EXCEPT !.interactive = b] \in Channels
             /\ Model([Load(rec) EXCEPT !.interactive = b]) = rec
  <2>1. [Load(rec) EXCEPT !.interactive = b] =
          [owner |-> rec.owner, enabled |-> rec.enabled, outs |-> rec.outs, interactive |-> b]
    BY DEF Load
  <2> QED
    BY <2>1 DEF Model, Models, Channels
<1> QED
  BY <1>1, <1>2, <1>3

(* A created channel is published under the id it got.                     *)
LEMMA InsertedOp ==
  ASSUME NEW o \in [step : {"insert", "publish", "attach"}, kind : {"create"}, id : Nat, new : Channels],
         NEW n \in Nat
  PROVE  [o EXCEPT !.step = "publish", !.id = n] \in
           [step : {"insert", "publish", "attach"}, kind : {"create"}, id : Nat, new : Channels]
  OBVIOUS

(* The write of a record: the operation goes on only if it is stored.      *)
LEMMA TypesStore ==
  ASSUME Types, Progress, NEW result \in WriteResults,
         IncrFails \/ StoreInsert(result) \/ StoreSet(result) \/ StoreDel(result)
  PROVE  Types' /\ Progress'
<1> USE DEF Types, TypeOK, Answer, counters
<1>0. Idle \in Ops /\ Idle.step = "idle"
  BY DEF Idle, Ops
<1>1. CASE IncrFails
  BY <1>0, <1>1 DEF IncrFails, redis, Progress
<1>2. CASE StoreInsert(result)
  <2>1. op.new \in Channels /\ op.kind = "create" /\ up
    BY <1>0, <1>2 DEF StoreInsert, Ops, Progress
  <2>6. op \in [step : {"insert", "publish", "attach"}, kind : {"create"}, id : Nat, new : Channels]
    BY <1>2 DEF StoreInsert, Ops
  <2>7. [op EXCEPT !.step = "publish", !.id = chanSeq + 1] \in
          [step : {"insert", "publish", "attach"}, kind : {"create"}, id : Nat, new : Channels]
    <3>1. chanSeq + 1 \in Nat
      OBVIOUS
    <3> QED
      BY <2>6, <3>1, InsertedOp, Zenon
  <2>8. /\ [op EXCEPT !.step = "publish", !.id = chanSeq + 1] \in Ops
        /\ [op EXCEPT !.step = "publish", !.id = chanSeq + 1].step = "publish"
        /\ [op EXCEPT !.step = "publish", !.id = chanSeq + 1].id = chanSeq + 1
        /\ [op EXCEPT !.step = "publish", !.id = chanSeq + 1].kind = "create"
        /\ [op EXCEPT !.step = "publish", !.id = chanSeq + 1].new = op.new
    BY <2>6, <2>7 DEF Ops
  <2>2. /\ DOMAIN chanRecs' \subseteq 1..chanSeq' /\ chanSeq' = chanSeq + 1
        /\ chanRecs' \in [DOMAIN chanRecs' -> Models]
    BY <1>2, <2>1, ModelOfChannel DEF Put, Drop, StoreInsert
  <2>3. result = "ok" =>
          chanSeq + 1 \in DOMAIN chanRecs' /\ chanRecs'[chanSeq + 1] = Model(op.new)
    BY <1>2 DEF Put, Drop, StoreInsert
  <2>4. Types'
    BY <1>0, <1>2, <2>1, <2>2, <2>8, BoundsAssumption DEF StoreInsert
  <2>5. chanSeq + 1 \notin DOMAIN objs
    OBVIOUS
  <2> QED
    BY <1>0, <1>2, <2>1, <2>3, <2>4, <2>5, <2>8 DEF StoreInsert, Progress
<1>3. CASE StoreSet(result)
  <2>1. /\ op.new \in Channels /\ op.kind = "update" /\ op.id \in 1..chanSeq /\ up
        /\ [op EXCEPT !.step = "publish"] \in Ops
        /\ [op EXCEPT !.step = "publish"].step = "publish"
        /\ [op EXCEPT !.step = "publish"].id = op.id
        /\ [op EXCEPT !.step = "publish"].kind = "update"
        /\ [op EXCEPT !.step = "publish"].new = op.new
        /\ [op EXCEPT !.step = "publish"].old = op.old
    BY <1>0, <1>3 DEF StoreSet, Ops, Progress
  <2>2. /\ DOMAIN chanRecs' \subseteq 1..chanSeq' /\ chanSeq' = chanSeq
        /\ chanRecs' \in [DOMAIN chanRecs' -> Models]
    BY <1>3, <2>1, ModelOfChannel DEF Put, Drop, StoreSet
  <2>3. result = "ok" =>
          op.id \in DOMAIN chanRecs' /\ chanRecs'[op.id] = Model(op.new)
    BY <1>3 DEF Put, Drop, StoreSet
  <2>4. Types'
    BY <1>0, <1>3, <2>1, <2>2 DEF StoreSet
  <2> QED
    BY <1>0, <1>3, <2>1, <2>3, <2>4 DEF StoreSet, Progress
<1>4. CASE StoreDel(result)
  <2>1. /\ op.kind = "delete" /\ op.id \in 1..chanSeq /\ up
        /\ [op EXCEPT !.step = "publish"] \in Ops
        /\ [op EXCEPT !.step = "publish"].step = "publish"
        /\ [op EXCEPT !.step = "publish"].id = op.id
        /\ [op EXCEPT !.step = "publish"].kind = "delete"
        /\ [op EXCEPT !.step = "publish"].old = op.old
    BY <1>0, <1>4 DEF StoreDel, Ops, Progress
  <2>2. /\ DOMAIN chanRecs' \subseteq 1..chanSeq' /\ chanSeq' = chanSeq
        /\ chanRecs' \in [DOMAIN chanRecs' -> Models]
    BY <1>4, <2>1 DEF Put, Drop, StoreDel
  <2>3. result = "ok" => op.id \notin DOMAIN chanRecs'
    BY <1>4 DEF Put, Drop, StoreDel
  <2>4. Types'
    BY <1>0, <1>4, <2>1, <2>2 DEF StoreDel
  <2> QED
    BY <1>0, <1>4, <2>1, <2>3, <2>4 DEF StoreDel, Progress
<1> QED
  BY <1>1, <1>2, <1>3, <1>4

(* Publishing puts the new channel in the place of the old one.            *)
LEMMA TypesPublish ==
  ASSUME Types, Progress, Publish
  PROVE  Types' /\ Progress'
<1> USE DEF Types, TypeOK
<1>1. /\ op.kind \in {"create", "update", "delete"} /\ op.id \in 1..chanSeq /\ up
      /\ op.kind # "delete" => op.new \in Channels
  BY DEF Publish, Ops, Progress, Idle
<1>2. /\ op' \in Ops /\ op'.step \in {"attach", "detach"} /\ op'.id = op.id /\ op'.kind = op.kind
      /\ op.kind # "delete" => op'.new = op.new
  BY <1>1 DEF Publish, Ops
<1>3. /\ DOMAIN objs' \subseteq 1..chanSeq
      /\ objs' \in [DOMAIN objs' -> Channels]
      /\ IF op.kind = "delete" THEN op.id \notin DOMAIN objs'
         ELSE op.id \in DOMAIN objs' /\ objs'[op.id] = op.new
  BY <1>1 DEF Put, Drop, Publish
<1> QED
  BY <1>1, <1>2, <1>3 DEF Publish, redis, counters, Progress

(* What follows a detachment is the attachment of an update, or nothing.   *)
LEMMA AfterDetachTyped ==
  ASSUME Types, Progress, op.step = "detach", op' \in {Idle, AfterDetach}
  PROVE  /\ op' \in Ops
         /\ \/ op'.step = "idle"
            \/ /\ op'.step = "attach" /\ op'.id = op.id /\ op'.kind = "update"
               /\ op.kind = "update" /\ op'.new = op.new
         /\ op.id \in ChannelIDs /\ op.old \in Channels /\ up
<1>1. op.id \in ChannelIDs /\ op.old \in Channels
  BY BoundsAssumption DEF Types, TypeOK, Ops, ChannelIDs
<1>2. up
  BY DEF Progress, Idle
<1> QED
  BY <1>1, <1>2 DEF Types, AfterDetach, Ops, Idle

(* The counters of a client hold numbers.                                  *)
LEMMA CountersTyped ==
  ASSUME Types, NEW c \in ClientIDs, NEW id, NEW ch, NEW n \in Int, Count(c, id, ch, n)
  PROVE  enabledUsage' \in [ClientIDs -> Int] /\ outputUsage' \in [ClientIDs -> [Refs -> Int]]
  BY DEF Types, TypeOK, Count

(* Detaching and attaching a channel.                                      *)
LEMMA TypesAttach ==
  ASSUME Types, Progress,
         DetachFromClient \/ DetachUnowned \/ AttachToClient \/ AttachUnowned
  PROVE  Types' /\ Progress'
<1> USE DEF Types, TypeOK, redis, counters
<1>0. Idle \in Ops /\ Idle.step = "idle"
  BY DEF Idle, Ops
<1>1. CASE DetachFromClient
  <2>1. op' \in {Idle, AfterDetach} /\ op.step = "detach"
    BY <1>1 DEF DetachFromClient
  <2>2. op.old.owner \in ClientIDs
    BY <1>1, <2>1, AfterDetachTyped DEF DetachFromClient, Channels, Owners
  <2>3. enabledUsage' \in [ClientIDs -> Int] /\ outputUsage' \in [ClientIDs -> [Refs -> Int]]
    BY <1>1, <2>2, CountersTyped DEF DetachFromClient, UnregisterChannel
  <2>4. attached' \in [ClientIDs -> [ChannelIDs -> Nat]]
    <3>1. op.id \in ChannelIDs
      BY <2>1, AfterDetachTyped
    <3>2. attached[op.old.owner][op.id] \in Nat
      BY <2>2, <3>1
    <3> QED
      BY <1>1, <2>2, <3>1, <3>2 DEF DetachFromClient, UnregisterChannel, Unlist
  <2>5. pm2' \in [ClientIDs -> SUBSET ChannelIDs] /\ panicked' \in BOOLEAN
    BY <1>1 DEF DetachFromClient, UnregisterChannel, HasManager
  <2> QED
    BY <1>1, <2>1, <2>3, <2>4, <2>5, AfterDetachTyped DEF DetachFromClient, Progress
<1>2. CASE DetachUnowned
  <2>1. op' \in {Idle, AfterDetach} /\ op.step = "detach"
    BY <1>2 DEF DetachUnowned
  <2> QED
    BY <1>2, <2>1, AfterDetachTyped DEF DetachUnowned, Progress
<1>3. CASE AttachToClient
  <2>1. /\ op.new \in Channels /\ op.new.owner \in ClientIDs
        /\ op.id \in 1..chanSeq /\ op.id \in ChannelIDs
    BY <1>3, BoundsAssumption DEF AttachToClient, Ops, Channels, Owners, ChannelIDs
  <2>2. enabledUsage' \in [ClientIDs -> Int] /\ outputUsage' \in [ClientIDs -> [Refs -> Int]]
    BY <1>3, <2>1, CountersTyped DEF AttachToClient, RegisterChannel
  <2>3. attached' \in [ClientIDs -> [ChannelIDs -> Nat]]
    BY <1>3, <2>1 DEF AttachToClient, RegisterChannel
  <2>4. pm2' \in [ClientIDs -> SUBSET ChannelIDs] /\ panicked' \in BOOLEAN
    BY <1>3, <2>1 DEF AttachToClient, RegisterChannel, HasManager
  <2>5. objs' \in [DOMAIN objs' -> Channels] /\ DOMAIN objs' \subseteq 1..chanSeq
    BY <1>3, <2>1, ModelOfChannel DEF Put, Drop, AttachToClient, RegisterChannel
  <2> QED
    BY <1>0, <1>3, <2>2, <2>3, <2>4, <2>5 DEF AttachToClient, Progress
<1>4. CASE AttachUnowned
  BY <1>0, <1>4 DEF AttachUnowned, Progress
<1> QED
  BY <1>1, <1>2, <1>3, <1>4

(* Client operations do not touch channels.                                *)
LEMMA TypesClientOps ==
  ASSUME Types, Progress, ClientOps
  PROVE  Types' /\ Progress'
<1> USE DEF Types, TypeOK, counters
<1>1. UNCHANGED <<chanRecs, chanSeq, up, objs, counters, pm1, op, patches, lists, panicked>>
  BY DEF ClientOps, CreateClient, UpdateClient, DeleteClient
<1>2. inDoubt' \in BOOLEAN /\ pm2' \in [ClientIDs -> SUBSET ChannelIDs]
  BY DEF ClientOps, CreateClient, UpdateClient, DeleteClient
<1>3. PICK result \in WriteResults :
        \/ \E q \in ClientModels : CreateClient(q, result)
        \/ \E c \in ClientIDs, q \in ClientModels : UpdateClient(c, q, result)
        \/ \E c \in ClientIDs : DeleteClient(c, result)
  BY DEF ClientOps
<1>4. /\ clientSeq' \in Nat
      /\ DOMAIN clientRecs' \subseteq 1..clientSeq'
      /\ \A c \in DOMAIN clientRecs' : clientRecs'[c] \in ClientModels
      /\ DOMAIN clients' \subseteq 1..clientSeq'
      /\ \A c \in DOMAIN clients' : clients'[c] \in ClientModels
  <2>1. CASE \E q \in ClientModels : CreateClient(q, result)
    BY <2>1 DEF CreateClient, Put
  <2>2. CASE \E c \in ClientIDs, q \in ClientModels : UpdateClient(c, q, result)
    BY <2>2 DEF UpdateClient, Put
  <2>3. CASE \E c \in ClientIDs : DeleteClient(c, result)
    BY <2>3 DEF DeleteClient, Drop
  <2> QED
    BY <1>3, <2>1, <2>2, <2>3
<1> QED
  BY <1>1, <1>2, <1>4 DEF Progress

(* A crash leaves what is stored, with nothing in progress.                *)
LEMMA TypesCrash ==
  ASSUME Types, Progress, Crash
  PROVE  Types' /\ Progress'
<1> USE DEF Types, TypeOK, redis
<1>1. /\ DOMAIN objs' = {} /\ objs' \in [DOMAIN objs' -> Channels]
      /\ DOMAIN clients' = {} /\ up' = FALSE
  BY DEF Crash, Nothing
<1>2. op' \in Ops /\ op' = Idle /\ op'.step = "idle"
  BY DEF Crash, Idle, Ops
<1>3. patches' \in [Patchers -> Patches]
  BY DEF Crash, NoPatch, Patches
<1>4. /\ attached' \in [ClientIDs -> [ChannelIDs -> Nat]]
      /\ enabledUsage' \in [ClientIDs -> Int]
      /\ outputUsage' \in [ClientIDs -> [Refs -> Int]]
      /\ pm2' \in [ClientIDs -> SUBSET ChannelIDs]
  BY DEF Crash
<1> QED
  BY <1>1, <1>2, <1>3, <1>4 DEF Crash, Progress

(* A restart loads what is stored.                                         *)
LEMMA TypesBoot ==
  ASSUME Types, Progress, Boot
  PROVE  Types' /\ Progress' /\ chanSeq' = chanSeq
<1> USE DEF Types, TypeOK
<1>1. BootFrom(chanSeq)
  BY HighestID DEF Boot
<1>2. DOMAIN chanRecs \subseteq ChannelIDs
  BY BoundsAssumption DEF ChannelIDs
<1>3. \A c : OwnedBy(c) \subseteq ChannelIDs
  BY <1>2 DEF OwnedBy
<1>4. op' = Idle /\ op'.step = "idle" /\ op' \in Ops
  BY <1>1 DEF BootFrom, Progress, Idle
<1>5. /\ DOMAIN objs' = DOMAIN chanRecs
      /\ objs' \in [DOMAIN objs' -> Channels]
  BY <1>1, ModelOfChannel DEF BootFrom
<1>6. enabledUsage' \in [ClientIDs -> Int]
  <2> DEFINE E(c) == {id \in OwnedBy(c) : chanRecs[id].enabled}
  <2>1. enabledUsage' = [c \in ClientIDs |-> Cardinality(E(c))]
    BY <1>1 DEF BootFrom
  <2>2. \A c \in ClientIDs : E(c) \subseteq ChannelIDs
    BY <1>3
  <2> HIDE DEF E
  <2>3. \A c \in ClientIDs : Cardinality(E(c)) \in Nat
    BY <2>2, ChannelSets
  <2> QED
    BY <2>1, <2>3
<1>7. outputUsage' \in [ClientIDs -> [Refs -> Int]]
  <2> DEFINE U(c, r) == {id \in OwnedBy(c) : r \in chanRecs[id].outs}
  <2>1. outputUsage' = [c \in ClientIDs |-> [r \in Refs |-> Cardinality(U(c, r))]]
    BY <1>1 DEF BootFrom
  <2>2. \A c \in ClientIDs, r \in Refs : U(c, r) \subseteq ChannelIDs
    BY <1>3
  <2> HIDE DEF U
  <2>3. \A c \in ClientIDs, r \in Refs : Cardinality(U(c, r)) \in Nat
    BY <2>2, ChannelSets
  <2> QED
    BY <2>1, <2>3
<1>8. /\ attached' \in [ClientIDs -> [ChannelIDs -> Nat]]
      /\ pm2' \in [ClientIDs -> SUBSET ChannelIDs]
  BY <1>1, <1>3 DEF BootFrom
<1>9. /\ chanSeq' = chanSeq /\ up' = TRUE /\ inDoubt' = FALSE /\ clients' = clientRecs
      /\ UNCHANGED <<chanRecs, clientRecs, clientSeq, patches, panicked>>
  BY <1>1 DEF BootFrom
<1>10. TypeOK'
  BY <1>5, <1>6, <1>7, <1>8, <1>9
<1>11. Types'
  BY <1>4, <1>5, <1>9, <1>10
<1> QED
  BY <1>4, <1>9, <1>11 DEF Progress

(* Every step keeps the types, and Progress.                               *)
LEMMA TypesNext == Types /\ Progress /\ [Next]_vars => Types' /\ Progress'
<1> SUFFICES ASSUME Types, Progress, [Next]_vars
             PROVE  Types' /\ Progress'
  OBVIOUS
<1>1. CASE ChannelOps
  <2>1. /\ patches' \in [Patchers -> Patches]
        /\ UNCHANGED <<redis, up, objs, clients, counters, pm1, pm2, lists, panicked, inDoubt, peak>>
    BY <1>1, ChannelOpsCases
  <2>2. CASE UNCHANGED op
    BY <2>1, <2>2 DEF Types, TypeOK, Progress, redis, counters
  <2> QED
    BY <1>1, <2>1, <2>2, ChannelOpsCases, TypesBegin
<1>2. CASE OpSteps
  <2>1. CASE \E result \in WriteResults :
               IncrFails \/ StoreInsert(result) \/ StoreSet(result) \/ StoreDel(result)
    BY <2>1, TypesStore
  <2>2. CASE IncrFails
    BY <2>2, TypesStore DEF IncrFails
  <2> QED
    BY <1>2, <2>1, <2>2, TypesPublish, TypesAttach DEF OpSteps
<1>3. CASE ClientOps
  BY <1>3, TypesClientOps
<1>4. CASE Listings \/ UNCHANGED vars
  BY <1>4 DEF Listings, ListIDs, GetMany, vars, Types, TypeOK, Progress, redis, counters
<1>5. CASE Crash
  BY <1>5, TypesCrash
<1>6. CASE Boot
  BY <1>6, TypesBoot
<1> QED
  BY <1>1, <1>2, <1>3, <1>4, <1>5, <1>6 DEF Next

(* Type correctness of the registry.                                       *)
THEOREM RegistryTypeCorrect == Spec => [](Types /\ Progress)
  BY TypesInit, TypesNext, PTL DEF Spec

-----------------------------------------------------------------------------
(* What is registered, and how a step changes it *)

(* What the books have to agree with, by the step that is under way.       *)
LEMMA RegisteredCases ==
  /\ op.step = "detach" => Registered = Put(objs, op.id, op.old)
  /\ op.step = "attach" => Registered = Drop(objs, op.id)
  /\ op.step \notin {"detach", "attach"} => Registered = objs
  BY DEF Registered

(* It is a table of channels, like the one in memory.                      *)
LEMMA RegisteredTyped ==
  ASSUME Types
  PROVE  /\ Registered \in [DOMAIN Registered -> Channels]
         /\ DOMAIN Registered \subseteq ChannelIDs
<1> USE DEF Types, TypeOK
<1>1. DOMAIN objs \subseteq ChannelIDs
  BY BoundsAssumption DEF ChannelIDs
<1>2. CASE op.step = "detach"
  <2>1. op.id \in ChannelIDs /\ op.old \in Channels
    BY <1>2, BoundsAssumption DEF ChannelIDs, Ops
  <2> QED
    BY <1>1, <1>2, <2>1, RegisteredCases DEF Put
<1>3. CASE op.step = "attach"
  BY <1>1, <1>3, RegisteredCases DEF Drop
<1>4. CASE op.step \notin {"detach", "attach"}
  BY <1>1, <1>4, RegisteredCases
<1> QED
  BY <1>2, <1>3, <1>4

(* The steps of an operation before its channel is detached, the requests  *)
(* that begin one and the listings leave every registration as it is.      *)
LEMMA NothingRegistered ==
  ASSUME Types, Progress,
         \/ ChannelOps \/ Publish \/ Listings \/ UNCHANGED vars
         \/ IncrFails
         \/ \E result \in WriteResults : StoreInsert(result) \/ StoreSet(result) \/ StoreDel(result)
  PROVE  Registered' = Registered /\ UNCHANGED <<clients, counters, pm1, pm2, panicked>>
<1>1. CASE ChannelOps
  <2>1. /\ UNCHANGED <<objs, clients, counters, pm1, pm2, panicked>>
        /\ \/ UNCHANGED op
           \/ \E ch \in Requests : Create(ch)
           \/ \E id \in ChannelIDs, ch \in Channels, fields \in SUBSET Fields : Update(id, ch, fields)
           \/ \E id \in ChannelIDs : Delete(id)
    BY <1>1, ChannelOpsCases
  <2>2. CASE UNCHANGED op
    BY <2>1, <2>2 DEF Registered
  <2>3. CASE ~UNCHANGED op
    <3>1. op = Idle /\ op'.step \in {"insert", "set", "del"}
      BY <2>1, <2>3 DEF Create, Update, Delete, Begin, Quiet
    <3>2. Registered = objs
      BY <3>1, RegisteredCases DEF Idle
    <3>3. Registered' = objs'
      BY <3>1 DEF Registered
    <3> QED
      BY <2>1, <3>2, <3>3
  <2> QED
    BY <2>2, <2>3
<1>2. CASE \/ IncrFails
           \/ \E result \in WriteResults : StoreInsert(result) \/ StoreSet(result) \/ StoreDel(result)
  <2>1. /\ op.step \in {"insert", "set", "del"}
        /\ UNCHANGED <<objs, clients, counters, pm1, pm2, panicked>>
    BY <1>2 DEF IncrFails, StoreInsert, StoreSet, StoreDel, Answer
  <2>2. op'.step \in {"publish", "idle"}
    <3>0. Idle.step = "idle"
      BY DEF Idle
    <3>1. [op EXCEPT !.step = "publish"].step = "publish"
      BY DEF Types, Ops
    <3>2. op.step = "insert" => [op EXCEPT !.step = "publish", !.id = chanSeq + 1].step = "publish"
      BY DEF Types, Ops
    <3>3. ASSUME NEW result \in WriteResults, StoreInsert(result)
          PROVE  op' = Idle \/ op' = [op EXCEPT !.step = "publish", !.id = chanSeq + 1]
      BY <3>3 DEF StoreInsert, Answer
    <3>4. ASSUME NEW result \in WriteResults, StoreSet(result) \/ StoreDel(result)
          PROVE  op' = Idle \/ op' = [op EXCEPT !.step = "publish"]
      BY <3>4 DEF StoreSet, StoreDel, Answer
    <3>5. ASSUME NEW result \in WriteResults, StoreInsert(result)
          PROVE  op'.step \in {"publish", "idle"}
      BY <3>0, <3>2, <3>3, <3>5, Zenon DEF StoreInsert
    <3>6. ASSUME NEW result \in WriteResults, StoreSet(result) \/ StoreDel(result)
          PROVE  op'.step \in {"publish", "idle"}
      BY <3>0, <3>1, <3>4, <3>6, Zenon
    <3>7. IncrFails => op'.step = "idle"
      BY DEF IncrFails, Idle
    <3> QED
      BY <1>2, <3>5, <3>6, <3>7
  <2>3. Registered = objs
    BY <2>1, RegisteredCases
  <2>4. Registered' = objs'
    BY <2>2 DEF Registered
  <2> QED
    BY <2>1, <2>3, <2>4
<1>3. CASE Publish
  <2>1. Registered = objs /\ objs \in [DOMAIN objs -> Channels]
    BY <1>3, RegisteredCases DEF Publish, Types
  <2>2. op.kind \in {"create", "update", "delete"}
    BY <1>3 DEF Publish, Types, Ops
  <2>3. /\ op' = [op EXCEPT !.step = IF op.kind = "create" THEN "attach" ELSE "detach"]
        /\ objs' = IF op.kind = "delete" THEN Drop(objs, op.id) ELSE Put(objs, op.id, op.new)
        /\ UNCHANGED <<clients, counters, pm1, pm2, panicked>>
    BY <1>3 DEF Publish
  <2>4. CASE op.kind = "create"
    <3>1. op'.step = "attach" /\ op'.id = op.id
      BY <1>3, <2>3, <2>4 DEF Publish, Types, Ops
    <3>2. Registered' = Drop(Put(objs, op.id, op.new), op.id)
      BY <2>3, <2>4, <3>1 DEF Registered
    <3>3. op.id \notin DOMAIN objs
      BY <1>3, <2>4 DEF Progress, Publish
    <3> QED
      BY <2>1, <2>3, <3>2, <3>3 DEF Put, Drop
  <2>5. CASE op.kind # "create"
    <3>1. op'.step = "detach" /\ op'.id = op.id /\ op'.old = op.old
      BY <1>3, <2>2, <2>3, <2>5 DEF Publish, Types, Ops
    <3>2. Registered' = Put(objs', op.id, op.old)
      BY <3>1 DEF Registered
    <3>3. op.id \in DOMAIN objs /\ objs[op.id] = op.old
      BY <1>3, <2>5 DEF Progress, Publish
    <3> QED
      BY <2>1, <2>3, <3>2, <3>3 DEF Put, Drop
  <2> QED
    BY <2>4, <2>5
<1>4. CASE Listings \/ UNCHANGED vars
  BY <1>4 DEF Listings, ListIDs, GetMany, vars, Registered
<1> QED
  BY <1>1, <1>2, <1>3, <1>4

(* A detachment takes the old channel out of the registry.  When it panics *)
(* in the middle of an update, the new one is in memory all the same.      *)
LEMMA ChannelDetached ==
  ASSUME Types, Progress, DetachFromClient \/ DetachUnowned
  PROVE  /\ op.id \in ChannelIDs /\ op.id \in DOMAIN Registered
         /\ Registered[op.id] = op.old /\ op.old \in Channels
         /\ \/ Registered' = Drop(Registered, op.id)
            \/ /\ op.old.owner # NoClient /\ ~HasManager(op.old.owner)
               /\ op.new \in Channels
               /\ Registered' = Put(Registered, op.id, op.new)
<1>1. op.step = "detach" /\ UNCHANGED objs /\ objs \in [DOMAIN objs -> Channels]
  BY DEF DetachFromClient, DetachUnowned, Types
<1>2. op.id \in ChannelIDs /\ op.old \in Channels
  BY <1>1, BoundsAssumption DEF Types, TypeOK, ChannelIDs, Ops
<1>3. Registered = Put(objs, op.id, op.old)
  BY <1>1, RegisteredCases
<1>4. op.id \in DOMAIN Registered /\ Registered[op.id] = op.old
  BY <1>3 DEF Put
<1>5. CASE op.kind = "update" /\ op' = AfterDetach
  <2>1. op'.step = "attach" /\ op'.id = op.id
    BY <1>1, <1>5 DEF AfterDetach, Types, Ops
  <2>2. Registered' = Drop(objs, op.id)
    BY <1>1, <2>1 DEF Registered
  <2>3. Drop(Registered, op.id) = Drop(objs, op.id)
    BY <1>3 DEF Put, Drop
  <2> QED
    BY <1>2, <1>4, <2>2, <2>3
<1>6. CASE op.kind # "update"
  <2>1. op' = Idle
    BY <1>1, <1>6 DEF DetachFromClient, DetachUnowned, AfterDetach
  <2>2. Registered' = objs
    BY <1>1, <2>1 DEF Registered, Idle
  <2>3. op.id \notin DOMAIN objs
    BY <1>1, <1>6 DEF Progress, Types, Ops
  <2>4. Drop(Registered, op.id) = objs
    BY <1>1, <1>3, <2>3 DEF Put, Drop
  <2> QED
    BY <1>2, <1>4, <2>2, <2>4
<1>7. CASE op.kind = "update" /\ op' # AfterDetach
  <2>1. /\ op.old.owner # NoClient /\ ~HasManager(op.old.owner)
        /\ op' = Idle
    BY <1>7 DEF DetachFromClient, DetachUnowned
  <2>2. Registered' = objs
    BY <1>1, <2>1 DEF Registered, Idle
  <2>3. op.id \in DOMAIN objs /\ objs[op.id] = op.new /\ op.new \in Channels
    BY <1>1, <1>7 DEF Progress
  <2>4. Put(Registered, op.id, op.new) = objs
    BY <1>1, <1>3, <2>3 DEF Put
  <2> QED
    BY <1>2, <1>4, <2>1, <2>2, <2>3, <2>4
<1> QED
  BY <1>5, <1>6, <1>7

(* An attachment adds the new channel to the registry.                     *)
LEMMA ChannelAttached ==
  ASSUME Types, Progress, AttachToClient \/ AttachUnowned
  PROVE  /\ op.id \in ChannelIDs /\ op.id \notin DOMAIN Registered /\ op.new \in Channels
         /\ \E ch \in Channels : /\ Model(ch) = Model(op.new)
                                 /\ Registered' = Put(Registered, op.id, ch)
<1>1. op.step = "attach" /\ objs \in [DOMAIN objs -> Channels] /\ op' = Idle
  BY DEF AttachToClient, AttachUnowned, Types
<1>2. op.id \in ChannelIDs /\ op.new \in Channels
  BY <1>1, BoundsAssumption DEF Types, TypeOK, ChannelIDs, Ops
<1>3. op.id \in DOMAIN objs /\ objs[op.id] = op.new
  BY <1>1 DEF Progress, Types, Ops
<1>4. Registered = Drop(objs, op.id) /\ Registered' = objs'
  BY <1>1, RegisteredCases DEF Registered, Idle
<1>5. CASE AttachToClient
  <2>1. objs' = Put(objs, op.id, [op.new EXCEPT !.interactive = TRUE])
    BY <1>5 DEF AttachToClient, RegisterChannel
  <2>2. Registered' = Put(Registered, op.id, [op.new EXCEPT !.interactive = TRUE])
    BY <1>4, <2>1 DEF Put, Drop
  <2> QED
    BY <1>2, <1>4, <2>2, ModelOfChannel DEF Drop
<1>6. CASE AttachUnowned
  <2>1. objs' = objs
    BY <1>6 DEF AttachUnowned
  <2>2. Registered' = Put(Registered, op.id, op.new)
    BY <1>1, <1>3, <1>4, <2>1 DEF Put, Drop
  <2> QED
    BY <1>2, <1>4, <2>2 DEF Drop
<1> QED
  BY <1>5, <1>6

(* A client operation changes no channel.                                  *)
LEMMA ClientOpsFrame ==
  ASSUME ClientOps
  PROVE  Registered' = Registered /\ UNCHANGED <<objs, op, counters, pm1, panicked>>
  BY DEF ClientOps, CreateClient, UpdateClient, DeleteClient, Registered

-----------------------------------------------------------------------------
(* Who runs what *)

Plain == {id \in ChannelsOf(NoClient) : Registered[id].enabled}

\* Also after a panic, no manager runs what is not its own, and a client
\* without a manager runs nothing.
RunsOwn ==
  /\ \A c \in ClientIDs : pm2[c] \subseteq ChannelsOf(c)
  /\ \A c \in ClientIDs \ DOMAIN clients : pm2[c] = {}
  /\ DOMAIN pm1 \subseteq Plain

\* Until then, it runs all of its own.
RunsAll ==
  ~panicked =>
    /\ \A c \in ClientIDs : ChannelsOf(c) \subseteq pm2[c]
    /\ Plain \subseteq DOMAIN pm1

(* Owner and state of a channel are those of its model.                    *)
LEMMA SameModel ==
  ASSUME NEW a, NEW b, Model(a) = Model(b)
  PROVE  a.owner = b.owner /\ a.enabled = b.enabled /\ a.outs = b.outs
  BY DEF Model

(* The managers follow a channel that is detached.                         *)
LEMMA RunsDetach ==
  ASSUME Types, Progress, RunsOwn, RunsAll, DetachFromClient \/ DetachUnowned
  PROVE  RunsOwn' /\ RunsAll'
<1> DEFINE id == op.id
           c0 == op.old.owner
<1>1. /\ id \in DOMAIN Registered /\ Registered[id] = op.old
      /\ \/ Registered' = Drop(Registered, id)
         \/ /\ c0 # NoClient /\ ~HasManager(c0)
            /\ Registered' = Put(Registered, id, op.new)
  BY ChannelDetached
<1>2. /\ \A c \in ClientIDs : id \in pm2[c] => c = c0
      /\ id \in DOMAIN pm1 => c0 = NoClient /\ op.old.enabled
  BY <1>1 DEF RunsOwn, ChannelsOf, Plain
<1>3. \A c \in ClientIDs : c # NoClient
  BY DEF ClientIDs, NoClient
<1>4. UNCHANGED clients
  BY DEF DetachFromClient, DetachUnowned
<1>5. CASE DetachFromClient
  <2>1. /\ UNCHANGED pm1 /\ c0 \in ClientIDs
        /\ pm2' = IF HasManager(c0) THEN [pm2 EXCEPT ![c0] = @ \ {id}] ELSE pm2
        /\ panicked' = (panicked \/ ~HasManager(c0))
    BY <1>5, ChannelDetached DEF DetachFromClient, UnregisterChannel, Channels, Owners
  <2>2. CASE HasManager(c0)
    <3>1. /\ DOMAIN Registered' = DOMAIN Registered \ {id}
          /\ \A x \in DOMAIN Registered \ {id} : Registered'[x] = Registered[x]
      BY <1>1, <2>2 DEF Drop
    <3>2. \A c \in ClientIDs : pm2'[c] = pm2[c] \ {id}
      BY <1>2, <2>1, <2>2 DEF Types, TypeOK
    <3>3. id \notin DOMAIN pm1
      BY <1>2, <1>3, <2>1
    <3>4. RunsOwn'
      <4>1. \A c \in ClientIDs : pm2'[c] \subseteq ChannelsOf(c)'
        BY <3>1, <3>2 DEF RunsOwn, ChannelsOf
      <4>2. DOMAIN pm1' \subseteq Plain'
        BY <2>1, <3>1, <3>3 DEF RunsOwn, ChannelsOf, Plain
      <4> QED
        BY <1>4, <3>2, <4>1, <4>2 DEF RunsOwn
    <3>5. RunsAll'
      BY <2>1, <2>2, <3>1, <3>2 DEF RunsAll, ChannelsOf, Plain
    <3> QED
      BY <3>4, <3>5
  <2>3. CASE ~HasManager(c0)
    <3>1. \A c \in ClientIDs : id \notin pm2[c]
      BY <1>2, <2>1, <2>3 DEF RunsOwn, HasManager
    <3>2. id \notin DOMAIN pm1
      BY <1>2, <1>3, <2>1
    <3>3. \A x \in DOMAIN Registered \ {id} :
            x \in DOMAIN Registered' /\ Registered'[x] = Registered[x]
      BY <1>1 DEF Drop, Put
    <3>4. RunsOwn'
      <4>1. \A c \in ClientIDs : pm2'[c] \subseteq ChannelsOf(c)'
        BY <2>1, <2>3, <3>1, <3>3 DEF RunsOwn, ChannelsOf
      <4>2. DOMAIN pm1' \subseteq Plain'
        BY <2>1, <3>2, <3>3 DEF RunsOwn, ChannelsOf, Plain
      <4> QED
        BY <1>4, <2>1, <2>3, <4>1, <4>2 DEF RunsOwn
    <3>5. RunsAll'
      BY <2>1, <2>3 DEF RunsAll
    <3> QED
      BY <3>4, <3>5
  <2> QED
    BY <2>2, <2>3
<1>6. CASE DetachUnowned
  <2>1. /\ c0 = NoClient /\ UNCHANGED <<pm2, panicked>>
        /\ pm1' = IF op.old.enabled THEN Drop(pm1, id) ELSE pm1
    BY <1>6 DEF DetachUnowned, Stop
  <2>2. DOMAIN pm1' = DOMAIN pm1 \ {id}
    BY <1>2, <2>1 DEF Drop
  <2>3. /\ DOMAIN Registered' = DOMAIN Registered \ {id}
        /\ \A x \in DOMAIN Registered \ {id} : Registered'[x] = Registered[x]
    BY <1>1, <2>1 DEF Drop
  <2>4. \A c \in ClientIDs : id \notin pm2[c]
    BY <1>2, <1>3, <2>1
  <2> QED
    BY <1>4, <2>1, <2>2, <2>3, <2>4 DEF RunsOwn, RunsAll, ChannelsOf, Plain
<1> QED
  BY <1>5, <1>6

(* The managers follow a channel that is attached.                         *)
LEMMA RunsAttach ==
  ASSUME Types, Progress, RunsOwn, RunsAll, AttachToClient \/ AttachUnowned
  PROVE  RunsOwn' /\ RunsAll'
<1> DEFINE id == op.id
           c0 == op.new.owner
<1>1. PICK ch \in Channels : /\ Model(ch) = Model(op.new)
                             /\ Registered' = Put(Registered, id, ch)
  BY ChannelAttached
<1>2. id \notin DOMAIN Registered
  BY ChannelAttached
<1>3. /\ \A c \in ClientIDs : id \notin pm2[c] /\ id \notin ChannelsOf(c)
      /\ id \notin DOMAIN pm1 /\ id \notin Plain
  BY <1>2 DEF RunsOwn, ChannelsOf, Plain
<1>4. ch.owner = c0 /\ ch.enabled = op.new.enabled
  BY <1>1, SameModel
<1>5. \A c \in ClientIDs : c # NoClient
  BY DEF ClientIDs, NoClient
<1>6. UNCHANGED clients
  BY DEF AttachToClient, AttachUnowned
<1>7. /\ DOMAIN Registered' = DOMAIN Registered \union {id}
      /\ Registered'[id].owner = c0 /\ Registered'[id].enabled = op.new.enabled
      /\ \A x \in DOMAIN Registered : Registered'[x] = Registered[x]
  BY <1>1, <1>2, <1>4 DEF Put
<1>8. CASE AttachToClient
  <2>1. /\ UNCHANGED pm1 /\ c0 # NoClient /\ c0 \in ClientIDs
        /\ pm2' = IF HasManager(c0) THEN [pm2 EXCEPT ![c0] = @ \union {id}] ELSE pm2
        /\ panicked' = (panicked \/ ~HasManager(c0))
    BY <1>8, ChannelAttached DEF AttachToClient, RegisterChannel, Channels, Owners
  <2>2. CASE HasManager(c0)
    <3>1. \A c \in ClientIDs : pm2'[c] = IF c = c0 THEN pm2[c] \union {id} ELSE pm2[c]
      BY <2>1, <2>2 DEF Types, TypeOK
    <3>2. RunsOwn'
      <4>1. \A c \in ClientIDs : pm2'[c] \subseteq ChannelsOf(c)'
        <5> SUFFICES ASSUME NEW c \in ClientIDs, NEW x \in pm2'[c]
                     PROVE  x \in DOMAIN Registered' /\ Registered'[x].owner = c
          BY DEF ChannelsOf
        <5>1. x \in pm2[c] \/ (x = id /\ c = c0)
          BY <3>1
        <5> QED
          BY <1>2, <1>7, <5>1 DEF RunsOwn, ChannelsOf
      <4>2. DOMAIN pm1' \subseteq Plain'
        BY <1>2, <1>7, <2>1 DEF RunsOwn, ChannelsOf, Plain
      <4>3. \A c \in ClientIDs \ DOMAIN clients : pm2'[c] = {}
        BY <2>2, <3>1 DEF RunsOwn, HasManager
      <4> QED
        BY <1>6, <4>1, <4>2, <4>3 DEF RunsOwn
    <3>3. RunsAll'
      <4>1. ASSUME ~panicked, NEW c \in ClientIDs
            PROVE  ChannelsOf(c)' \subseteq pm2'[c]
        <5> SUFFICES ASSUME NEW x \in DOMAIN Registered', Registered'[x].owner = c
                     PROVE  x \in pm2'[c]
          BY DEF ChannelsOf
        <5>1. CASE x = id
          BY <1>7, <3>1, <5>1
        <5>2. CASE x \in DOMAIN Registered
          <6>1. x \in pm2[c]
            BY <1>7, <4>1, <5>2 DEF RunsAll, ChannelsOf
          <6> QED
            BY <3>1, <6>1
        <5> QED
          BY <1>7, <5>1, <5>2
      <4>2. ~panicked => Plain' \subseteq DOMAIN pm1'
        BY <1>7, <2>1 DEF RunsAll, ChannelsOf, Plain
      <4> QED
        BY <2>1, <2>2, <4>1, <4>2 DEF RunsAll
    <3> QED
      BY <3>2, <3>3
  <2>3. CASE ~HasManager(c0)
    <3>1. \A c \in ClientIDs : pm2'[c] \subseteq ChannelsOf(c)'
      BY <1>2, <1>7, <2>1, <2>3 DEF RunsOwn, ChannelsOf
    <3>2. DOMAIN pm1' \subseteq Plain'
      BY <1>2, <1>7, <2>1 DEF RunsOwn, ChannelsOf, Plain
    <3> QED
      BY <1>6, <2>1, <2>3, <3>1, <3>2 DEF RunsOwn, RunsAll
  <2> QED
    BY <2>2, <2>3
<1>9. CASE AttachUnowned
  <2>1. /\ c0 = NoClient /\ UNCHANGED <<pm2, panicked>>
        /\ DOMAIN pm1' = IF op.new.enabled THEN DOMAIN pm1 \union {id} ELSE DOMAIN pm1
    BY <1>9, <1>3 DEF AttachUnowned, Run, Put
  <2> QED
    BY <1>2, <1>5, <1>6, <1>7, <2>1 DEF RunsOwn, RunsAll, ChannelsOf, Plain
<1> QED
  BY <1>8, <1>9

-----------------------------------------------------------------------------
(* The books of the clients *)

(* The indices follow a channel that is detached.                          *)
LEMMA IndexDetach ==
  ASSUME Types, Progress, IndexExact, DetachFromClient \/ DetachUnowned
  PROVE  IndexExact'
<1> SUFFICES ASSUME ~panicked'
             PROVE  IndexExact'
  BY DEF IndexExact
<1> DEFINE id == op.id
           c0 == op.old.owner
<1>1. /\ id \in ChannelIDs /\ id \in DOMAIN Registered /\ Registered[id] = op.old
      /\ \/ Registered' = Drop(Registered, id)
         \/ c0 # NoClient /\ ~HasManager(c0)
  BY ChannelDetached
<1>2. ~panicked /\ UNCHANGED clients
  BY DEF DetachFromClient, UnregisterChannel, DetachUnowned, Types, TypeOK
<1>3. c0 # NoClient => HasManager(c0)
  BY DEF DetachFromClient, UnregisterChannel, DetachUnowned
<1>4. /\ DOMAIN Registered' = DOMAIN Registered \ {id}
      /\ \A x \in DOMAIN Registered \ {id} : Registered'[x] = Registered[x]
  BY <1>1, <1>3 DEF Drop
<1>5. CASE DetachFromClient
  <2>1. /\ c0 # NoClient /\ c0 \in ClientIDs
        /\ owner' = Drop(owner, id)
        /\ attached' = [attached EXCEPT ![c0][id] = IF @ = 0 THEN 0 ELSE @ - 1]
    BY <1>5, ChannelDetached DEF DetachFromClient, UnregisterChannel, Unlist, Channels, Owners
  <2>2. DOMAIN owner' = DOMAIN Registered' \ ChannelsOf(NoClient)'
    BY <1>2, <1>4, <2>1 DEF IndexExact, ChannelsOf, Drop
  <2>3. \A x \in DOMAIN owner' : owner'[x] = Registered'[x].owner /\ owner'[x] \in DOMAIN clients'
    BY <1>2, <1>4, <2>1 DEF IndexExact, ChannelsOf, Drop
  <2>4. ASSUME NEW c \in ClientIDs, NEW x \in ChannelIDs
        PROVE  attached'[c][x] = IF x \in ChannelsOf(c)' THEN 1 ELSE 0
    <3>1. attached[c][x] = IF x \in ChannelsOf(c) THEN 1 ELSE 0
      BY <1>2 DEF IndexExact
    <3>2. CASE x = id /\ c = c0
      <4>1. attached[c][x] = 1
        BY <1>1, <3>1, <3>2 DEF ChannelsOf
      <4>2. attached'[c][x] = 0
        BY <1>1, <2>1, <3>2, <4>1 DEF Types, TypeOK
      <4> QED
        BY <1>4, <3>2, <4>2 DEF ChannelsOf
    <3>3. CASE ~(x = id /\ c = c0)
      <4>1. attached'[c][x] = attached[c][x]
        BY <1>1, <2>1, <3>3 DEF Types, TypeOK
      <4> QED
        BY <1>1, <1>4, <3>1, <3>3, <4>1 DEF ChannelsOf
    <3> QED
      BY <3>2, <3>3
  <2> QED
    BY <2>2, <2>3, <2>4 DEF IndexExact
<1>6. CASE DetachUnowned
  <2>1. c0 = NoClient /\ UNCHANGED <<owner, attached>>
    BY <1>6 DEF DetachUnowned, counters
  <2>2. \A c \in ClientIDs : c # NoClient
    BY DEF ClientIDs, NoClient
  <2>3. /\ DOMAIN owner' = DOMAIN Registered' \ ChannelsOf(NoClient)'
        /\ \A x \in DOMAIN owner' : owner'[x] = Registered'[x].owner /\ owner'[x] \in DOMAIN clients'
    BY <1>1, <1>2, <1>4, <2>1 DEF IndexExact, ChannelsOf
  <2>4. \A c \in ClientIDs, x \in ChannelIDs :
          attached'[c][x] = IF x \in ChannelsOf(c)' THEN 1 ELSE 0
    BY <1>1, <1>2, <1>4, <2>1, <2>2 DEF IndexExact, ChannelsOf
  <2> QED
    BY <2>3, <2>4 DEF IndexExact
<1> QED
  BY <1>5, <1>6

(* The indices follow a channel that is attached.                          *)
LEMMA IndexAttach ==
  ASSUME Types, Progress, IndexExact, AttachToClient \/ AttachUnowned
  PROVE  IndexExact'
<1> SUFFICES ASSUME ~panicked'
             PROVE  IndexExact'
  BY DEF IndexExact
<1> DEFINE id == op.id
           c0 == op.new.owner
<1>1. id \in ChannelIDs /\ id \notin DOMAIN Registered /\ op.new \in Channels
  BY ChannelAttached
<1>2. ~panicked /\ UNCHANGED clients
  BY DEF AttachToClient, RegisterChannel, AttachUnowned, Types, TypeOK
<1>3. PICK ch \in Channels : Model(ch) = Model(op.new) /\ Registered' = Put(Registered, id, ch)
  BY ChannelAttached
<1>4. /\ DOMAIN Registered' = DOMAIN Registered \union {id}
      /\ Registered'[id].owner = c0
      /\ \A x \in DOMAIN Registered : Registered'[x] = Registered[x]
  BY <1>1, <1>3, SameModel DEF Put
<1>5. CASE AttachToClient
  <2>1. /\ c0 # NoClient /\ c0 \in ClientIDs /\ c0 \in DOMAIN clients
        /\ owner' = Put(owner, id, c0)
        /\ attached' = [attached EXCEPT ![c0][id] = @ + 1]
    BY <1>1, <1>5 DEF AttachToClient, RegisterChannel, HasManager, Channels, Owners
  <2>2. DOMAIN owner' = DOMAIN Registered' \ ChannelsOf(NoClient)'
    BY <1>1, <1>2, <1>4, <2>1 DEF IndexExact, ChannelsOf, Put
  <2>3. \A x \in DOMAIN owner' : owner'[x] = Registered'[x].owner /\ owner'[x] \in DOMAIN clients'
    BY <1>1, <1>2, <1>4, <2>1 DEF IndexExact, ChannelsOf, Put
  <2>4. ASSUME NEW c \in ClientIDs, NEW x \in ChannelIDs
        PROVE  attached'[c][x] = IF x \in ChannelsOf(c)' THEN 1 ELSE 0
    <3>1. attached[c][x] = IF x \in ChannelsOf(c) THEN 1 ELSE 0
      BY <1>2 DEF IndexExact
    <3>2. CASE x = id /\ c = c0
      <4>1. attached[c][x] = 0
        BY <1>1, <3>1, <3>2 DEF ChannelsOf
      <4>2. attached'[c][x] = 1
        BY <1>1, <2>1, <3>2, <4>1 DEF Types, TypeOK
      <4> QED
        BY <1>4, <3>2, <4>2 DEF ChannelsOf
    <3>3. CASE ~(x = id /\ c = c0)
      <4>1. attached'[c][x] = attached[c][x]
        BY <1>1, <2>1, <3>3 DEF Types, TypeOK
      <4> QED
        BY <1>1, <1>4, <3>1, <3>3, <4>1 DEF ChannelsOf
    <3> QED
      BY <3>2, <3>3
  <2> QED
    BY <2>2, <2>3, <2>4 DEF IndexExact
<1>6. CASE AttachUnowned
  <2>1. c0 = NoClient /\ UNCHANGED <<owner, attached>>
    BY <1>6 DEF AttachUnowned, counters
  <2>2. \A c \in ClientIDs : c # NoClient
    BY DEF ClientIDs, NoClient
  <2>3. /\ DOMAIN owner' = DOMAIN Registered' \ ChannelsOf(NoClient)'
        /\ \A x \in DOMAIN owner' : owner'[x] = Registered'[x].owner /\ owner'[x] \in DOMAIN clients'
    BY <1>1, <1>2, <1>4, <2>1 DEF IndexExact, ChannelsOf
  <2>4. \A c \in ClientIDs, x \in ChannelIDs :
          attached'[c][x] = IF x \in ChannelsOf(c)' THEN 1 ELSE 0
    BY <1>1, <1>2, <1>4, <2>1, <2>2 DEF IndexExact, ChannelsOf
  <2> QED
    BY <2>3, <2>4 DEF IndexExact
<1> QED
  BY <1>5, <1>6

-----------------------------------------------------------------------------
(* Counting *)

\* What a channel less, and one more, does to the counts.
OneLess(R, id, c, r) ==
  /\ Cardinality(EnabledIn(Drop(R, id), c)) = Cardinality(EnabledIn(R, c))
       + (IF R[id].owner = c /\ R[id].enabled THEN -1 ELSE 0)
  /\ Cardinality(UsingIn(Drop(R, id), c, r)) = Cardinality(UsingIn(R, c, r))
       + (IF R[id].owner = c /\ r \in R[id].outs THEN -1 ELSE 0)
OneMore(R, id, ch, c, r) ==
  /\ Cardinality(EnabledIn(Put(R, id, ch), c)) = Cardinality(EnabledIn(R, c))
       + (IF ch.owner = c /\ ch.enabled THEN 1 ELSE 0)
  /\ Cardinality(UsingIn(Put(R, id, ch), c, r)) = Cardinality(UsingIn(R, c, r))
       + (IF ch.owner = c /\ r \in ch.outs THEN 1 ELSE 0)

(* A channel less in a table.                                              *)
LEMMA CountDrop ==
  ASSUME NEW R, DOMAIN R \subseteq ChannelIDs, NEW id \in DOMAIN R, NEW c, NEW r
  PROVE  OneLess(R, id, c, r)
<1>1. EnabledIn(R, c) \subseteq ChannelIDs /\ UsingIn(R, c, r) \subseteq ChannelIDs
  BY DEF EnabledIn, UsingIn
<1>2. Cardinality(EnabledIn(R, c)) \in Nat /\ Cardinality(UsingIn(R, c, r)) \in Nat
  BY <1>1, ChannelSets
<1>3. /\ EnabledIn(Drop(R, id), c) = EnabledIn(R, c) \ {id}
      /\ UsingIn(Drop(R, id), c, r) = UsingIn(R, c, r) \ {id}
  BY DEF EnabledIn, UsingIn, Drop
<1>4. /\ id \in EnabledIn(R, c) <=> R[id].owner = c /\ R[id].enabled
      /\ id \in UsingIn(R, c, r) <=> R[id].owner = c /\ r \in R[id].outs
  BY DEF EnabledIn, UsingIn
<1>5. Cardinality(EnabledIn(R, c) \ {id}) = Cardinality(EnabledIn(R, c))
        + (IF id \in EnabledIn(R, c) THEN -1 ELSE 0)
  BY <1>1, <1>2, ChannelSets, FS_RemoveElement
<1>6. Cardinality(UsingIn(R, c, r) \ {id}) = Cardinality(UsingIn(R, c, r))
        + (IF id \in UsingIn(R, c, r) THEN -1 ELSE 0)
  BY <1>1, <1>2, ChannelSets, FS_RemoveElement
<1> QED
  BY <1>3, <1>4, <1>5, <1>6 DEF OneLess

(* A channel more.                                                         *)
LEMMA CountPut ==
  ASSUME NEW R, DOMAIN R \subseteq ChannelIDs, NEW id, id \notin DOMAIN R, NEW ch, NEW c, NEW r
  PROVE  OneMore(R, id, ch, c, r)
<1>1. /\ EnabledIn(R, c) \subseteq ChannelIDs /\ UsingIn(R, c, r) \subseteq ChannelIDs
      /\ id \notin EnabledIn(R, c) /\ id \notin UsingIn(R, c, r)
  BY DEF EnabledIn, UsingIn
<1>2. Cardinality(EnabledIn(R, c)) \in Nat /\ Cardinality(UsingIn(R, c, r)) \in Nat
  BY <1>1, ChannelSets
<1>3. /\ EnabledIn(Put(R, id, ch), c) =
           IF ch.owner = c /\ ch.enabled THEN EnabledIn(R, c) \union {id} ELSE EnabledIn(R, c)
      /\ UsingIn(Put(R, id, ch), c, r) =
           IF ch.owner = c /\ r \in ch.outs THEN UsingIn(R, c, r) \union {id} ELSE UsingIn(R, c, r)
  BY DEF EnabledIn, UsingIn, Put
<1> QED
  BY <1>1, <1>2, <1>3, ChannelAdded DEF OneMore

(* The usage follows a channel that is detached or attached.               *)
LEMMA UsageDetach ==
  ASSUME Types, Progress, UsageExact, DetachFromClient \/ DetachUnowned
  PROVE  UsageExact'
<1> SUFFICES ASSUME ~panicked', NEW c \in ClientIDs
             PROVE  /\ enabledUsage'[c] = Cardinality(EnabledIn(Registered', c))
                    /\ \A r \in Refs : outputUsage'[c][r] = Cardinality(UsingIn(Registered', c, r))
  BY DEF UsageExact, EnabledIn, UsingIn
<1> DEFINE id == op.id
           c0 == op.old.owner
<1>1. /\ id \in DOMAIN Registered /\ Registered[id] = op.old
      /\ \/ Registered' = Drop(Registered, id)
         \/ c0 # NoClient /\ ~HasManager(c0)
  BY ChannelDetached
<1>2. ~panicked
  BY DEF DetachFromClient, UnregisterChannel, DetachUnowned, Types, TypeOK
<1>3. Registered' = Drop(Registered, id)
  BY <1>1 DEF DetachFromClient, UnregisterChannel, DetachUnowned
<1>4. \A r : /\ Cardinality(EnabledIn(Registered', c)) = Cardinality(EnabledIn(Registered, c))
                  + (IF c0 = c /\ op.old.enabled THEN -1 ELSE 0)
             /\ Cardinality(UsingIn(Registered', c, r)) = Cardinality(UsingIn(Registered, c, r))
                  + (IF c0 = c /\ r \in op.old.outs THEN -1 ELSE 0)
  <2> TAKE r
  <2>1. DOMAIN Registered \subseteq ChannelIDs
    BY RegisteredTyped
  <2>2. OneLess(Registered, id, c, r)
    BY <1>1, <2>1, CountDrop
  <2> QED
    BY <1>1, <1>3, <2>2 DEF OneLess
<1>5. /\ enabledUsage[c] = Cardinality(EnabledIn(Registered, c))
      /\ \A r \in Refs : outputUsage[c][r] = Cardinality(UsingIn(Registered, c, r))
  BY <1>2 DEF UsageExact
<1>6. CASE DetachFromClient
  <2>1. c0 \in ClientIDs /\ Count(c0, id, op.old, -1)
    BY <1>6, ChannelDetached DEF DetachFromClient, UnregisterChannel, Channels, Owners
  <2>2. enabledUsage'[c] = enabledUsage[c] + (IF c0 = c /\ op.old.enabled THEN -1 ELSE 0)
    BY <2>1 DEF Count, Types, TypeOK
  <2>3. \A r \in Refs :
          outputUsage'[c][r] = outputUsage[c][r] + (IF c0 = c /\ r \in op.old.outs THEN -1 ELSE 0)
    BY <2>1 DEF Count, Types, TypeOK
  <2> QED
    BY <1>4, <1>5, <2>2, <2>3
<1>7. CASE DetachUnowned
  <2>1. /\ UNCHANGED <<enabledUsage, outputUsage>> /\ c0 # c
        /\ enabledUsage[c] \in Int /\ \A r \in Refs : outputUsage[c][r] \in Int
    BY <1>7 DEF DetachUnowned, counters, ClientIDs, NoClient, Types, TypeOK
  <2> QED
    BY <1>4, <1>5, <2>1
<1> QED
  BY <1>6, <1>7

(* Attaching adds the new channel to the counters of its owner alone.      *)
LEMMA UsageAttach ==
  ASSUME Types, Progress, UsageExact, AttachToClient \/ AttachUnowned
  PROVE  UsageExact'
<1> SUFFICES ASSUME ~panicked', NEW c \in ClientIDs
             PROVE  /\ enabledUsage'[c] = Cardinality(EnabledIn(Registered', c))
                    /\ \A r \in Refs : outputUsage'[c][r] = Cardinality(UsingIn(Registered', c, r))
  BY DEF UsageExact, EnabledIn, UsingIn
<1> DEFINE id == op.id
           c0 == op.new.owner
<1>1. id \notin DOMAIN Registered /\ op.new \in Channels
  BY ChannelAttached
<1>2. ~panicked
  BY DEF AttachToClient, RegisterChannel, AttachUnowned, Types, TypeOK
<1>3. PICK ch \in Channels : Model(ch) = Model(op.new) /\ Registered' = Put(Registered, id, ch)
  BY ChannelAttached
<1>4. \A r : /\ Cardinality(EnabledIn(Registered', c)) = Cardinality(EnabledIn(Registered, c))
                  + (IF c0 = c /\ op.new.enabled THEN 1 ELSE 0)
             /\ Cardinality(UsingIn(Registered', c, r)) = Cardinality(UsingIn(Registered, c, r))
                  + (IF c0 = c /\ r \in op.new.outs THEN 1 ELSE 0)
  <2> TAKE r
  <2>1. DOMAIN Registered \subseteq ChannelIDs
    BY RegisteredTyped
  <2>2. OneMore(Registered, id, ch, c, r)
    BY <1>1, <2>1, CountPut
  <2>3. ch.owner = op.new.owner /\ ch.enabled = op.new.enabled /\ ch.outs = op.new.outs
    BY <1>1, <1>3, SameModel
  <2> QED
    BY <1>3, <2>2, <2>3 DEF OneMore
<1>5. /\ enabledUsage[c] = Cardinality(EnabledIn(Registered, c))
      /\ \A r \in Refs : outputUsage[c][r] = Cardinality(UsingIn(Registered, c, r))
  BY <1>2 DEF UsageExact
<1>6. CASE AttachToClient
  <2>1. c0 \in ClientIDs /\ Count(c0, id, op.new, 1)
    BY <1>1, <1>6 DEF AttachToClient, RegisterChannel, Channels, Owners
  <2>2. enabledUsage'[c] = enabledUsage[c] + (IF c0 = c /\ op.new.enabled THEN 1 ELSE 0)
    BY <2>1 DEF Count, Types, TypeOK
  <2>3. \A r \in Refs :
          outputUsage'[c][r] = outputUsage[c][r] + (IF c0 = c /\ r \in op.new.outs THEN 1 ELSE 0)
    BY <2>1 DEF Count, Types, TypeOK
  <2> QED
    BY <1>4, <1>5, <2>2, <2>3
<1>7. CASE AttachUnowned
  <2>1. /\ UNCHANGED <<enabledUsage, outputUsage>> /\ c0 # c
        /\ enabledUsage[c] \in Int /\ \A r \in Refs : outputUsage[c][r] \in Int
    BY <1>7 DEF AttachUnowned, counters, ClientIDs, NoClient, Types, TypeOK
  <2> QED
    BY <1>4, <1>5, <2>1
<1> QED
  BY <1>6, <1>7

-----------------------------------------------------------------------------
(* Client operations, crashes and restarts *)

Books == IndexExact /\ UsageExact /\ RunsOwn /\ RunsAll

(* With the counters, the managers and what is registered, the books stay. *)
LEMMA BooksFrame ==
  ASSUME Books, Registered' = Registered, UNCHANGED <<clients, counters, pm1, pm2, panicked>>
  PROVE  Books'
<1> USE DEF Books, counters
<1>1. IndexExact' /\ UsageExact'
  BY DEF IndexExact, UsageExact, ChannelsOf, EnabledIn, UsingIn
<1>2. RunsOwn' /\ RunsAll'
  BY DEF RunsOwn, RunsAll, ChannelsOf, Plain
<1> QED
  BY <1>1, <1>2

(* A client is deleted only when nothing is listed for it.                 *)
LEMMA BooksClientOps ==
  ASSUME Types, Books, ClientOps
  PROVE  Books'
<1>1. Registered' = Registered /\ UNCHANGED <<counters, pm1, panicked>>
  BY ClientOpsFrame
<1>2. UsageExact'
  BY <1>1 DEF Books, UsageExact, counters, EnabledIn, UsingIn
<1>3. PICK result \in WriteResults :
        \/ \E q \in ClientModels : CreateClient(q, result)
        \/ \E c \in ClientIDs, q \in ClientModels : UpdateClient(c, q, result)
        \/ \E c \in ClientIDs : DeleteClient(c, result)
  BY DEF ClientOps
<1>4. CASE \/ \E q \in ClientModels : CreateClient(q, result)
           \/ \E c \in ClientIDs, q \in ClientModels : UpdateClient(c, q, result)
  <2>1. UNCHANGED pm2 /\ DOMAIN clients \subseteq DOMAIN clients'
    BY <1>4 DEF CreateClient, UpdateClient, Put
  <2>2. IndexExact'
    BY <1>1, <2>1 DEF Books, IndexExact, counters, ChannelsOf
  <2>3. RunsOwn' /\ RunsAll'
    BY <1>1, <2>1 DEF Books, RunsOwn, RunsAll, ChannelsOf, Plain
  <2> QED
    BY <1>2, <2>2, <2>3 DEF Books
<1>5. ASSUME NEW c \in ClientIDs, DeleteClient(c, result)
      PROVE  Books'
  <2>1. CASE result # "ok"
    BY <1>1, <1>5, <2>1, BooksFrame DEF DeleteClient
  <2>2. CASE result = "ok"
    <3>1. /\ DOMAIN clients' = DOMAIN clients \ {c}
          /\ pm2' = [pm2 EXCEPT ![c] = {}]
          /\ \A id \in ChannelIDs : attached[c][id] = 0
      BY <1>5, <2>2 DEF DeleteClient, Unattached, Drop
    <3>2. ~panicked => ChannelsOf(c) = {}
      <4> SUFFICES ASSUME ~panicked, NEW id \in ChannelsOf(c)
                   PROVE  FALSE
        OBVIOUS
      <4>1. id \in ChannelIDs
        BY RegisteredTyped DEF ChannelsOf
      <4> QED
        BY <3>1, <4>1 DEF Books, IndexExact
    <3>3. IndexExact'
      <4> SUFFICES ASSUME ~panicked
                   PROVE  \A id \in DOMAIN owner : owner[id] # c
        BY <1>1, <3>1 DEF Books, IndexExact, counters, ChannelsOf
      <4> QED
        BY <3>2 DEF Books, IndexExact, ChannelsOf
    <3>4. \A d \in ClientIDs : pm2'[d] = IF d = c THEN {} ELSE pm2[d]
      BY <3>1 DEF Types, TypeOK
    <3>5. RunsOwn'
      BY <1>1, <3>1, <3>4 DEF Books, RunsOwn, ChannelsOf, Plain
    <3>6. RunsAll'
      BY <1>1, <3>2, <3>4 DEF Books, RunsAll, ChannelsOf, Plain
    <3> QED
      BY <1>2, <3>3, <3>5, <3>6 DEF Books
  <2> QED
    BY <2>1, <2>2
<1> QED
  BY <1>3, <1>4, <1>5

(* No channel is registered after a crash.                                 *)
LEMMA BooksEmpty ==
  ASSUME DOMAIN Registered = {}, DOMAIN owner = {}, DOMAIN pm1 = {},
         attached = [c \in ClientIDs |-> [id \in ChannelIDs |-> 0]],
         enabledUsage = [c \in ClientIDs |-> 0],
         outputUsage = [c \in ClientIDs |-> [r \in Refs |-> 0]],
         pm2 = [c \in ClientIDs |-> {}]
  PROVE  Books
<1>1. /\ \A c : ChannelsOf(c) = {} /\ EnabledIn(Registered, c) = {}
      /\ \A c, r : UsingIn(Registered, c, r) = {}
      /\ Plain = {}
  BY DEF ChannelsOf, EnabledIn, UsingIn, Plain
<1>2. UsageExact
  BY <1>1, FS_EmptySet DEF UsageExact
<1>3. IndexExact
  BY <1>1 DEF IndexExact
<1> QED
  BY <1>1, <1>2, <1>3 DEF Books, RunsOwn, RunsAll

(* The first boot finds no channels and counts none.                       *)
LEMMA BooksInit == Init => Books
<1> SUFFICES ASSUME Init
             PROVE  Books
  OBVIOUS
<1>1. DOMAIN Registered = {}
  BY RegisteredCases DEF Init, Idle, Nothing
<1> QED
  BY <1>1, BooksEmpty DEF Init, Nothing

(* A crash empties the registry.                                           *)
LEMMA BooksCrash ==
  ASSUME Crash
  PROVE  Books'
<1>1. op' = Idle /\ DOMAIN objs' = {} /\ DOMAIN owner' = {} /\ DOMAIN pm1' = {}
  BY DEF Crash, Nothing
<1>2. DOMAIN Registered' = {}
  BY <1>1 DEF Registered, Idle
<1>3. /\ attached' = [c \in ClientIDs |-> [id \in ChannelIDs |-> 0]]
      /\ enabledUsage' = [c \in ClientIDs |-> 0]
      /\ outputUsage' = [c \in ClientIDs |-> [r \in Refs |-> 0]]
      /\ pm2' = [c \in ClientIDs |-> {}]
  BY DEF Crash
<1>4. /\ \A c : ChannelsOf(c)' = {} /\ EnabledIn(Registered', c) = {}
      /\ \A c, r : UsingIn(Registered', c, r) = {}
      /\ Plain' = {}
  BY <1>2 DEF ChannelsOf, EnabledIn, UsingIn, Plain
<1>5. UsageExact'
  BY <1>2, <1>3, FS_EmptySet DEF UsageExact, EnabledIn, UsingIn
<1>6. IndexExact'
  BY <1>1, <1>2, <1>3 DEF IndexExact, ChannelsOf
<1>7. RunsOwn' /\ RunsAll'
  BY <1>1, <1>2, <1>3 DEF RunsOwn, RunsAll, ChannelsOf, Plain
<1> QED
  BY <1>5, <1>6, <1>7 DEF Books

(* A restart registers what is stored, each channel for its owner.         *)
LEMMA BooksBoot ==
  ASSUME Types, Progress, Boot
  PROVE  Books'
<1>1. BootFrom(chanSeq) /\ DOMAIN chanRecs \subseteq ChannelIDs
  BY HighestID, BoundsAssumption DEF Boot, Types, TypeOK, ChannelIDs
<1>2. Registered' = objs'
  <2>1. op' = Idle
    BY <1>1 DEF BootFrom, Progress
  <2> QED
    BY <2>1 DEF Registered, Idle
<1>3. /\ DOMAIN Registered' = DOMAIN chanRecs
      /\ \A id \in DOMAIN chanRecs : Model(Registered'[id]) = chanRecs[id]
  BY <1>1, <1>2, ModelOfChannel DEF BootFrom, Types, TypeOK
<1>4. \A id \in DOMAIN chanRecs :
        /\ Registered'[id].owner = chanRecs[id].owner
        /\ Registered'[id].enabled = chanRecs[id].enabled
        /\ Registered'[id].outs = chanRecs[id].outs
        /\ chanRecs[id].owner \in DOMAIN clients' \union {NoClient}
  BY <1>1, <1>3 DEF Model, BootFrom, Bootable
<1>5. \A c : {id \in DOMAIN Registered' : Registered'[id].owner = c} = OwnedBy(c)
  BY <1>3, <1>4 DEF OwnedBy
<1>6. UsageExact'
  <2>1. ASSUME NEW c
        PROVE  /\ EnabledIn(Registered', c) = {id \in OwnedBy(c) : chanRecs[id].enabled}
               /\ \A r : UsingIn(Registered', c, r) = {id \in OwnedBy(c) : r \in chanRecs[id].outs}
    BY <1>3, <1>4 DEF EnabledIn, UsingIn, OwnedBy
  <2>2. ASSUME NEW c \in ClientIDs
        PROVE  /\ enabledUsage'[c] = Cardinality({id \in OwnedBy(c) : chanRecs[id].enabled})
               /\ \A r \in Refs :
                    outputUsage'[c][r] = Cardinality({id \in OwnedBy(c) : r \in chanRecs[id].outs})
    <3> DEFINE E(d) == {id \in OwnedBy(d) : chanRecs[id].enabled}
               U(d, r) == {id \in OwnedBy(d) : r \in chanRecs[id].outs}
    <3>1. enabledUsage' = [d \in ClientIDs |-> Cardinality(E(d))]
      BY <1>1 DEF BootFrom
    <3>2. outputUsage' = [d \in ClientIDs |-> [r \in Refs |-> Cardinality(U(d, r))]]
      BY <1>1 DEF BootFrom
    <3> HIDE DEF E, U
    <3>3. enabledUsage'[c] = Cardinality(E(c)) /\ \A r \in Refs : outputUsage'[c][r] = Cardinality(U(c, r))
      BY <3>1, <3>2
    <3> QED
      BY <3>3 DEF E, U
  <2>3. ASSUME NEW c \in ClientIDs
        PROVE  /\ enabledUsage'[c] = Cardinality(EnabledIn(Registered', c))
               /\ \A r \in Refs : outputUsage'[c][r] = Cardinality(UsingIn(Registered', c, r))
    BY <2>1, <2>2, Zenon
  <2> QED
    BY <2>3 DEF UsageExact, EnabledIn, UsingIn
<1>7. /\ owner' = [id \in DOMAIN chanRecs \ OwnedBy(NoClient) |-> chanRecs[id].owner]
      /\ attached' = [c \in ClientIDs |-> [id \in ChannelIDs |-> IF id \in OwnedBy(c) THEN 1 ELSE 0]]
      /\ DOMAIN pm1' = {i \in OwnedBy(NoClient) : chanRecs[i].enabled}
      /\ pm2' = [c \in ClientIDs |-> OwnedBy(c)]
  BY <1>1 DEF BootFrom
<1>8. IndexExact'
  <2>1. /\ DOMAIN owner' = DOMAIN Registered' \ ChannelsOf(NoClient)'
        /\ \A id \in DOMAIN owner' : owner'[id] = Registered'[id].owner /\ owner'[id] \in DOMAIN clients'
    BY <1>3, <1>4, <1>7 DEF ChannelsOf, OwnedBy
  <2>2. \A c \in ClientIDs, id \in ChannelIDs :
          attached'[c][id] = IF id \in ChannelsOf(c)' THEN 1 ELSE 0
    BY <1>5, <1>7 DEF ChannelsOf
  <2> QED
    BY <2>1, <2>2 DEF IndexExact
<1>9. RunsOwn' /\ RunsAll'
  <2>1. \A c \in ClientIDs : pm2'[c] = ChannelsOf(c)'
    BY <1>5, <1>7 DEF ChannelsOf
  <2>2. \A c \in ClientIDs \ DOMAIN clients' : ChannelsOf(c)' = {}
    BY <1>4, <1>5 DEF ChannelsOf, OwnedBy, ClientIDs, NoClient
  <2>3. DOMAIN pm1' = Plain'
    BY <1>3, <1>4, <1>5, <1>7 DEF ChannelsOf, Plain, OwnedBy
  <2> QED
    BY <2>1, <2>2, <2>3 DEF RunsOwn, RunsAll
<1> QED
  BY <1>6, <1>8, <1>9 DEF Books

(* Every step keeps the books.                                             *)
LEMMA BooksNext == Types /\ Progress /\ Books /\ [Next]_vars => Books'
<1> SUFFICES ASSUME Types, Progress, Books, [Next]_vars
             PROVE  Books'
  OBVIOUS
<1>1. CASE \/ ChannelOps \/ Publish \/ Listings \/ UNCHANGED vars
           \/ IncrFails
           \/ \E result \in WriteResults : StoreInsert(result) \/ StoreSet(result) \/ StoreDel(result)
  BY <1>1, NothingRegistered, BooksFrame
<1>2. CASE DetachFromClient \/ DetachUnowned
  BY <1>2, IndexDetach, UsageDetach, RunsDetach DEF Books
<1>3. CASE AttachToClient \/ AttachUnowned
  BY <1>3, IndexAttach, UsageAttach, RunsAttach DEF Books
<1>4. CASE ClientOps
  BY <1>4, BooksClientOps
<1>5. CASE Crash
  BY <1>5, BooksCrash
<1>6. CASE Boot
  BY <1>6, BooksBoot
<1> QED
  BY <1>1, <1>2, <1>3, <1>4, <1>5, <1>6 DEF Next, OpSteps

(* Books is an invariant.                                                  *)
THEOREM BooksKept == Spec => [](Types /\ Progress /\ Books)
<1>1. Types /\ Progress /\ Books /\ [Next]_vars => (Types /\ Progress /\ Books)'
  BY TypesNext, BooksNext
<1> QED
  BY <1>1, TypesInit, BooksInit, PTL DEF Spec

(* The usage of every client is the number of channels and outputs it has, *)
(* and the indices agree, at every step of every operation.                *)
THEOREM BooksExact == Spec => []BookkeepingExact
<1>1. Books => BookkeepingExact
  BY DEF Books, BookkeepingExact
<1> QED
  BY <1>1, BooksKept, PTL

(* Every channel is run by the manager that should run it, and by no other.*)
THEOREM RunOnce == Spec => []SupervisedOnce
<1>1. ASSUME Books
      PROVE  SupervisedOnce
  <2>1. SupervisedExactly
    BY <1>1 DEF Books, RunsOwn, RunsAll, SupervisedExactly, Plain
  <2>2. OneSupervisor
    <3>1. \A c \in ClientIDs : c # NoClient
      BY DEF ClientIDs, NoClient
    <3> QED
      BY <1>1, <3>1 DEF Books, RunsOwn, OneSupervisor, ChannelsOf, Plain
  <2> QED
    BY <2>1, <2>2 DEF SupervisedOnce
<1> QED
  BY <1>1, BooksKept, PTL

-----------------------------------------------------------------------------
(* Memory and Redis *)

\* The record of a channel, and what is held of it, agree.
InStep(id) ==
  /\ id \in DOMAIN objs <=> id \in DOMAIN chanRecs
  /\ id \in DOMAIN objs => Model(objs[id]) = chanRecs[id]

\* But for the one whose record has just been written.
Stored ==
  up /\ ~inDoubt =>
    /\ clients = clientRecs
    /\ \A id \in ChannelIDs : (op.step = "publish" => id # op.id) => InStep(id)

(* This is MemoryMatchesRedis, channel by channel.                         *)
LEMMA StoredMatches == Types /\ Stored => MemoryMatchesRedis
<1> SUFFICES ASSUME Types, Stored, up, ~inDoubt
             PROVE  MemoryMatchesRedis
  BY DEF MemoryMatchesRedis
<1> DEFINE held == [id \in DOMAIN objs |-> Model(objs[id])]
<1>1. DOMAIN objs \subseteq ChannelIDs /\ DOMAIN chanRecs \subseteq ChannelIDs
  BY BoundsAssumption DEF Types, TypeOK, ChannelIDs
<1>2. chanRecs = [id \in DOMAIN chanRecs |-> chanRecs[id]]
  BY DEF Types
<1>3. \A id \in ChannelIDs : (op.step = "publish" => id # op.id) => InStep(id)
  BY DEF Stored
<1>4. CASE op.step = "publish"
  <2>1. DOMAIN objs \ {op.id} = DOMAIN chanRecs \ {op.id}
    BY <1>1, <1>3, <1>4 DEF InStep
  <2>2. \A id \in DOMAIN objs \ {op.id} : Model(objs[id]) = chanRecs[id]
    BY <1>1, <1>3, <1>4 DEF InStep
  <2>3. Drop(held, op.id) = [id \in DOMAIN objs \ {op.id} |-> Model(objs[id])]
    BY DEF Drop
  <2>4. Drop(held, op.id) = Drop(chanRecs, op.id)
    BY <2>1, <2>2, <2>3 DEF Drop
  <2> QED
    BY <1>4, <2>4 DEF Stored, MemoryMatchesRedis
<1>5. CASE op.step # "publish"
  <2>1. DOMAIN objs = DOMAIN chanRecs /\ \A id \in DOMAIN objs : Model(objs[id]) = chanRecs[id]
    BY <1>1, <1>3, <1>5 DEF InStep
  <2>2. held = chanRecs
    BY <1>2, <2>1
  <2> QED
    BY <1>5, <2>2 DEF Stored, MemoryMatchesRedis
<1> QED
  BY <1>4, <1>5

(* A write that is answered changes the record that is then published.     *)
LEMMA StoredStore ==
  ASSUME Types, Progress, Stored, NEW result \in WriteResults,
         IncrFails \/ StoreInsert(result) \/ StoreSet(result) \/ StoreDel(result)
  PROVE  Stored'
<1> SUFFICES ASSUME ~inDoubt', up'
             PROVE  Stored'
  BY DEF Stored
<1>1. ~inDoubt /\ up /\ UNCHANGED <<objs, clients, clientRecs>>
  BY DEF IncrFails, StoreInsert, StoreSet, StoreDel, Answer, redis, Types, TypeOK
<1>2. clients = clientRecs /\ \A id \in ChannelIDs : (op.step = "publish" => id # op.id) => InStep(id)
  BY <1>1 DEF Stored
<1>3. op.step # "publish"
  BY DEF IncrFails, StoreInsert, StoreSet, StoreDel
<1>4. CASE UNCHANGED chanRecs
  BY <1>1, <1>2, <1>3, <1>4 DEF Stored, InStep
<1>5. CASE ~UNCHANGED chanRecs
  <2>1. result = "ok"
    <3>1. result \in Outcomes /\ result # "refused"
      BY <1>5, ResultsAssumption DEF IncrFails, redis, StoreInsert, StoreSet, StoreDel
    <3>2. result # "unknown"
      BY <1>5 DEF IncrFails, redis, StoreInsert, StoreSet, StoreDel, Answer
    <3> QED
      BY <3>1, <3>2 DEF Outcomes
  <2>2. /\ op'.step = "publish"
        /\ \A id \in ChannelIDs : id # op'.id =>
             /\ id \in DOMAIN chanRecs' <=> id \in DOMAIN chanRecs
             /\ id \in DOMAIN chanRecs => chanRecs'[id] = chanRecs[id]
    <3>1. CASE StoreInsert(result)
      <4>1. op' = [op EXCEPT !.step = "publish", !.id = chanSeq + 1]
        BY <2>1, <3>1 DEF StoreInsert, Answer
      <4>2. op \in [step : {"insert", "publish", "attach"}, kind : {"create"}, id : Nat, new : Channels]
        BY <3>1 DEF StoreInsert, Types, Ops
      <4>3. op'.step = "publish" /\ op'.id = chanSeq + 1
        BY <4>1, <4>2
      <4>4. chanRecs' = Put(chanRecs, chanSeq + 1, Model(op.new))
        BY <2>1, <3>1 DEF StoreInsert
      <4> QED
        BY <4>3, <4>4 DEF Put
    <3>2. CASE StoreSet(result)
      <4>1. op'.step = "publish" /\ op'.id = op.id
        BY <2>1, <3>2 DEF StoreSet, Answer, Types, Ops
      <4>2. chanRecs' = Put(chanRecs, op.id, Model(op.new))
        BY <2>1, <3>2 DEF StoreSet
      <4> QED
        BY <4>1, <4>2 DEF Put
    <3>3. CASE StoreDel(result)
      <4>1. op'.step = "publish" /\ op'.id = op.id
        BY <2>1, <3>3 DEF StoreDel, Answer, Types, Ops
      <4>2. chanRecs' = Drop(chanRecs, op.id)
        BY <2>1, <3>3 DEF StoreDel
      <4> QED
        BY <4>1, <4>2 DEF Drop
    <3> QED
      BY <1>5, <3>1, <3>2, <3>3 DEF IncrFails, redis
  <2> QED
    BY <1>1, <1>2, <1>3, <2>2 DEF Stored, InStep
<1> QED
  BY <1>4, <1>5

(* Publishing brings memory to what was written.                           *)
LEMMA StoredPublish ==
  ASSUME Types, Progress, Stored, Publish
  PROVE  Stored'
<1> SUFFICES ASSUME ~inDoubt', up'
             PROVE  Stored'
  BY DEF Stored
<1>1. ~inDoubt /\ up /\ UNCHANGED <<clients, redis>> /\ op.step = "publish"
  BY DEF Publish
<1>2. /\ clients' = clientRecs' /\ chanRecs' = chanRecs
      /\ \A id \in ChannelIDs : id # op.id => InStep(id)
  BY <1>1 DEF Stored, redis
<1>3. op'.step # "publish"
  BY DEF Publish, Types, Ops
<1>4. objs' = IF op.kind = "delete" THEN Drop(objs, op.id) ELSE Put(objs, op.id, op.new)
  BY DEF Publish
<1>5. IF op.kind = "delete" THEN op.id \notin DOMAIN chanRecs
      ELSE op.id \in DOMAIN chanRecs /\ chanRecs[op.id] = Model(op.new)
  BY <1>1 DEF Progress
<1>6. ASSUME NEW id \in ChannelIDs
      PROVE  InStep(id)'
  <2>1. CASE id # op.id
    BY <1>2, <1>4, <2>1 DEF InStep, Put, Drop
  <2>2. CASE id = op.id
    BY <1>2, <1>4, <1>5, <2>2 DEF InStep, Put, Drop
  <2> QED
    BY <2>1, <2>2
<1> QED
  BY <1>2, <1>6 DEF Stored

(* A restart loads what is stored.                                         *)
LEMMA StoredBoot ==
  ASSUME Types, Progress, Boot
  PROVE  Stored'
<1>1. BootFrom(chanSeq)
  BY HighestID DEF Boot
<1>2. /\ clients' = clientRecs' /\ chanRecs' = chanRecs
      /\ DOMAIN objs' = DOMAIN chanRecs
      /\ \A id \in DOMAIN chanRecs : Model(objs'[id]) = chanRecs[id]
  BY <1>1, ModelOfChannel DEF BootFrom, Types, TypeOK
<1> QED
  BY <1>2 DEF Stored, InStep

(* Every step keeps memory and Redis alike.                                *)
LEMMA StoredNext == Types /\ Progress /\ Stored /\ [Next]_vars => Stored'
<1> SUFFICES ASSUME Types, Progress, Stored, [Next]_vars
             PROVE  Stored'
  OBVIOUS
<1>1. CASE ChannelOps
  <2>1. /\ UNCHANGED <<redis, up, objs, clients, inDoubt>>
        /\ \/ UNCHANGED op
           \/ \E ch \in Requests : Create(ch)
           \/ \E id \in ChannelIDs, ch \in Channels, fields \in SUBSET Fields : Update(id, ch, fields)
           \/ \E id \in ChannelIDs : Delete(id)
    BY <1>1, ChannelOpsCases
  <2>2. UNCHANGED op \/ op.step # "publish"
    <3>1. UNCHANGED op \/ op = Idle
      BY <2>1 DEF Create, Update, Delete, Quiet
    <3>2. Idle.step # "publish"
      BY DEF Idle
    <3> QED
      BY <3>1, <3>2
  <2> QED
    BY <2>1, <2>2 DEF Stored, InStep, redis
<1>2. CASE Listings \/ UNCHANGED vars
  BY <1>2 DEF Listings, ListIDs, GetMany, vars, redis, Stored, InStep
<1>3. CASE DetachFromClient \/ DetachUnowned \/ AttachUnowned
  BY <1>3 DEF DetachFromClient, DetachUnowned, AttachUnowned, redis, Stored, InStep
<1>4. CASE AttachToClient
  <2>1. /\ UNCHANGED <<redis, up, clients, inDoubt>> /\ op.step = "attach"
        /\ objs' = Put(objs, op.id, [op.new EXCEPT !.interactive = TRUE])
    BY <1>4 DEF AttachToClient, RegisterChannel
  <2>2. op.id \in DOMAIN objs /\ objs[op.id] = op.new /\ op.new \in Channels
    BY <2>1 DEF Progress, Types, Ops
  <2>3. /\ DOMAIN objs' = DOMAIN objs
        /\ \A id \in DOMAIN objs : Model(objs'[id]) = Model(objs[id])
    BY <2>1, <2>2, ModelOfChannel DEF Put
  <2> QED
    BY <2>1, <2>3 DEF redis, Stored, InStep
<1>5. CASE ClientOps
  <2>1. UNCHANGED <<chanRecs, up, objs, op>>
    BY <1>5 DEF ClientOps, CreateClient, UpdateClient, DeleteClient
  <2>2. ~inDoubt' => ~inDoubt /\ (clients = clientRecs => clients' = clientRecs')
    <3>1. PICK result \in WriteResults :
            \/ \E q \in ClientModels : CreateClient(q, result)
            \/ \E c \in ClientIDs, q \in ClientModels : UpdateClient(c, q, result)
            \/ \E c \in ClientIDs : DeleteClient(c, result)
      BY <1>5 DEF ClientOps
    <3>2. result \in Outcomes /\ inDoubt' = (inDoubt \/ result = "unknown")
      BY <3>1, ResultsAssumption DEF CreateClient, UpdateClient, DeleteClient
    <3>3. \/ result = "unknown"
          \/ UNCHANGED <<clients, clientRecs>>
          \/ \E c, q : clients' = Put(clients, c, q) /\ clientRecs' = Put(clientRecs, c, q)
          \/ \E c : clients' = Drop(clients, c) /\ clientRecs' = Drop(clientRecs, c)
      <4>1. CASE result = "refused"
        BY <3>1, <4>1 DEF CreateClient, UpdateClient, DeleteClient
      <4>2. CASE result = "ok"
        BY <3>1, <4>2 DEF CreateClient, UpdateClient, DeleteClient
      <4> QED
        BY <3>2, <4>1, <4>2 DEF Outcomes
    <3>4. ~inDoubt' => ~inDoubt /\ result # "unknown"
      BY <3>2, Zenon
    <3>5. result # "unknown" => (clients = clientRecs => clients' = clientRecs')
      <4> SUFFICES ASSUME result # "unknown", clients = clientRecs
                   PROVE  clients' = clientRecs'
        OBVIOUS
      <4>1. CASE \E c, q : clients' = Put(clients, c, q) /\ clientRecs' = Put(clientRecs, c, q)
        <5>1. PICK c, q : clients' = Put(clients, c, q) /\ clientRecs' = Put(clientRecs, c, q)
          BY <4>1
        <5> QED
          BY <5>1
      <4>2. CASE \E c : clients' = Drop(clients, c) /\ clientRecs' = Drop(clientRecs, c)
        <5>1. PICK c : clients' = Drop(clients, c) /\ clientRecs' = Drop(clientRecs, c)
          BY <4>2
        <5> QED
          BY <5>1
      <4> QED
        BY <3>3, <4>1, <4>2
    <3> QED
      BY <3>4, <3>5
  <2> QED
    BY <2>1, <2>2 DEF Stored, InStep
<1>6. CASE Crash
  BY <1>6 DEF Crash, Stored
<1>7. CASE Boot
  BY <1>7, StoredBoot
<1>8. CASE IncrFails
  BY <1>8 DEF IncrFails, redis, Stored, InStep, Idle
<1>9. CASE \E result \in WriteResults : StoreInsert(result) \/ StoreSet(result) \/ StoreDel(result)
  BY <1>9, StoredStore
<1> QED
  BY <1>1, <1>2, <1>3, <1>4, <1>5, <1>6, <1>7, <1>8, <1>9, StoredPublish DEF Next, OpSteps

(* As long as every write is answered, what is held in memory is what a    *)
(* restart would load.                                                     *)
THEOREM MemoryIsStored == Spec => []MemoryMatchesRedis
<1>1. Init => Stored
  BY DEF Init, Stored, InStep, Nothing
<1> QED
  BY <1>1, TypesInit, TypesNext, StoredNext, StoredMatches, PTL DEF Spec

-----------------------------------------------------------------------------
(* Identifiers *)

(* An id that was handed out and is neither stored nor held never returns, *)
(* and the counter of the ids never goes back, not even in a restart.      *)
THEOREM IDsNeverReturn == Spec => IDsNeverRecycled
<1>1. ASSUME Types, Progress, [Next]_vars
      PROVE  /\ chanSeq' >= chanSeq
             /\ \A id \in 1..chanSeq : id \in DOMAIN chanRecs' => id \in DOMAIN chanRecs \union DOMAIN objs
  <2> USE <1>1 DEF Types, TypeOK
  <2>1. CASE UNCHANGED <<chanRecs, chanSeq>>
    BY <2>1
  <2>2. ASSUME NEW result \in WriteResults, StoreInsert(result)
        PROVE  /\ chanSeq' >= chanSeq
               /\ \A id \in 1..chanSeq : id \in DOMAIN chanRecs' => id \in DOMAIN chanRecs
    BY <2>2 DEF StoreInsert, Put
  <2>3. ASSUME NEW result \in WriteResults, StoreSet(result)
        PROVE  /\ chanSeq' = chanSeq
               /\ DOMAIN chanRecs' \subseteq DOMAIN chanRecs \union DOMAIN objs
    BY <2>3 DEF StoreSet, Put, Progress
  <2>4. ASSUME NEW result \in WriteResults, StoreDel(result)
        PROVE  /\ chanSeq' = chanSeq
               /\ DOMAIN chanRecs' \subseteq DOMAIN chanRecs
    BY <2>4 DEF StoreDel, Drop
  <2>5. CASE Boot
    <3>1. chanSeq' = chanSeq
      BY <2>5, TypesBoot
    <3>2. chanRecs' = chanRecs
      BY <2>5, Zenon DEF Boot, BootFrom
    <3> QED
      BY <2>1, <3>1, <3>2
  <2>6. CASE ChannelOps
    <3>1. UNCHANGED redis
      BY <2>6, ChannelOpsCases
    <3> QED
      BY <2>1, <3>1 DEF redis
  <2>7. CASE ClientOps \/ Listings \/ Crash
    BY <2>1, <2>7 DEF ClientOps, CreateClient, UpdateClient, DeleteClient,
                      Listings, ListIDs, GetMany, Crash, redis
  <2>8. CASE \/ IncrFails \/ Publish \/ DetachFromClient \/ DetachUnowned
             \/ AttachToClient \/ AttachUnowned
    BY <2>1, <2>8 DEF IncrFails, Publish, DetachFromClient, DetachUnowned,
                      AttachToClient, AttachUnowned, redis
  <2>9. CASE UNCHANGED vars
    BY <2>1, <2>9 DEF vars, redis
  <2> QED
    BY <2>2, <2>3, <2>4, <2>5, <2>6, <2>7, <2>8, <2>9 DEF Next, OpSteps
<1> QED
  BY <1>1, RegistryTypeCorrect, PTL DEF Spec, IDsNeverRecycled

-----------------------------------------------------------------------------
(* Quotas *)

\* No client has more in a table than its part of p.
Fits(R, p) ==
  \A c \in ClientIDs :
    /\ Cardinality(EnabledIn(R, c)) <= p[c].channels
    /\ \A r \in Refs : Cardinality(UsingIn(R, c, r)) <= p[c].outputs[r]

Covers(p, q) == q.channels <= p.channels /\ \A r \in Refs : Limit(q, r) <= p.outputs[r]

Peaks == [ClientIDs -> [channels : Nat, outputs : [Refs -> Nat]]]

\* The channel that was checked fits before it is written, what is written
\* fits before it is loaded or published, and what is held fits.
Quotas ==
  /\ clientSeq <= MaxClients
  /\ peak \in Peaks
  /\ ~inDoubt
  /\ \A c \in DOMAIN clientRecs : Covers(peak[c], clientRecs[c])
  /\ ~panicked =>
       /\ Fits(objs, peak) /\ Fits(chanRecs, peak)
       /\ op.step = "insert" => Fits(Put(objs, chanSeq + 1, op.new), peak)
       /\ op.step = "set" => Fits(Put(objs, op.id, op.new), peak)

(* Fewer channels fit as well, and more room fits as many.                 *)
LEMMA FitsFewer ==
  ASSUME NEW R, DOMAIN R \subseteq ChannelIDs, NEW S, DOMAIN S \subseteq DOMAIN R,
         \A id \in DOMAIN S : /\ S[id].owner = R[id].owner
                              /\ S[id].enabled = R[id].enabled
                              /\ S[id].outs = R[id].outs,
         NEW p \in Peaks, NEW pp \in Peaks,
         \A c \in ClientIDs : /\ p[c].channels <= pp[c].channels
                              /\ \A r \in Refs : p[c].outputs[r] <= pp[c].outputs[r],
         Fits(R, p)
  PROVE  Fits(S, pp)
<1> SUFFICES ASSUME NEW c \in ClientIDs
             PROVE  /\ Cardinality(EnabledIn(S, c)) <= pp[c].channels
                    /\ \A r \in Refs : Cardinality(UsingIn(S, c, r)) <= pp[c].outputs[r]
  BY DEF Fits
<1>0. /\ p[c].channels \in Nat /\ pp[c].channels \in Nat
      /\ \A r \in Refs : p[c].outputs[r] \in Nat /\ pp[c].outputs[r] \in Nat
  BY DEF Peaks
<1>1. /\ EnabledIn(S, c) \subseteq EnabledIn(R, c) /\ EnabledIn(R, c) \subseteq ChannelIDs
      /\ EnabledIn(S, c) \subseteq ChannelIDs
  BY DEF EnabledIn
<1>2. Cardinality(EnabledIn(S, c)) <= Cardinality(EnabledIn(R, c))
  BY <1>1, ChannelSets, FS_Subset
<1>3. Cardinality(EnabledIn(S, c)) \in Nat /\ Cardinality(EnabledIn(R, c)) \in Nat
  BY <1>1, ChannelSets
<1>4. Cardinality(EnabledIn(R, c)) <= p[c].channels /\ p[c].channels <= pp[c].channels
  BY DEF Fits
<1>5. ASSUME NEW r \in Refs
      PROVE  Cardinality(UsingIn(S, c, r)) <= pp[c].outputs[r]
  <2>1. /\ UsingIn(S, c, r) \subseteq UsingIn(R, c, r) /\ UsingIn(R, c, r) \subseteq ChannelIDs
        /\ UsingIn(S, c, r) \subseteq ChannelIDs
    BY DEF UsingIn
  <2>2. Cardinality(UsingIn(S, c, r)) <= Cardinality(UsingIn(R, c, r))
    BY <2>1, ChannelSets, FS_Subset
  <2>3. Cardinality(UsingIn(S, c, r)) \in Nat /\ Cardinality(UsingIn(R, c, r)) \in Nat
    BY <2>1, ChannelSets
  <2>4. Cardinality(UsingIn(R, c, r)) <= p[c].outputs[r] /\ p[c].outputs[r] <= pp[c].outputs[r]
    BY DEF Fits
  <2> QED
    BY <1>0, <2>2, <2>3, <2>4
<1> QED
  BY <1>0, <1>2, <1>3, <1>4, <1>5

(* A quota is a number of channels, and a number of every output.          *)
LEMMA LimitTyped ==
  ASSUME NEW q \in ClientModels
  PROVE  q.channels \in Nat /\ \A r \in Refs : Limit(q, r) \in Nat
  BY ModelsAssumption, BoundsAssumption DEF Limit

(* What the checks of Create let pass fits, under an id of its own.        *)
LEMMA FitsCreated ==
  ASSUME Types, Quotas, Stored, UsageExact, up, op = Idle, ~panicked,
         NEW id \in ChannelIDs, NEW new \in Channels, CreateAllowed(new),
         id \in DOMAIN objs => objs[id].owner = NoClient \/ objs[id].owner # new.owner
  PROVE  Fits(Put(objs, id, new), peak)
<1> DEFINE R == Put(objs, id, new)
<1>1. DOMAIN objs \subseteq ChannelIDs /\ DOMAIN R \subseteq ChannelIDs
  BY BoundsAssumption DEF Types, TypeOK, ChannelIDs, Put
<1>2. SUFFICES ASSUME NEW c \in ClientIDs
               PROVE  /\ Cardinality(EnabledIn(R, c)) <= peak[c].channels
                      /\ \A r \in Refs : Cardinality(UsingIn(R, c, r)) <= peak[c].outputs[r]
  BY DEF Fits
<1>3. c # NoClient /\ peak[c].channels \in Nat /\ \A r \in Refs : peak[c].outputs[r] \in Nat
  BY DEF ClientIDs, NoClient, Quotas, Peaks
<1>4. /\ Cardinality(EnabledIn(objs, c)) <= peak[c].channels
      /\ \A r \in Refs : Cardinality(UsingIn(objs, c, r)) <= peak[c].outputs[r]
  BY DEF Quotas, Fits
<1>5. CASE new.owner # c
  <2>1. /\ EnabledIn(R, c) \subseteq EnabledIn(objs, c)
        /\ \A r \in Refs : UsingIn(R, c, r) \subseteq UsingIn(objs, c, r)
    BY <1>5 DEF EnabledIn, UsingIn, Put
  <2>2. /\ EnabledIn(objs, c) \subseteq ChannelIDs
        /\ \A r \in Refs : UsingIn(objs, c, r) \subseteq ChannelIDs
    BY <1>1 DEF EnabledIn, UsingIn
  <2>3. /\ IsFiniteSet(EnabledIn(objs, c)) /\ Cardinality(EnabledIn(objs, c)) \in Nat
        /\ Cardinality(EnabledIn(R, c)) \in Nat
    BY <2>1, <2>2, ChannelSets
  <2>4. Cardinality(EnabledIn(R, c)) <= Cardinality(EnabledIn(objs, c))
    BY <2>1, <2>3, FS_Subset
  <2>5. ASSUME NEW r \in Refs
        PROVE  Cardinality(UsingIn(R, c, r)) <= peak[c].outputs[r]
    <3>1. /\ IsFiniteSet(UsingIn(objs, c, r)) /\ Cardinality(UsingIn(objs, c, r)) \in Nat
          /\ Cardinality(UsingIn(R, c, r)) \in Nat
      BY <2>1, <2>2, ChannelSets
    <3>2. Cardinality(UsingIn(R, c, r)) <= Cardinality(UsingIn(objs, c, r))
      BY <2>1, <3>1, FS_Subset
    <3> QED
      BY <1>3, <1>4, <3>1, <3>2
  <2> QED
    BY <1>3, <1>4, <2>3, <2>4, <2>5
<1>6. CASE new.owner = c
  <2>1. /\ EnabledIn(R, c) = IF new.enabled THEN EnabledIn(objs, c) \union {id} ELSE EnabledIn(objs, c)
        /\ id \notin EnabledIn(objs, c) /\ EnabledIn(objs, c) \subseteq ChannelIDs
    BY <1>1, <1>3, <1>6 DEF EnabledIn, Put
  <2>2. ASSUME NEW r \in Refs
        PROVE  /\ UsingIn(R, c, r) = IF r \in new.outs THEN UsingIn(objs, c, r) \union {id} ELSE UsingIn(objs, c, r)
               /\ id \notin UsingIn(objs, c, r) /\ UsingIn(objs, c, r) \subseteq ChannelIDs
               /\ UsingIn(R, c, r) \subseteq ChannelIDs
    BY <1>1, <1>3, <1>6 DEF UsingIn, Put
  <2>3. /\ c \in DOMAIN clients /\ clients[c] \in ClientModels
        /\ new.enabled => enabledUsage[c] + 1 <= clients[c].channels
        /\ \A r \in new.outs \intersect DOMAIN clients[c].outputs :
             outputUsage[c][r] + 1 <= clients[c].outputs[r]
    BY <1>3, <1>6 DEF CreateAllowed, ChannelQuotaAllows, OutputQuotasAllow, Types, TypeOK
  <2>4. Covers(peak[c], clients[c])
    BY <2>3 DEF Stored, Quotas
  <2>5. Registered = objs
    BY RegisteredCases DEF Idle
  <2>6. /\ enabledUsage[c] = Cardinality(EnabledIn(objs, c))
        /\ \A r \in Refs : outputUsage[c][r] = Cardinality(UsingIn(objs, c, r))
    BY <2>5 DEF UsageExact
  <2>7. clients[c].channels \in Nat /\ \A r \in Refs : Limit(clients[c], r) \in Nat
    BY <2>3, LimitTyped
  <2>8. Cardinality(EnabledIn(R, c)) <= peak[c].channels
    <3>1. Cardinality(EnabledIn(objs, c)) \in Nat
      BY <2>1, ChannelSets
    <3>2. CASE new.enabled
      BY <1>3, <2>1, <2>3, <2>4, <2>6, <2>7, <3>1, <3>2, ChannelAdded DEF Covers
    <3>3. CASE ~new.enabled
      BY <1>4, <2>1, <3>3
    <3> QED
      BY <3>2, <3>3
  <2>9. ASSUME NEW r \in Refs
        PROVE  Cardinality(UsingIn(R, c, r)) <= peak[c].outputs[r]
    <3>1. Cardinality(UsingIn(objs, c, r)) \in Nat
      BY <2>2, ChannelSets
    <3>2. CASE r \notin new.outs
      BY <1>4, <2>2, <3>2
    <3>3. CASE r \in new.outs /\ r \in DOMAIN clients[c].outputs
      <4>1. Cardinality(UsingIn(R, c, r)) = outputUsage[c][r] + 1
        BY <2>2, <2>6, <3>3, ChannelAdded
      <4>2. outputUsage[c][r] + 1 <= Limit(clients[c], r)
        BY <2>3, <3>3 DEF Limit
      <4>3. Limit(clients[c], r) <= peak[c].outputs[r]
        BY <2>4 DEF Covers
      <4> QED
        BY <1>3, <2>6, <2>7, <3>1, <4>1, <4>2, <4>3
    <3>4. CASE r \notin DOMAIN clients[c].outputs
      <4>1. MaxChannels <= peak[c].outputs[r]
        BY <2>4, <3>4 DEF Covers, Limit
      <4>2. Cardinality(UsingIn(R, c, r)) <= MaxChannels /\ Cardinality(UsingIn(R, c, r)) \in Nat
        BY <2>2, ChannelSets
      <4> QED
        BY <1>3, <4>1, <4>2, BoundsAssumption
    <3> QED
      BY <3>2, <3>3, <3>4
  <2> QED
    BY <2>8, <2>9
<1> QED
  BY <1>5, <1>6

(* So does what the checks of Update let pass, in the place of the channel *)
(* it updates: what the channel had before is not checked again.           *)
LEMMA FitsUpdated ==
  ASSUME Types, Quotas, Stored, UsageExact, up, op = Idle, ~panicked,
         NEW id \in DOMAIN objs, NEW new \in Channels, UpdateAllowed(objs[id], new)
  PROVE  Fits(Put(objs, id, new), peak)
<1> DEFINE R == Put(objs, id, new)
           old == objs[id]
<1>0. DOMAIN objs \subseteq ChannelIDs /\ id \in ChannelIDs
  BY BoundsAssumption DEF Types, TypeOK, ChannelIDs
<1>1. /\ DOMAIN R = DOMAIN objs /\ R[id] = new
      /\ \A x \in DOMAIN objs \ {id} : R[x] = objs[x]
  BY DEF Put
<1>2. CASE new.owner = NoClient \/ new.owner # old.owner
  <2>1. CreateAllowed(new)
    BY <1>2 DEF UpdateAllowed
  <2> QED
    BY <1>0, <1>2, <2>1, FitsCreated
<1>3. CASE new.owner # NoClient /\ new.owner = old.owner
  <2> SUFFICES ASSUME NEW c \in ClientIDs
               PROVE  /\ Cardinality(EnabledIn(R, c)) <= peak[c].channels
                      /\ \A r \in Refs : Cardinality(UsingIn(R, c, r)) <= peak[c].outputs[r]
    BY DEF Fits
  <2>1. peak[c].channels \in Nat /\ \A r \in Refs : peak[c].outputs[r] \in Nat
    BY DEF Quotas, Peaks
  <2>2. /\ Cardinality(EnabledIn(objs, c)) <= peak[c].channels
        /\ \A r \in Refs : Cardinality(UsingIn(objs, c, r)) <= peak[c].outputs[r]
    BY DEF Quotas, Fits
  <2>3. CASE new.owner # c
    <3>1. EnabledIn(R, c) = EnabledIn(objs, c) /\ \A r \in Refs : UsingIn(R, c, r) = UsingIn(objs, c, r)
      BY <1>1, <1>3, <2>3 DEF EnabledIn, UsingIn
    <3> QED
      BY <2>2, <3>1
  <2>4. CASE new.owner = c
    <3>1. /\ c \in DOMAIN clients /\ clients[c] \in ClientModels
          /\ ~old.enabled /\ new.enabled => enabledUsage[c] + 1 <= clients[c].channels
          /\ \A r \in (new.outs \ old.outs) \intersect DOMAIN clients[c].outputs :
               outputUsage[c][r] + 1 <= clients[c].outputs[r]
      BY <1>3, <2>4 DEF UpdateAllowed, ChannelQuotaAllows, OutputQuotasAllow, Types, TypeOK
    <3>2. Covers(peak[c], clients[c])
      BY <3>1 DEF Stored, Quotas
    <3>3. Registered = objs
      BY RegisteredCases DEF Idle
    <3>4. /\ enabledUsage[c] = Cardinality(EnabledIn(objs, c))
          /\ \A r \in Refs : outputUsage[c][r] = Cardinality(UsingIn(objs, c, r))
      BY <3>3 DEF UsageExact
    <3>5. clients[c].channels \in Nat /\ \A r \in Refs : Limit(clients[c], r) \in Nat
      BY <3>1, LimitTyped
    <3>6. Cardinality(EnabledIn(R, c)) <= peak[c].channels
      <4>1. EnabledIn(objs, c) \subseteq ChannelIDs /\ EnabledIn(R, c) \subseteq ChannelIDs
        BY <1>0, <1>1 DEF EnabledIn
      <4>2. /\ Cardinality(EnabledIn(objs, c)) \in Nat /\ Cardinality(EnabledIn(R, c)) \in Nat
            /\ IsFiniteSet(EnabledIn(objs, c))
        BY <4>1, ChannelSets
      <4>3. CASE new.enabled /\ ~old.enabled
        <5>1. EnabledIn(R, c) = EnabledIn(objs, c) \union {id} /\ id \notin EnabledIn(objs, c)
          BY <1>1, <2>4, <4>3 DEF EnabledIn
        <5> QED
          BY <2>1, <3>1, <3>2, <3>4, <3>5, <4>1, <4>2, <4>3, <5>1, <1>0, ChannelAdded DEF Covers
      <4>4. CASE new.enabled => old.enabled
        <5>1. EnabledIn(R, c) \subseteq EnabledIn(objs, c)
          BY <1>1, <1>3, <2>4, <4>4 DEF EnabledIn
        <5>2. Cardinality(EnabledIn(R, c)) <= Cardinality(EnabledIn(objs, c))
          BY <4>2, <5>1, FS_Subset
        <5> QED
          BY <2>1, <2>2, <4>2, <5>2
      <4> QED
        BY <4>3, <4>4
    <3>7. ASSUME NEW r \in Refs
          PROVE  Cardinality(UsingIn(R, c, r)) <= peak[c].outputs[r]
      <4>1. UsingIn(objs, c, r) \subseteq ChannelIDs /\ UsingIn(R, c, r) \subseteq ChannelIDs
        BY <1>0, <1>1 DEF UsingIn
      <4>2. /\ Cardinality(UsingIn(objs, c, r)) \in Nat /\ Cardinality(UsingIn(R, c, r)) \in Nat
            /\ Cardinality(UsingIn(R, c, r)) <= MaxChannels
            /\ IsFiniteSet(UsingIn(objs, c, r))
        BY <4>1, ChannelSets
      <4>3. CASE r \in new.outs => r \in old.outs
        <5>1. UsingIn(R, c, r) \subseteq UsingIn(objs, c, r)
          BY <1>1, <1>3, <2>4, <4>3 DEF UsingIn
        <5>2. Cardinality(UsingIn(R, c, r)) <= Cardinality(UsingIn(objs, c, r))
          BY <4>2, <5>1, FS_Subset
        <5> QED
          BY <2>1, <2>2, <4>2, <5>2
      <4>4. CASE r \in new.outs \ old.outs /\ r \in DOMAIN clients[c].outputs
        <5>1. UsingIn(R, c, r) = UsingIn(objs, c, r) \union {id} /\ id \notin UsingIn(objs, c, r)
          BY <1>1, <2>4, <4>4 DEF UsingIn
        <5>2. Cardinality(UsingIn(R, c, r)) = outputUsage[c][r] + 1
          BY <1>0, <3>4, <4>1, <5>1, ChannelAdded
        <5>3. outputUsage[c][r] + 1 <= Limit(clients[c], r)
          BY <3>1, <4>4 DEF Limit
        <5>4. Limit(clients[c], r) <= peak[c].outputs[r]
          BY <3>2 DEF Covers
        <5> QED
          BY <2>1, <3>4, <3>5, <4>2, <5>2, <5>3, <5>4
      <4>5. CASE r \notin DOMAIN clients[c].outputs
        <5>1. MaxChannels <= peak[c].outputs[r]
          BY <3>2, <4>5 DEF Covers, Limit
        <5> QED
          BY <2>1, <4>2, <5>1, BoundsAssumption
      <4> QED
        BY <4>3, <4>4, <4>5
    <3> QED
      BY <3>6, <3>7
  <2> QED
    BY <2>3, <2>4
<1> QED
  BY <1>2, <1>3

(* A client that is created or updated raises its peak, and no other.      *)
LEMMA PeakRaised ==
  ASSUME Quotas, NEW c \in ClientIDs, NEW q \in ClientModels, Raise(c, q)
  PROVE  /\ peak' \in Peaks
         /\ \A d \in ClientIDs : /\ peak[d].channels <= peak'[d].channels
                                 /\ \A r \in Refs : peak[d].outputs[r] <= peak'[d].outputs[r]
         /\ Covers(peak'[c], q)
<1> DEFINE top == [channels |-> Higher(peak[c].channels, q.channels),
                   outputs |-> [r \in Refs |-> Higher(peak[c].outputs[r], Limit(q, r))]]
<1>1. /\ peak \in Peaks /\ peak[c].channels \in Nat /\ q.channels \in Nat
      /\ \A r \in Refs : peak[c].outputs[r] \in Nat /\ Limit(q, r) \in Nat
  BY LimitTyped DEF Quotas, Peaks
<1>2. \A a, b \in Nat : Higher(a, b) \in Nat /\ a <= Higher(a, b) /\ b <= Higher(a, b)
  BY DEF Higher
<1>3. top \in [channels : Nat, outputs : [Refs -> Nat]]
  BY <1>1, <1>2
<1>4. /\ peak[c].channels <= top.channels /\ q.channels <= top.channels
      /\ \A r \in Refs : peak[c].outputs[r] <= top.outputs[r] /\ Limit(q, r) <= top.outputs[r]
  BY <1>1, <1>2
<1>5. peak' = [peak EXCEPT ![c] = top]
  BY DEF Raise
<1> HIDE DEF top
<1>6. peak' \in Peaks /\ peak'[c] = top /\ \A d \in ClientIDs \ {c} : peak'[d] = peak[d]
  BY <1>1, <1>3, <1>5 DEF Peaks
<1>7. \A d \in ClientIDs \ {c} : /\ peak[d].channels <= peak'[d].channels
                                 /\ \A r \in Refs : peak[d].outputs[r] <= peak'[d].outputs[r]
  BY <1>1, <1>6 DEF Peaks
<1> QED
  BY <1>4, <1>6, <1>7 DEF Covers

(* The operation that begins has been checked.                             *)
LEMMA QuotasBegin ==
  ASSUME Types, Progress, Books, Stored, Quotas, ChannelOps
  PROVE  Quotas'
<1>1. /\ UNCHANGED <<redis, up, objs, clients, counters, pm1, pm2, lists, panicked, inDoubt, peak>>
      /\ \/ UNCHANGED op
         \/ \E ch \in Requests : Create(ch)
         \/ \E id \in ChannelIDs, ch \in Channels, fields \in SUBSET Fields : Update(id, ch, fields)
         \/ \E id \in ChannelIDs : Delete(id)
  BY ChannelOpsCases
<1>2. UNCHANGED <<chanRecs, chanSeq, clientRecs, clientSeq, objs, panicked, inDoubt, peak>>
  BY <1>1 DEF redis
<1>3. CASE UNCHANGED op
  BY <1>2, <1>3 DEF Quotas
<1>4. ASSUME NEW ch \in Requests, Create(ch)
      PROVE  Quotas'
  <2>1. op'.step = "insert" /\ op'.new = ch /\ up /\ op = Idle /\ CreateAllowed(ch) /\ chanSeq < MaxChannels
    BY <1>4 DEF Create, Begin, Quiet
  <2>2. chanSeq + 1 \in ChannelIDs /\ chanSeq + 1 \notin DOMAIN objs /\ ch \in Channels
    BY <2>1, BoundsAssumption DEF Types, TypeOK, ChannelIDs, Requests
  <2>3. ~panicked => Fits(Put(objs, chanSeq + 1, ch), peak)
    BY <2>1, <2>2, FitsCreated DEF Books
  <2> QED
    BY <1>2, <2>1, <2>3 DEF Quotas
<1>5. ASSUME NEW id \in ChannelIDs, NEW ch \in Channels, NEW fields \in SUBSET Fields, Update(id, ch, fields)
      PROVE  Quotas'
  <2>1. /\ op'.step = "set" /\ op'.id = id /\ op'.new = ch /\ up /\ op = Idle
        /\ id \in DOMAIN objs /\ UpdateAllowed(objs[id], ch)
    BY <1>5 DEF Update, Begin, Quiet
  <2>2. ~panicked => Fits(Put(objs, id, ch), peak)
    BY <2>1, FitsUpdated DEF Books
  <2> QED
    BY <1>2, <2>1, <2>2 DEF Quotas
<1>6. CASE \E id \in ChannelIDs : Delete(id)
  <2>1. op'.step = "del"
    BY <1>6 DEF Delete, Begin
  <2> QED
    BY <1>2, <2>1 DEF Quotas
<1> QED
  BY <1>1, <1>3, <1>4, <1>5, <1>6

(* While no channel is published, records and objects are the same.        *)
LEMMA SameTables ==
  ASSUME Types, Progress, Stored, Quotas, op.step \in {"insert", "set", "del"}
  PROVE  /\ DOMAIN objs = DOMAIN chanRecs /\ DOMAIN objs \subseteq ChannelIDs
         /\ \A id \in DOMAIN objs : /\ objs[id].owner = chanRecs[id].owner
                                    /\ objs[id].enabled = chanRecs[id].enabled
                                    /\ objs[id].outs = chanRecs[id].outs
<1>1. DOMAIN objs \subseteq ChannelIDs /\ DOMAIN chanRecs \subseteq ChannelIDs
  BY BoundsAssumption DEF Types, TypeOK, ChannelIDs
<1>2. up
  BY DEF Progress, Idle
<1>3. \A id \in ChannelIDs : InStep(id)
  BY <1>2 DEF Stored, Quotas
<1>4. DOMAIN objs = DOMAIN chanRecs /\ \A id \in DOMAIN objs : Model(objs[id]) = chanRecs[id]
  BY <1>1, <1>3 DEF InStep
<1>5. \A ch : Model(ch).owner = ch.owner /\ Model(ch).enabled = ch.enabled /\ Model(ch).outs = ch.outs
  BY DEF Model
<1> QED
  BY <1>1, <1>4, <1>5

(* What is written is what was checked.                                    *)
LEMMA QuotasStore ==
  ASSUME Types, Progress, Stored, Quotas, "unknown" \notin WriteResults, NEW result \in WriteResults,
         IncrFails \/ StoreInsert(result) \/ StoreSet(result) \/ StoreDel(result)
  PROVE  Quotas'
<1>1. /\ UNCHANGED <<clientRecs, clientSeq, objs, panicked, peak>>
      /\ op.step \in {"insert", "set", "del"}
  BY DEF IncrFails, StoreInsert, StoreSet, StoreDel, Answer, redis
<1>2. ~inDoubt'
  BY DEF IncrFails, StoreInsert, StoreSet, StoreDel, Answer, Quotas
<1>3. op'.step \notin {"insert", "set"}
  <2>1. [op EXCEPT !.step = "publish"].step = "publish"
    BY DEF Types, Ops
  <2>2. op.step = "insert" => [op EXCEPT !.step = "publish", !.id = chanSeq + 1].step = "publish"
    BY DEF Types, Ops
  <2>3. StoreInsert(result) => op' = Idle \/ op' = [op EXCEPT !.step = "publish", !.id = chanSeq + 1]
    BY DEF StoreInsert, Answer
  <2>4. StoreSet(result) \/ StoreDel(result) => op' = Idle \/ op' = [op EXCEPT !.step = "publish"]
    BY DEF StoreSet, StoreDel, Answer
  <2>5. Idle.step = "idle"
    BY DEF Idle
  <2>6. IncrFails => op' = Idle
    BY DEF IncrFails
  <2>7. StoreInsert(result) => op'.step = "publish" \/ op'.step = "idle"
    BY <2>2, <2>3, <2>5, Zenon DEF StoreInsert
  <2>8. StoreSet(result) \/ StoreDel(result) => op'.step = "publish" \/ op'.step = "idle"
    BY <2>1, <2>4, <2>5, Zenon
  <2>9. IncrFails => op'.step = "idle"
    BY <2>5, <2>6, Zenon
  <2> QED
    BY <2>7, <2>8, <2>9
<1>4. ASSUME ~panicked
      PROVE  Fits(chanRecs', peak)
  <2>0. /\ peak \in Peaks
        /\ \A c \in ClientIDs : /\ peak[c].channels <= peak[c].channels
                                /\ \A r \in Refs : peak[c].outputs[r] <= peak[c].outputs[r]
    BY DEF Quotas, Peaks
  <2>1. CASE UNCHANGED chanRecs
    BY <1>4, <2>1 DEF Quotas
  <2>2. CASE chanRecs' = Put(chanRecs, chanSeq + 1, Model(op.new)) /\ op.step = "insert"
    <3>1. Fits(Put(objs, chanSeq + 1, op.new), peak)
      BY <1>4, <2>2 DEF Quotas
    <3>2. chanSeq + 1 \in ChannelIDs
      BY <2>2, BoundsAssumption DEF Types, TypeOK, ChannelIDs
    <3> DEFINE R == Put(objs, chanSeq + 1, op.new)
    <3>3. /\ DOMAIN R \subseteq ChannelIDs /\ DOMAIN chanRecs' = DOMAIN R
          /\ \A id \in DOMAIN R : /\ chanRecs'[id].owner = R[id].owner
                                  /\ chanRecs'[id].enabled = R[id].enabled
                                  /\ chanRecs'[id].outs = R[id].outs
      BY <1>1, <2>2, <3>2, SameTables DEF Put, Model
    <3> HIDE DEF R
    <3>4. Fits(R, peak)
      BY <3>1 DEF R
    <3> QED
      BY <2>0, <3>3, <3>4, FitsFewer
  <2>3. CASE chanRecs' = Put(chanRecs, op.id, Model(op.new)) /\ op.step = "set"
    <3>1. Fits(Put(objs, op.id, op.new), peak)
      BY <1>4, <2>3 DEF Quotas
    <3>2. op.id \in ChannelIDs
      BY <2>3, BoundsAssumption DEF Types, TypeOK, ChannelIDs
    <3> DEFINE R == Put(objs, op.id, op.new)
    <3>3. /\ DOMAIN R \subseteq ChannelIDs /\ DOMAIN chanRecs' = DOMAIN R
          /\ \A id \in DOMAIN R : /\ chanRecs'[id].owner = R[id].owner
                                  /\ chanRecs'[id].enabled = R[id].enabled
                                  /\ chanRecs'[id].outs = R[id].outs
      BY <1>1, <2>3, <3>2, SameTables DEF Put, Model
    <3> HIDE DEF R
    <3>4. Fits(R, peak)
      BY <3>1 DEF R
    <3> QED
      BY <2>0, <3>3, <3>4, FitsFewer
  <2>4. CASE chanRecs' = Drop(chanRecs, op.id)
    <3>1. /\ DOMAIN chanRecs' \subseteq DOMAIN chanRecs
          /\ \A id \in DOMAIN chanRecs' : chanRecs'[id] = chanRecs[id]
      BY <2>4 DEF Drop
    <3>2. DOMAIN chanRecs \subseteq ChannelIDs /\ Fits(chanRecs, peak)
      BY <1>4, BoundsAssumption DEF Types, TypeOK, ChannelIDs, Quotas
    <3> QED
      BY <2>0, <3>1, <3>2, FitsFewer
  <2> QED
    BY <2>1, <2>2, <2>3, <2>4 DEF IncrFails, StoreInsert, StoreSet, StoreDel, redis
<1> QED
  BY <1>1, <1>2, <1>3, <1>4 DEF Quotas

(* What is published or loaded was written.                                *)
LEMMA QuotasPublish ==
  ASSUME Types, Progress, Stored, Quotas, Publish
  PROVE  Quotas'
<1>1. /\ UNCHANGED <<chanRecs, clientRecs, clientSeq, up, panicked, inDoubt, peak>>
      /\ op.step = "publish" /\ op'.step \notin {"insert", "set"}
  BY DEF Publish, redis, Types, Ops
<1>2. Stored'
  BY StoredPublish
<1>3. Types'
  BY TypesPublish
<1>4. ASSUME ~panicked
      PROVE  Fits(objs', peak)
  <2>1. up' /\ ~inDoubt'
    BY <1>1 DEF Quotas, Progress, Idle
  <2>2. \A id \in ChannelIDs : /\ id \in DOMAIN objs' <=> id \in DOMAIN chanRecs'
                               /\ id \in DOMAIN objs' => Model(objs'[id]) = chanRecs'[id]
    BY <1>1, <1>2, <2>1 DEF Stored, InStep, Publish, Types, Ops
  <2>3. DOMAIN objs' \subseteq ChannelIDs /\ DOMAIN chanRecs \subseteq ChannelIDs
    BY <1>3, BoundsAssumption DEF Types, TypeOK, ChannelIDs
  <2>4. \A ch : Model(ch).owner = ch.owner /\ Model(ch).enabled = ch.enabled /\ Model(ch).outs = ch.outs
    BY DEF Model
  <2>5. /\ DOMAIN objs' \subseteq DOMAIN chanRecs
        /\ \A id \in DOMAIN objs' : /\ objs'[id].owner = chanRecs[id].owner
                                    /\ objs'[id].enabled = chanRecs[id].enabled
                                    /\ objs'[id].outs = chanRecs[id].outs
    BY <1>1, <2>2, <2>3, <2>4
  <2>6. /\ peak \in Peaks /\ Fits(chanRecs, peak)
        /\ \A c \in ClientIDs : /\ peak[c].channels <= peak[c].channels
                                /\ \A r \in Refs : peak[c].outputs[r] <= peak[c].outputs[r]
    BY <1>4 DEF Quotas, Peaks
  <2> QED
    BY <2>3, <2>5, <2>6, FitsFewer
<1> QED
  BY <1>1, <1>4 DEF Quotas

(* A boot takes over what Redis has, which fits the highest quotas too.    *)
LEMMA QuotasBoot ==
  ASSUME Types, Progress, Quotas, Boot
  PROVE  Quotas'
<1>1. BootFrom(chanSeq) /\ op = Idle
  BY HighestID DEF Boot, BootFrom, Progress
<1>2. UNCHANGED <<chanRecs, clientRecs, clientSeq, op, panicked, peak>> /\ ~inDoubt'
  BY <1>1 DEF BootFrom
<1>3. /\ DOMAIN objs' = DOMAIN chanRecs
      /\ \A id \in DOMAIN chanRecs : Model(objs'[id]) = chanRecs[id]
  BY <1>1, ModelOfChannel DEF BootFrom, Types, TypeOK
<1>4. \A ch : Model(ch).owner = ch.owner /\ Model(ch).enabled = ch.enabled /\ Model(ch).outs = ch.outs
  BY DEF Model
<1>5. ASSUME ~panicked
      PROVE  Fits(objs', peak)
  <2>1. DOMAIN chanRecs \subseteq ChannelIDs
    BY BoundsAssumption DEF Types, TypeOK, ChannelIDs
  <2>2. \A id \in DOMAIN objs' : /\ objs'[id].owner = chanRecs[id].owner
                                 /\ objs'[id].enabled = chanRecs[id].enabled
                                 /\ objs'[id].outs = chanRecs[id].outs
    BY <1>3, <1>4
  <2>3. /\ peak \in Peaks /\ Fits(chanRecs, peak)
        /\ \A c \in ClientIDs : /\ peak[c].channels <= peak[c].channels
                                /\ \A r \in Refs : peak[c].outputs[r] <= peak[c].outputs[r]
    BY <1>5 DEF Quotas, Peaks
  <2> QED
    BY <1>3, <2>1, <2>2, <2>3, FitsFewer
<1> QED
  BY <1>1, <1>2, <1>5 DEF Quotas, Idle

(* A client operation makes room, or leaves it.                            *)
LEMMA QuotasClientOps ==
  ASSUME Types, Quotas, "unknown" \notin WriteResults, ClientOps
  PROVE  Quotas'
<1>1. UNCHANGED <<chanRecs, chanSeq, objs, op, panicked>>
  BY DEF ClientOps, CreateClient, UpdateClient, DeleteClient
<1>2. PICK result \in WriteResults :
        \/ \E q \in ClientModels : CreateClient(q, result)
        \/ \E c \in ClientIDs, q \in ClientModels : UpdateClient(c, q, result)
        \/ \E c \in ClientIDs : DeleteClient(c, result)
  BY DEF ClientOps
<1>3. ~inDoubt'
  BY <1>2 DEF CreateClient, UpdateClient, DeleteClient, Quotas
<1>4. DOMAIN clientRecs \subseteq ClientIDs
  BY BoundsAssumption DEF Quotas, Types, TypeOK, ClientIDs
<1>5. ASSUME NEW c \in ClientIDs, NEW q \in ClientModels, Raise(c, q), clientSeq' <= MaxClients,
             clientRecs' = clientRecs \/ clientRecs' = Put(clientRecs, c, q)
      PROVE  Quotas'
  <2>1. /\ peak' \in Peaks
        /\ \A d \in ClientIDs : /\ peak[d].channels <= peak'[d].channels
                                /\ \A r \in Refs : peak[d].outputs[r] <= peak'[d].outputs[r]
        /\ Covers(peak'[c], q)
    BY <1>5, PeakRaised
  <2>2. \A d \in DOMAIN clientRecs : Covers(peak'[d], clientRecs[d])
    <3> SUFFICES ASSUME NEW d \in DOMAIN clientRecs
                 PROVE  Covers(peak'[d], clientRecs[d])
      OBVIOUS
    <3>1. d \in ClientIDs /\ clientRecs[d] \in ClientModels /\ Covers(peak[d], clientRecs[d])
      BY <1>4 DEF Quotas, Types, TypeOK
    <3>2. clientRecs[d].channels \in Nat /\ \A r \in Refs : Limit(clientRecs[d], r) \in Nat
      BY <3>1, LimitTyped
    <3>3. /\ peak[d].channels \in Nat /\ peak'[d].channels \in Nat
          /\ \A r \in Refs : peak[d].outputs[r] \in Nat /\ peak'[d].outputs[r] \in Nat
      BY <2>1, <3>1 DEF Quotas, Peaks
    <3>4. /\ peak[d].channels <= peak'[d].channels
          /\ \A r \in Refs : peak[d].outputs[r] <= peak'[d].outputs[r]
      BY <2>1, <3>1
    <3> QED
      BY <3>1, <3>2, <3>3, <3>4 DEF Covers
  <2>3. \A d \in DOMAIN clientRecs' : Covers(peak'[d], clientRecs'[d])
    BY <1>5, <2>1, <2>2 DEF Put
  <2>4. ASSUME NEW R, DOMAIN R \subseteq ChannelIDs, Fits(R, peak)
        PROVE  Fits(R, peak')
    BY <2>1, <2>4, FitsFewer DEF Quotas
  <2>5. /\ DOMAIN objs \subseteq ChannelIDs /\ DOMAIN chanRecs \subseteq ChannelIDs
        /\ op.step = "insert" => DOMAIN Put(objs, chanSeq + 1, op.new) \subseteq ChannelIDs
        /\ op.step = "set" => DOMAIN Put(objs, op.id, op.new) \subseteq ChannelIDs
    BY BoundsAssumption DEF Types, TypeOK, ChannelIDs, Put
  <2> QED
    BY <1>1, <1>3, <1>5, <2>1, <2>3, <2>4, <2>5 DEF Quotas
<1>6. ASSUME NEW q \in ClientModels, CreateClient(q, result)
      PROVE  Quotas'
  <2>1. clientSeq + 1 \in ClientIDs /\ clientSeq' <= MaxClients /\ Raise(clientSeq + 1, q)
    BY <1>6, BoundsAssumption DEF CreateClient, Types, TypeOK, ClientIDs
  <2>2. clientRecs' = clientRecs \/ clientRecs' = Put(clientRecs, clientSeq + 1, q)
    BY <1>6 DEF CreateClient
  <2> QED
    BY <1>5, <2>1, <2>2
<1>7. ASSUME NEW c \in ClientIDs, NEW q \in ClientModels, UpdateClient(c, q, result)
      PROVE  Quotas'
  <2>1. clientSeq' <= MaxClients /\ Raise(c, q)
    BY <1>7 DEF UpdateClient, Quotas
  <2>2. clientRecs' = clientRecs \/ clientRecs' = Put(clientRecs, c, q)
    BY <1>7 DEF UpdateClient
  <2> QED
    BY <1>5, <2>1, <2>2
<1>8. ASSUME NEW c \in ClientIDs, DeleteClient(c, result)
      PROVE  Quotas'
  <2>1. UNCHANGED <<clientSeq, peak>>
    BY <1>8 DEF DeleteClient
  <2>2. clientRecs' = clientRecs \/ clientRecs' = Drop(clientRecs, c)
    BY <1>8 DEF DeleteClient
  <2>3. \A d \in DOMAIN clientRecs' : d \in DOMAIN clientRecs /\ clientRecs'[d] = clientRecs[d]
    BY <2>2 DEF Drop
  <2> QED
    BY <1>1, <1>3, <2>1, <2>3 DEF Quotas
<1> QED
  BY <1>2, <1>6, <1>7, <1>8

(* Every step keeps the quotas.                                            *)
LEMMA QuotasNext ==
  "unknown" \notin WriteResults =>
    (Types /\ Progress /\ Books /\ Stored /\ Quotas /\ [Next]_vars => Quotas')
<1> SUFFICES ASSUME "unknown" \notin WriteResults, Types, Progress, Books, Stored, Quotas, [Next]_vars
             PROVE  Quotas'
  OBVIOUS
<1>1. CASE ChannelOps
  BY <1>1, QuotasBegin
<1>2. CASE Listings \/ UNCHANGED vars
  BY <1>2 DEF Listings, ListIDs, GetMany, vars, redis, Quotas
<1>3. CASE DetachFromClient \/ DetachUnowned \/ AttachUnowned
  <2>0. panicked => panicked'
    BY <1>3, Zenon DEF DetachFromClient, DetachUnowned, AttachUnowned, UnregisterChannel
  <2>1. UNCHANGED <<redis, objs, inDoubt, peak>>
    BY <1>3 DEF DetachFromClient, DetachUnowned, AttachUnowned
  <2>2. op'.step \notin {"insert", "set"}
    <3>1. op.step = "detach" => op' = Idle \/ op' = AfterDetach
      BY <1>3 DEF DetachFromClient, DetachUnowned, AttachUnowned
    <3>2. op.step = "attach" => op' = Idle
      BY <1>3 DEF DetachFromClient, DetachUnowned, AttachUnowned
    <3>3. op.step = "detach" \/ op.step = "attach"
      BY <1>3 DEF DetachFromClient, DetachUnowned, AttachUnowned
    <3>4. Idle.step = "idle"
      BY DEF Idle
    <3>5. op.step = "detach" => op'.step \in {"idle", "attach"}
      BY <3>1, <3>4, AfterDetachTyped
    <3> QED
      BY <3>2, <3>3, <3>4, <3>5
  <2> QED
    BY <2>0, <2>1, <2>2 DEF Quotas, redis
<1>4. CASE AttachToClient
  <2>1. /\ UNCHANGED <<redis, inDoubt, peak>> /\ op.step = "attach" /\ op' = Idle
        /\ objs' = Put(objs, op.id, [op.new EXCEPT !.interactive = TRUE])
        /\ panicked => panicked'
    BY <1>4 DEF AttachToClient, RegisterChannel
  <2>2. op.id \in DOMAIN objs /\ objs[op.id] = op.new /\ op.new \in Channels
    BY <2>1 DEF Progress, Types, Ops
  <2>3. /\ DOMAIN objs' = DOMAIN objs
        /\ \A id \in DOMAIN objs : /\ objs'[id].owner = objs[id].owner
                                   /\ objs'[id].enabled = objs[id].enabled
                                   /\ objs'[id].outs = objs[id].outs
    BY <2>1, <2>2 DEF Put, Channels
  <2>4. DOMAIN objs \subseteq ChannelIDs
    BY BoundsAssumption DEF Types, TypeOK, ChannelIDs
  <2>5. ~panicked => Fits(objs', peak)
    <3>1. /\ peak \in Peaks
          /\ \A c \in ClientIDs : /\ peak[c].channels <= peak[c].channels
                                  /\ \A r \in Refs : peak[c].outputs[r] <= peak[c].outputs[r]
      BY DEF Quotas, Peaks
    <3> QED
      BY <2>3, <2>4, <3>1, FitsFewer DEF Quotas
  <2> QED
    BY <2>1, <2>5 DEF Quotas, redis, Idle
<1>5. CASE Crash
  <2>1. UNCHANGED <<redis, panicked, inDoubt, peak>> /\ op' = Idle /\ DOMAIN objs' = {}
    BY <1>5 DEF Crash, Nothing
  <2>2. Fits(objs', peak)
    BY <2>1, FS_EmptySet DEF Fits, EnabledIn, UsingIn, Quotas, Peaks
  <2> QED
    BY <2>1, <2>2 DEF Quotas, redis, Idle
<1>6. CASE \E result \in WriteResults :
             IncrFails \/ StoreInsert(result) \/ StoreSet(result) \/ StoreDel(result)
  BY <1>6, QuotasStore
<1>7. CASE IncrFails
  BY <1>7, QuotasStore DEF IncrFails
<1> QED
  BY <1>1, <1>2, <1>3, <1>4, <1>5, <1>6, <1>7, QuotasPublish, QuotasBoot, QuotasClientOps
  DEF Next, OpSteps

(* Nobody uses anything at the start.                                      *)
LEMMA QuotasInit == Init => Quotas
<1> SUFFICES ASSUME Init
             PROVE  Quotas
  OBVIOUS
<1>1. DOMAIN objs = {} /\ DOMAIN chanRecs = {} /\ DOMAIN clientRecs = {}
  BY DEF Init, Nothing
<1>2. peak \in Peaks
  BY DEF Init, Peaks
<1>3. Fits(objs, peak) /\ Fits(chanRecs, peak)
  BY <1>1, <1>2, FS_EmptySet DEF Fits, EnabledIn, UsingIn, Peaks
<1> QED
  BY <1>1, <1>2, <1>3, BoundsAssumption DEF Init, Quotas, Idle

(* No client ever has more than its highest quota, as long as every write  *)
(* is answered: a record whose answer was lost counts only after the next  *)
(* restart, when others may have taken its place.                          *)
THEOREM QuotasKept ==
  ASSUME "unknown" \notin WriteResults
  PROVE  Spec => []QuotaHolds
<1> DEFINE Inv == Types /\ Progress /\ Books /\ Stored /\ Quotas
<1>1. Init => Inv
  <2>1. Init => Stored
    BY DEF Init, Stored, InStep, Nothing
  <2> QED
    BY <2>1, TypesInit, BooksInit, QuotasInit
<1>2. Inv /\ [Next]_vars => Inv'
  BY TypesNext, BooksNext, StoredNext, QuotasNext
<1>3. Inv => QuotaHolds
  <2> SUFFICES ASSUME Inv, ~panicked, NEW c \in DOMAIN clients
               PROVE  /\ Cardinality(EnabledIn(objs, c)) <= peak[c].channels
                      /\ \A r \in Refs : Cardinality(UsingIn(objs, c, r)) <= peak[c].outputs[r]
    BY DEF QuotaHolds
  <2>1. c \in ClientIDs
    BY BoundsAssumption DEF Types, TypeOK, Quotas, ClientIDs
  <2> QED
    BY <2>1 DEF Quotas, Fits
<1> QED
  BY <1>1, <1>2, <1>3, PTL DEF Spec

=============================================================================

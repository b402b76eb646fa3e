-------------------------- MODULE ChannelRegistry --------------------------
(***************************************************************************)
(* The registry of channels: ChannelService and B2BClientService over      *)
(* their Redis records, their in-memory objects and the process managers   *)
(* that run the channels.                                                  *)
(*                                                                         *)
(* ChannelService.mu is held from the first check of Create, Update or     *)
(* Delete to the last registration, so at most one channel operation (op)  *)
(* is in progress.  It enters B2BClientService.mu anew for every call, so  *)
(* client operations happen between its steps; so do a crash of the server *)
(* and the handlers that read the objects without any of the two locks.    *)
(*                                                                         *)
(* Operators named after a mistake (DetachWithNewRecord, ...) are faulty     *)
(* variants of the one that follows; no specification uses them, they show *)
(* which property notices the mistake.                                     *)
(***************************************************************************)
EXTENDS Naturals, Integers, FiniteSets

CONSTANTS MaxChannels,   \* bound on the channel ids that are allocated
          MaxClients,    \* bound on the client ids that are allocated
          Refs,          \* references of outputs
          ClientModels,  \* quotas an admin gives to a client
          WriteResults,  \* outcomes of a Redis write, a subset of Outcomes
          Patchers,      \* PATCH handlers in flight
          Readers        \* handlers in flight that list a client's channels

\* "unknown": the write is applied and its answer lost (timeout, cancellation)
Outcomes == {"ok", "refused", "unknown"}

ChannelIDs == 1..MaxChannels
ClientIDs == 1..MaxClients
NoClient == 0
Owners == ClientIDs \union {NoClient}
Models == [owner : Owners, enabled : BOOLEAN, outs : SUBSET Refs]
Channels == [owner : Owners, enabled : BOOLEAN, outs : SUBSET Refs, interactive : BOOLEAN]

ASSUME BoundsAssumption == MaxChannels \in Nat /\ MaxClients \in Nat
ASSUME ModelsAssumption ==
  \A q \in ClientModels : /\ q.channels \in Nat
                          /\ DOMAIN q.outputs \subseteq Refs
                          /\ \A r \in DOMAIN q.outputs : q.outputs[r] \in Nat
ASSUME ResultsAssumption == WriteResults \subseteq Outcomes

VARIABLES
  chanRecs, chanSeq,      \* Redis: channel documents by id, INCR counter
  clientRecs, clientSeq,  \* Redis: client documents by id, INCR counter
  up,                     \* the server runs and accepts requests
  objs,                   \* ChannelService.objs: id -> channel
  clients,                \* B2BClientService.objs: id -> quotas
  owner,                  \* channelB2BClientID
  attached,               \* b2bClientChannelIDs: times an id is listed
  enabledUsage,           \* b2bClientEnabledChannelsUsage
  outputUsage,            \* b2bClientEnabledOutputsUsage
  pm1,                    \* units of the ProcessManager: id -> interactive
  pm2,                    \* units of each client's ProcessManager2
  op,                     \* the operation that holds ChannelService.mu
  patches,                \* clones held by PATCH handlers
  lists,                  \* ids held by listing handlers
  panicked,               \* some operation was cut by a panic (history)
  inDoubt,                \* a write had an unknown outcome since the last boot (history)
  peak                    \* highest quota a client ever had (history)

redis == <<chanRecs, chanSeq, clientRecs, clientSeq>>
counters == <<owner, attached, enabledUsage, outputUsage>>
vars == <<redis, up, objs, clients, counters, pm1, pm2, op, patches, lists,
          panicked, inDoubt, peak>>

Put(f, k, v) == [x \in DOMAIN f \union {k} |-> IF x = k THEN v ELSE f[x]]
Drop(f, k) == [x \in DOMAIN f \ {k} |-> f[x]]
Nothing == [x \in {} |-> x]
Idle == [step |-> "idle"]

Model(ch) == [owner |-> ch.owner, enabled |-> ch.enabled, outs |-> ch.outs]
Load(rec) == [owner |-> rec.owner, enabled |-> rec.enabled, outs |-> rec.outs,
              interactive |-> FALSE]
Fields == {"owner", "enabled", "outs"}

NoPatch == [id |-> 0]
NotListing == [phase |-> "none"]

-----------------------------------------------------------------------------
Init ==
  /\ chanRecs = Nothing /\ chanSeq = 0
  /\ clientRecs = Nothing /\ clientSeq = 0
  /\ up = TRUE
  /\ objs = Nothing /\ clients = Nothing
  /\ owner = Nothing
  /\ attached = [c \in ClientIDs |-> [id \in ChannelIDs |-> 0]]
  /\ enabledUsage = [c \in ClientIDs |-> 0]
  /\ outputUsage = [c \in ClientIDs |-> [r \in Refs |-> 0]]
  /\ pm1 = Nothing
  /\ pm2 = [c \in ClientIDs |-> {}]
  /\ op = Idle
  /\ patches = [h \in Patchers |-> NoPatch]
  /\ lists = [h \in Readers |-> NotListing]
  /\ panicked = FALSE /\ inDoubt = FALSE
  /\ peak = [c \in ClientIDs |-> [channels |-> 0, outputs |-> [r \in Refs |-> 0]]]

-----------------------------------------------------------------------------
(* Quotas, as GetOne's view shows them to a channel operation. *)
ChannelQuotaAllows(c) == enabledUsage[c] + 1 <= clients[c].channels
OutputQuotasAllow(c, refs) ==
  \A r \in refs \intersect DOMAIN clients[c].outputs :
    outputUsage[c][r] + 1 <= clients[c].outputs[r]

CreateAllowed(new) ==
  \/ new.owner = NoClient
  \/ /\ new.owner \in DOMAIN clients
     /\ new.enabled => ChannelQuotaAllows(new.owner)
     /\ OutputQuotasAllow(new.owner, new.outs)

UpdateUnchecked(old, new) == new.owner \in DOMAIN clients \union {NoClient}
UpdateAllowed(old, new) ==
  IF new.owner # NoClient /\ new.owner = old.owner
    THEN /\ new.owner \in DOMAIN clients
         /\ ~old.enabled /\ new.enabled => ChannelQuotaAllows(new.owner)
         /\ OutputQuotasAllow(new.owner, new.outs \ old.outs)
    ELSE CreateAllowed(new)

-----------------------------------------------------------------------------
(* Registration: RegisterChannel and UnregisterChannel for a channel of a  *)
(* client, Add and Remove of the ProcessManager for the others.            *)

\* procmngrs and objs of B2BClientService have the same keys in every
\* critical section; with no entry, the call on a nil manager panics after
\* the bookkeeping is done.
HasManager(c) == c \in DOMAIN clients

Count(c, id, ch, n) ==
  /\ enabledUsage' = [enabledUsage EXCEPT ![c] = @ + (IF ch.enabled THEN n ELSE 0)]
  /\ outputUsage' = [outputUsage EXCEPT
       ![c] = [r \in Refs |-> @[r] + (IF r \in ch.outs THEN n ELSE 0)]]

Unlist(c, id) == attached' = [attached EXCEPT ![c][id] = IF @ = 0 THEN 0 ELSE @ - 1]

RegisterChannel(c, id, ch) ==
  /\ owner' = Put(owner, id, c)
  /\ attached' = [attached EXCEPT ![c][id] = @ + 1]
  /\ Count(c, id, ch, 1)
  /\ objs' = Put(objs, id, [ch EXCEPT !.interactive = TRUE])
  /\ pm2' = IF HasManager(c) THEN [pm2 EXCEPT ![c] = @ \union {id}] ELSE pm2
  /\ panicked' = (panicked \/ ~HasManager(c))

UnregisterChannel(c, id, ch) ==
  /\ owner' = Drop(owner, id)
  /\ Unlist(c, id)
  /\ Count(c, id, ch, -1)
  /\ pm2' = IF HasManager(c) THEN [pm2 EXCEPT ![c] = @ \ {id}] ELSE pm2
  /\ panicked' = (panicked \/ ~HasManager(c))

\* ProcessManager.Add ignores a known unit; its argv holds --interactive.
Run(id, ch) == pm1' = IF id \in DOMAIN pm1 THEN pm1 ELSE Put(pm1, id, ch.interactive)
Stop(id) == pm1' = Drop(pm1, id)

-----------------------------------------------------------------------------
(* ChannelService.Create, Update and Delete, one step per critical section *)
(* of another lock or Redis write.                                         *)
Quiet == up /\ op = Idle

Begin(o) ==
  /\ op' = o
  /\ UNCHANGED <<redis, up, objs, clients, counters, pm1, pm2, lists, panicked, inDoubt, peak>>

Create(ch) ==
  /\ Quiet
  /\ chanSeq < MaxChannels
  /\ CreateAllowed(ch)
  /\ Begin([step |-> "insert", kind |-> "create", id |-> 0, new |-> ch])
  /\ UNCHANGED patches

Update(id, ch, fields) ==
  /\ Quiet
  /\ id \in DOMAIN objs
  /\ UpdateAllowed(objs[id], ch)
  /\ Begin([step |-> "set", kind |-> "update", id |-> id, new |-> ch,
            old |-> objs[id], fields |-> fields])

ReplaceChannel(id, ch) == Update(id, ch, Fields) /\ UNCHANGED patches

Delete(id) ==
  /\ Quiet
  /\ id \in DOMAIN objs
  /\ Begin([step |-> "del", kind |-> "delete", id |-> id, old |-> objs[id]])
  /\ UNCHANGED patches

\* ModifyChannel: the clone is taken before ChannelService.mu is, and the
\* merged clone goes to Update.
LoadForPatch(h, id) ==
  /\ up
  /\ patches[h] = NoPatch
  /\ id \in DOMAIN objs
  /\ patches' = [patches EXCEPT ![h] = [id |-> id, clone |-> objs[id]]]
  /\ UNCHANGED <<redis, up, objs, clients, counters, pm1, pm2, op, lists, panicked, inDoubt, peak>>

DropPatch(h) == patches' = [patches EXCEPT ![h] = NoPatch]

Merge(clone, fields, patch) ==
  [clone EXCEPT !.owner = IF "owner" \in fields THEN patch.owner ELSE @,
                !.enabled = IF "enabled" \in fields THEN patch.enabled ELSE @,
                !.outs = IF "outs" \in fields THEN patch.outs ELSE @]

PatchAndUpdate(h, fields, patch) ==
  /\ patches[h] # NoPatch
  /\ Update(patches[h].id, Merge(patches[h].clone, fields, patch), fields)
  /\ DropPatch(h)

\* The patch is refused: by Validate, by a quota, or as the channel is gone.
PatchFails(h) ==
  /\ patches[h] # NoPatch
  /\ DropPatch(h)
  /\ UNCHANGED <<redis, up, objs, clients, counters, pm1, pm2, op, lists, panicked, inDoubt, peak>>

-----------------------------------------------------------------------------
(* The Redis write of the operation in progress.  On an error the service  *)
(* returns and releases its lock.                                          *)
Answer(result, next) ==
  /\ op' = IF result = "ok" THEN next ELSE Idle
  /\ inDoubt' = (inDoubt \/ result = "unknown")
  /\ UNCHANGED <<clientRecs, clientSeq, up, objs, clients, counters, pm1, pm2,
                 patches, lists, panicked, peak>>

IncrFails ==
  /\ op.step = "insert"
  /\ "refused" \in WriteResults
  /\ op' = Idle
  /\ UNCHANGED <<redis, up, objs, clients, counters, pm1, pm2, patches, lists,
                 panicked, inDoubt, peak>>

StoreInsert(result) ==
  /\ op.step = "insert"
  /\ chanSeq' = chanSeq + 1
  /\ chanRecs' = IF result = "refused" THEN chanRecs
                 ELSE Put(chanRecs, chanSeq + 1, Model(op.new))
  /\ Answer(result, [op EXCEPT !.step = "publish", !.id = chanSeq + 1])

StoreSetIgnoringError(result) ==
  /\ op.step = "set"
  /\ chanRecs' = IF result = "refused" THEN chanRecs
                 ELSE Put(chanRecs, op.id, Model(op.new))
  /\ chanSeq' = chanSeq
  /\ Answer("ok", [op EXCEPT !.step = "publish"])

StoreSet(result) ==
  /\ op.step = "set"
  /\ chanRecs' = IF result = "refused" THEN chanRecs
                 ELSE Put(chanRecs, op.id, Model(op.new))
  /\ chanSeq' = chanSeq
  /\ Answer(result, [op EXCEPT !.step = "publish"])

StoreDel(result) ==
  /\ op.step = "del"
  /\ chanRecs' = IF result = "refused" THEN chanRecs ELSE Drop(chanRecs, op.id)
  /\ chanSeq' = chanSeq
  /\ Answer(result, [op EXCEPT !.step = "publish"])

(* The in-memory half. *)
Publish ==
  /\ op.step = "publish"
  /\ objs' = IF op.kind = "delete" THEN Drop(objs, op.id) ELSE Put(objs, op.id, op.new)
  /\ op' = [op EXCEPT !.step = IF op.kind = "create" THEN "attach" ELSE "detach"]
  /\ UNCHANGED <<redis, up, clients, counters, pm1, pm2, patches, lists,
                 panicked, inDoubt, peak>>

AfterDetach == IF op.kind = "update" THEN [op EXCEPT !.step = "attach"] ELSE Idle

DetachWithNewRecord ==
  /\ op.step = "detach"
  /\ op.old.owner # NoClient
  /\ UnregisterChannel(op.old.owner, op.id, IF op.kind = "update" THEN op.new ELSE op.old)
  /\ op' = IF HasManager(op.old.owner) THEN AfterDetach ELSE Idle
  /\ UNCHANGED <<redis, up, objs, clients, pm1, patches, lists, inDoubt, peak>>

DetachFromClient ==
  /\ op.step = "detach"
  /\ op.old.owner # NoClient
  /\ UnregisterChannel(op.old.owner, op.id, op.old)
  /\ op' = IF HasManager(op.old.owner) THEN AfterDetach ELSE Idle
  /\ UNCHANGED <<redis, up, objs, clients, pm1, patches, lists, inDoubt, peak>>

DetachUnownedLeavesRunning ==
  /\ op.step = "detach"
  /\ op.old.owner = NoClient
  /\ IF op.old.enabled /\ op.kind = "delete" THEN Stop(op.id) ELSE UNCHANGED pm1
  /\ op' = AfterDetach
  /\ UNCHANGED <<redis, up, objs, clients, counters, pm2, patches, lists,
                 panicked, inDoubt, peak>>

DetachUnowned ==
  /\ op.step = "detach"
  /\ op.old.owner = NoClient
  /\ IF op.old.enabled THEN Stop(op.id) ELSE UNCHANGED pm1
  /\ op' = AfterDetach
  /\ UNCHANGED <<redis, up, objs, clients, counters, pm2, patches, lists,
                 panicked, inDoubt, peak>>

AttachToClient ==
  /\ op.step = "attach"
  /\ op.new.owner # NoClient
  /\ RegisterChannel(op.new.owner, op.id, op.new)
  /\ op' = Idle
  /\ UNCHANGED <<redis, up, clients, pm1, patches, lists, inDoubt, peak>>

AttachUnowned ==
  /\ op.step = "attach"
  /\ op.new.owner = NoClient
  /\ IF op.new.enabled THEN Run(op.id, op.new) ELSE UNCHANGED pm1
  /\ op' = Idle
  /\ UNCHANGED <<redis, up, objs, clients, counters, pm2, patches, lists,
                 panicked, inDoubt, peak>>

-----------------------------------------------------------------------------
(* B2BClientService.Create, Update and Delete: each is one critical        *)
(* section of its mutex, Redis write included.                             *)
Higher(a, b) == IF a >= b THEN a ELSE b
\* A reference without a quota is unlimited: no more than every channel has it.
Limit(q, r) == IF r \in DOMAIN q.outputs THEN q.outputs[r] ELSE MaxChannels
Raise(c, q) ==
  peak' = [peak EXCEPT ![c] =
    [channels |-> Higher(@.channels, q.channels),
     outputs |-> [r \in Refs |-> Higher(@.outputs[r], Limit(q, r))]]]

CreateClient(q, result) ==
  /\ up
  /\ clientSeq < MaxClients
  /\ clientSeq' = clientSeq + 1
  /\ clientRecs' = IF result = "refused" THEN clientRecs ELSE Put(clientRecs, clientSeq + 1, q)
  /\ clients' = IF result = "ok" THEN Put(clients, clientSeq + 1, q) ELSE clients
  /\ Raise(clientSeq + 1, q)
  /\ inDoubt' = (inDoubt \/ result = "unknown")
  /\ UNCHANGED <<chanRecs, chanSeq, up, objs, counters, pm1, pm2, op, patches, lists, panicked>>

UpdateClient(c, q, result) ==
  /\ up
  /\ c \in DOMAIN clients
  /\ clientRecs' = IF result = "refused" THEN clientRecs ELSE Put(clientRecs, c, q)
  /\ clients' = IF result = "ok" THEN Put(clients, c, q) ELSE clients
  /\ Raise(c, q)
  /\ inDoubt' = (inDoubt \/ result = "unknown")
  /\ UNCHANGED <<chanRecs, chanSeq, clientSeq, up, objs, counters, pm1, pm2, op,
                 patches, lists, panicked>>

Unattached(c) == \A id \in ChannelIDs : attached[c][id] = 0

DeleteClientUnchecked(c, result) ==
  /\ up
  /\ c \in DOMAIN clients
  /\ clientRecs' = IF result = "refused" THEN clientRecs ELSE Drop(clientRecs, c)
  /\ clients' = IF result = "ok" THEN Drop(clients, c) ELSE clients
  /\ pm2' = IF result = "ok" THEN [pm2 EXCEPT ![c] = {}] ELSE pm2
  /\ inDoubt' = (inDoubt \/ result = "unknown")
  /\ UNCHANGED <<chanRecs, chanSeq, clientSeq, up, objs, counters, pm1, op,
                 patches, lists, panicked, peak>>

DeleteClient(c, result) ==
  /\ up
  /\ c \in DOMAIN clients
  /\ Unattached(c)
  /\ clientRecs' = IF result = "refused" THEN clientRecs ELSE Drop(clientRecs, c)
  /\ clients' = IF result = "ok" THEN Drop(clients, c) ELSE clients
  /\ pm2' = IF result = "ok" THEN [pm2 EXCEPT ![c] = {}] ELSE pm2
  /\ inDoubt' = (inDoubt \/ result = "unknown")
  /\ UNCHANGED <<chanRecs, chanSeq, clientSeq, up, objs, counters, pm1, op,
                 patches, lists, panicked, peak>>

-----------------------------------------------------------------------------
(* Listing a client's channels: the ids are read under one lock, the       *)
(* objects under another.  A missing object panics in a type assertion.    *)
ListIDs(h, c) ==
  /\ up
  /\ lists[h].phase = "none"
  /\ c \in DOMAIN clients
  /\ lists' = [lists EXCEPT ![h] =
       [phase |-> "ids", ids |-> {id \in ChannelIDs : attached[c][id] > 0}]]
  /\ UNCHANGED <<redis, up, objs, clients, counters, pm1, pm2, op, patches,
                 panicked, inDoubt, peak>>

GetMany(h) ==
  /\ lists[h].phase = "ids"
  /\ lists' = [lists EXCEPT ![h] =
       IF lists[h].ids \subseteq DOMAIN objs THEN NotListing ELSE [phase |-> "panic"]]
  /\ UNCHANGED <<redis, up, objs, clients, counters, pm1, pm2, op, patches,
                 panicked, inDoubt, peak>>

-----------------------------------------------------------------------------
\* The server stops at any moment; what it holds in memory goes with it.
Crash ==
  /\ up
  /\ up' = FALSE
  /\ objs' = Nothing /\ clients' = Nothing
  /\ owner' = Nothing
  /\ attached' = [c \in ClientIDs |-> [id \in ChannelIDs |-> 0]]
  /\ enabledUsage' = [c \in ClientIDs |-> 0]
  /\ outputUsage' = [c \in ClientIDs |-> [r \in Refs |-> 0]]
  /\ pm1' = Nothing
  /\ pm2' = [c \in ClientIDs |-> {}]
  /\ op' = Idle
  /\ patches' = [h \in Patchers |-> NoPatch]
  /\ lists' = [h \in Readers |-> NotListing]
  /\ UNCHANGED <<redis, panicked, inDoubt, peak>>

\* reconcile of the clients, then of the channels, before requests are
\* accepted.  It panics on a channel whose client has no record.
Bootable == \A id \in DOMAIN chanRecs :
              chanRecs[id].owner \in DOMAIN clientRecs \union {NoClient}

OwnedBy(c) == {id \in DOMAIN chanRecs : chanRecs[id].owner = c}

BootFrom(seq) ==
  /\ ~up /\ Bootable
  /\ up' = TRUE
  /\ chanSeq' = seq
  /\ clients' = clientRecs
  /\ objs' = [id \in DOMAIN chanRecs |->
       [Load(chanRecs[id]) EXCEPT !.interactive = chanRecs[id].owner # NoClient]]
  /\ owner' = [id \in DOMAIN chanRecs \ OwnedBy(NoClient) |-> chanRecs[id].owner]
  /\ attached' = [c \in ClientIDs |->
       [id \in ChannelIDs |-> IF id \in OwnedBy(c) THEN 1 ELSE 0]]
  /\ enabledUsage' = [c \in ClientIDs |-> Cardinality({id \in OwnedBy(c) : chanRecs[id].enabled})]
  /\ outputUsage' = [c \in ClientIDs |->
       [r \in Refs |-> Cardinality({id \in OwnedBy(c) : r \in chanRecs[id].outs})]]
  /\ pm1' = [id \in {i \in OwnedBy(NoClient) : chanRecs[i].enabled} |-> FALSE]
  /\ pm2' = [c \in ClientIDs |-> OwnedBy(c)]
  /\ inDoubt' = FALSE
  /\ UNCHANGED <<chanRecs, clientRecs, clientSeq, op, patches, lists, panicked, peak>>

\* The counter is INCR's own, raised to the highest id if it lags behind.
MaxID == CHOOSE n \in ChannelIDs \union {0} :
           /\ n \in DOMAIN chanRecs \union {0}
           /\ \A id \in DOMAIN chanRecs : id <= n
BootReusesIDs == BootFrom(MaxID)
Boot == BootFrom(Higher(chanSeq, MaxID))

-----------------------------------------------------------------------------
Requests == {ch \in Channels : ~ch.interactive}

ChannelOps ==
  \/ \E ch \in Requests : Create(ch)
  \/ \E id \in ChannelIDs, ch \in Requests : ReplaceChannel(id, ch)
  \/ \E id \in ChannelIDs : Delete(id)
  \/ \E h \in Patchers, id \in ChannelIDs : LoadForPatch(h, id)
  \/ \E h \in Patchers, f \in Fields, patch \in Requests : PatchAndUpdate(h, {f}, patch)
  \/ \E h \in Patchers : PatchFails(h)

OpSteps ==
  \/ IncrFails
  \/ \E result \in WriteResults :
       StoreInsert(result) \/ StoreSet(result) \/ StoreDel(result)
  \/ Publish
  \/ DetachFromClient \/ DetachUnowned
  \/ AttachToClient \/ AttachUnowned

ClientOps ==
  \E result \in WriteResults :
    \/ \E q \in ClientModels : CreateClient(q, result)
    \/ \E c \in ClientIDs, q \in ClientModels : UpdateClient(c, q, result)
    \/ \E c \in ClientIDs : DeleteClient(c, result)

Listings == \E h \in Readers : GetMany(h) \/ \E c \in ClientIDs : ListIDs(h, c)

Next == ChannelOps \/ OpSteps \/ ClientOps \/ Listings \/ Crash \/ Boot

Spec == Init /\ [][Next]_vars

-----------------------------------------------------------------------------
(* The tables hold what reconcile or an earlier operation put there. *)
TypeOK ==
  /\ chanSeq \in Nat /\ clientSeq \in Nat
  /\ DOMAIN chanRecs \subseteq 1..chanSeq
  /\ \A id \in DOMAIN chanRecs : chanRecs[id] \in Models
  /\ DOMAIN clientRecs \subseteq 1..clientSeq
  /\ \A c \in DOMAIN clientRecs : clientRecs[c] \in ClientModels
  /\ up \in BOOLEAN /\ panicked \in BOOLEAN /\ inDoubt \in BOOLEAN
  /\ DOMAIN objs \subseteq 1..chanSeq
  /\ \A id \in DOMAIN objs : objs[id] \in Channels
  /\ DOMAIN clients \subseteq 1..clientSeq
  /\ \A c \in DOMAIN clients : clients[c] \in ClientModels
  /\ attached \in [ClientIDs -> [ChannelIDs -> Nat]]
  /\ enabledUsage \in [ClientIDs -> Int]
  /\ outputUsage \in [ClientIDs -> [Refs -> Int]]
  /\ pm2 \in [ClientIDs -> SUBSET ChannelIDs]

\* What the registrations reflect while an operation is half done: the old
\* channel until it is detached, none until the new one is attached.
Registered ==
  CASE op.step = "detach" -> Put(objs, op.id, op.old)
    [] op.step = "attach" -> Drop(objs, op.id)
    [] OTHER -> objs
ChannelsOf(c) == {id \in DOMAIN Registered : Registered[id].owner = c}

\* The channels of a client in a table, those that count for its quotas.
EnabledIn(R, c) == {id \in DOMAIN R : R[id].owner = c /\ R[id].enabled}
UsingIn(R, c, r) == {id \in DOMAIN R : R[id].owner = c /\ r \in R[id].outs}

(* The usage shown by the API and tested against the quotas is the number  *)
(* of enabled channels and outputs the client really has, whatever was     *)
(* created, moved, patched or deleted, in any order with client operations,*)
(* write errors and restarts, until a handler has panicked.                *)
UsageExact ==
  ~panicked =>
    \A c \in ClientIDs :
      /\ enabledUsage[c] = Cardinality(EnabledIn(Registered, c))
      /\ \A r \in Refs : outputUsage[c][r] = Cardinality(UsingIn(Registered, c, r))

(* The two indices between channels and clients are inverse to each other, *)
(* agree with the channels, list none twice and name existing clients.     *)
IndexExact ==
  ~panicked =>
    /\ DOMAIN owner = DOMAIN Registered \ ChannelsOf(NoClient)
    /\ \A id \in DOMAIN owner : owner[id] = Registered[id].owner /\ owner[id] \in DOMAIN clients
    /\ \A c \in ClientIDs, id \in ChannelIDs :
         attached[c][id] = IF id \in ChannelsOf(c) THEN 1 ELSE 0

(* What is counted and what is indexed for a client, in one property.      *)
BookkeepingExact == UsageExact /\ IndexExact

(* A client's manager has exactly the client's channels, the process       *)
(* manager exactly the enabled channels that have no client.               *)
SupervisedExactly ==
  ~panicked =>
    /\ \A c \in ClientIDs : pm2[c] = ChannelsOf(c)
    /\ DOMAIN pm1 = {id \in ChannelsOf(NoClient) : Registered[id].enabled}

(* No channel is a unit of two managers, even in the middle of a move and  *)
(* after a panic: two processes would read the same input.                 *)
OneSupervisor ==
  \A c \in ClientIDs :
    /\ pm2[c] \intersect DOMAIN pm1 = {}
    /\ \A d \in ClientIDs \ {c} : pm2[c] \intersect pm2[d] = {}

(* Every channel is run by the one manager that should run it.             *)
SupervisedOnce == SupervisedExactly /\ OneSupervisor

(* Unless a write got no answer, memory is what a restart would load, up   *)
(* to the one record the operation in progress has just written.           *)
MemoryMatchesRedis ==
  LET held == [id \in DOMAIN objs |-> Model(objs[id])]
  IN up /\ ~inDoubt =>
       /\ clients = clientRecs
       /\ IF op.step = "publish" THEN Drop(held, op.id) = Drop(chanRecs, op.id)
          ELSE held = chanRecs

(* A client never has more enabled channels or outputs than the highest    *)
(* quota an admin ever gave it: the check and the counting are in          *)
(* different critical sections.                                            *)
QuotaHolds ==
  ~panicked =>
    \A c \in DOMAIN clients :
      /\ Cardinality(EnabledIn(objs, c)) <= peak[c].channels
      /\ \A r \in Refs : Cardinality(UsingIn(objs, c, r)) <= peak[c].outputs[r]

(* DataStore: ids are "monotonic, write-once, never recycled": one handed  *)
(* out that is neither stored nor held in memory never comes back,         *)
(* whatever was deleted, failed to be written or restarted in between, and *)
(* the counter that separates old ids from new ones never goes back.       *)
IDsNeverRecycled ==
  [][/\ chanSeq' >= chanSeq
     /\ \A id \in 1..chanSeq : id \in DOMAIN chanRecs' =>
          id \in DOMAIN chanRecs \union DOMAIN objs]_vars

-----------------------------------------------------------------------------
(* What the documentation says and the code does not keep (README,         *)
(* section 6).                                                             *)

(* "cannot delete; channels attached": no stored channel names a client    *)
(* that is gone; reconcile panics on one, so the server no longer starts.  *)
ClientsOutliveChannels == Bootable

(* "When the channel is disabled, the server does not attempt to connect   *)
(* to the input media source": a manager runs no disabled channel.         *)
DisabledDoesNotRun ==
  \A c \in ClientIDs : \A id \in pm2[c] \intersect DOMAIN Registered : Registered[id].enabled

(* An enabled channel without a client reads its input: its process is not *)
(* started with --interactive, as ProcessManager never presses ENTER.      *)
PlainUnitsNeedNoEnter == \A id \in DOMAIN pm1 : ~pm1[id]

(* "Only provided fields are updated": publishing a patch leaves the other *)
(* fields of the channel as they are at that moment.                       *)
PatchKeepsOtherFields ==
  [][op.step = "publish" /\ op.kind = "update" /\ up' =>
       \A f \in Fields \ op.fields :
         Model(objs'[op.id])[f] = Model(objs[op.id])[f]]_vars

(* Listing "returns only those channels": it does not fail on one that has *)
(* just been deleted.                                                      *)
ListingsNeverPanic == \A h \in Readers : lists[h].phase # "panic"
=============================================================================

----------------------------- MODULE DataStore -----------------------------
(***************************************************************************)
(* datastore.go: records in Redis, and in memory only the index of their   *)
(* ids: a sorted slice and the position of each id in it.  One mutex is    *)
(* held through every operation, its Redis commands included, so each is   *)
(* one step.  A write is done ("ok"), not done ("refused"), or done while  *)
(* the caller is told that it failed ("unknown": a timeout, a request that *)
(* is cancelled).  A read that fails changes nothing and is no step.       *)
(*                                                                         *)
(* The slice and the positions are those of SortedIndex.  The prefix has   *)
(* no other writers (datastore.go:32), so no foreign keys are modelled.    *)
(*                                                                         *)
(* Operators named after a mistake (IndexInsertBehind, ...) are faulty     *)
(* variants of the one that follows; no specification uses them.           *)
(***************************************************************************)
EXTENDS SortedIndex

CONSTANTS MaxRecords,  \* bound on the ids that are allocated
          Values,
          ScanRepeats  \* SCAN may return a key more than once

ASSUME MaxRecordsAssumption == MaxRecords \in Nat

VARIABLES recs, seq,  \* Redis: records by id, the INCR counter
          index,      \* s.ids and s.pos
          named       \* history: the ids the last call was about

dataVars == <<recs, seq, index, named>>

RecordIds == 1 .. MaxRecords
Results == {"ok", "refused", "unknown"}

Indexed == DOMAIN index.pos
Empty == [ids |-> <<>>, pos |-> <<>>]

DataInit == recs = <<>> /\ seq = 0 /\ index = Empty /\ named = {}

-----------------------------------------------------------------------------
(* The index *)

\* The position of the new id itself is not written.
IndexInsertBehind(ix, id) ==
  LET i == SearchIndex(ix.ids, id)
      ids == Insert(ix.ids, i, id)
  IN  IF id \in DOMAIN ix.pos THEN ix
      ELSE [ids |-> ids, pos |-> Repositioned(ix.pos, ids, i + 1)]
IndexInsert(ix, id) ==
  LET i == SearchIndex(ix.ids, id)
      ids == Insert(ix.ids, i, id)
  IN  IF id \in DOMAIN ix.pos THEN ix
      ELSE IF i <= Len(ix.ids) /\ ix.ids[i] = id THEN [ids |-> ix.ids, pos |-> Put(ix.pos, id, i)]
      ELSE [ids |-> ids, pos |-> Repositioned(ix.pos, ids, i)]

IndexRemoveAt(ix, i) ==
  LET ids == Cut(ix.ids, i)
  IN  [ids |-> ids, pos |-> Repositioned(Drop(ix.pos, ix.ids[i]), ids, i)]

-----------------------------------------------------------------------------
(* Create, Update, Delete *)

\* INCR fails, applied or not.
IncrFails ==
  /\ seq < MaxRecords
  /\ seq' = seq + 1
  /\ named' = {}
  /\ UNCHANGED <<recs, index>>

Create(v, result) ==
  LET id == seq + 1 IN
  /\ seq < MaxRecords
  /\ seq' = id
  /\ recs' = IF result = "refused" THEN recs ELSE Put(recs, id, v)
  /\ index' = IF result = "ok" THEN IndexInsert(index, id) ELSE index
  /\ named' = {}

Update(id, v, result) ==
  /\ id \in Indexed
  /\ recs' = IF result = "refused" THEN recs ELSE Put(recs, id, v)
  /\ named' = {id}
  /\ UNCHANGED <<seq, index>>

Delete(id, result) ==
  /\ recs' = IF result = "refused" THEN recs ELSE Drop(recs, id)
  /\ index' = IF result = "ok" /\ id \in Indexed
                THEN IndexRemoveAt(index, index.pos[id]) ELSE index
  /\ named' = {id}
  /\ UNCHANGED seq

-----------------------------------------------------------------------------
(* Reads: ids that Redis does not know are taken out of the index. *)

GetOne(id) ==
  /\ id \in Indexed \ DOMAIN recs
  /\ index' = IndexRemoveAt(index, index.pos[id])
  /\ named' = {id}
  /\ UNCHANGED <<recs, seq>>

\* The position is read again for every id that is asked for.
HealAsked(ix, asked) ==
  LET healed[n \in 0 .. Len(asked)] ==
        IF n = 0 THEN ix
        ELSE IF asked[n] \in DOMAIN healed[n - 1].pos \ DOMAIN recs
          THEN IndexRemoveAt(healed[n - 1], healed[n - 1].pos[asked[n]])
          ELSE healed[n - 1]
  IN  healed[Len(asked)]

GetMany(asked) ==
  /\ index' = HealAsked(index, asked)
  /\ named' = {asked[k] : k \in DOMAIN asked}
  /\ UNCHANGED <<recs, seq>>

\* Back to front, as the places behind the one removed move: n places are done.
HealAll(ix) ==
  LET size == Len(ix.ids)
      healed[n \in 0 .. size] ==
        IF n = 0 THEN ix
        ELSE IF ix.ids[size - n + 1] \notin DOMAIN recs
          THEN IndexRemoveAt(healed[n - 1], size - n + 1)
          ELSE healed[n - 1]
  IN  healed[size]

GetList ==
  /\ index' = HealAll(index)
  /\ named' = {}
  /\ UNCHANGED <<recs, seq>>

-----------------------------------------------------------------------------
(* A restart: the index is built anew from a SCAN of the keys, in order.    *)
(* The counter may have been lost meanwhile; it is raised to the highest id.*)

MaxScanned == IF ScanRepeats THEN 2 * MaxRecords ELSE MaxRecords

Scans ==
  {ids \in UNION {[1 .. n -> DOMAIN recs] : n \in 0 .. MaxScanned} :
     /\ \A id \in DOMAIN recs : \E k \in DOMAIN ids : ids[k] = id
     /\ \A j, k \in DOMAIN ids : j < k => IF ScanRepeats THEN ids[j] <= ids[k] ELSE ids[j] < ids[k]}

MaxID(ids) == IF ids = <<>> THEN 0 ELSE ids[Len(ids)]

ReconcileKeepsCounter(ids, counter) ==
  /\ index' = [ids |-> ids, pos |-> Repositioned(<<>>, ids, 1)]
  /\ seq' = counter
  /\ named' = {}
  /\ UNCHANGED recs
Reconcile(ids, counter) ==
  /\ index' = [ids |-> ids, pos |-> Repositioned(<<>>, ids, 1)]
  /\ seq' = IF counter < MaxID(ids) THEN MaxID(ids) ELSE counter
  /\ named' = {}
  /\ UNCHANGED recs

DataNext ==
  \/ IncrFails
  \/ \E result \in Results :
       \/ \E v \in Values : Create(v, result)
       \/ \E id \in RecordIds, v \in Values : Update(id, v, result)
       \/ \E id \in RecordIds : Delete(id, result)
  \/ \E id \in RecordIds : GetOne(id)
  \/ \E j, k \in RecordIds : GetMany(<<j, k>>)
  \/ GetList
  \/ \E ids \in Scans : Reconcile(ids, 0) \/ Reconcile(ids, seq)

DataSpec == DataInit /\ [][DataNext]_dataVars

-----------------------------------------------------------------------------
(* What GetList answers: what is in the index and in Redis, in the order of *)
(* the index.                                                              *)
Listing(ids, stored) ==
  LET out[n \in 0 .. Len(ids)] ==
        IF n = 0 THEN <<>>
        ELSE IF ids[n] \in DOMAIN stored THEN Append(out[n - 1], <<ids[n], stored[ids[n]]>>)
        ELSE out[n - 1]
  IN  out[Len(ids)]
Listed == Listing(index.ids, recs)

KeyedRecords == INSTANCE KeyedStore
  WITH Ids <- RecordIds,
       map <- [id \in Indexed \intersect DOMAIN recs |-> recs[id]],
       hidden <- [id \in DOMAIN recs \ Indexed |-> recs[id]],
       listed <- Listed

(* Whatever answers got lost, the store is a map with an ordered listing;  *)
(* a record whose creation seemed to fail is hidden until the next restart *)
(* ("Returns only records that exist in Redis", datastore.go:315).         *)
DataStoreIsKeyed == KeyedRecords!Spec

(* No call touches the record of an id it was not about - a new id is      *)
(* never that of a stored record, after the counter was lost as well - and *)
(* healing takes nothing out of the index that Redis still has, however    *)
(* many places move in one pass.                                           *)
OnlyNamedRecordsChange ==
  [][/\ \A id \in DOMAIN recs :
          (id \notin DOMAIN recs' \/ recs'[id] # recs[id]) => id \in named'
     /\ \A id \in Indexed \ DOMAIN index'.pos : id \notin DOMAIN recs']_dataVars

(* "GetList returns (ids, values) for all IDs present in the local index,  *)
(* in ascending ID order": each once.                                      *)
ListsEachOnce == \A j, k \in DOMAIN index.ids : j < k => index.ids[j] < index.ids[k]

=============================================================================

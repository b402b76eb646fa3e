---------------------------- MODULE ObjectStore ----------------------------
(***************************************************************************)
(* objectstore.go: the in-memory objects of a service, in three forms that *)
(* every write keeps in step by hand: a map, two slices sorted by id, and  *)
(* the position of each id in the slices.  Upsert and Delete run under the *)
(* write lock and the reads under the read lock, so each is one step.      *)
(* The slices and positions are those of SortedIndex.                      *)
(*                                                                         *)
(* Operators named after a mistake (DeleteUnmoved, ...) are faulty         *)
(* variants of the one that follows; no specification uses them.           *)
(***************************************************************************)
EXTENDS SortedIndex

CONSTANTS ObjectIds, Objects

ASSUME ObjectIdsAssumption == ObjectIds \subseteq Int

VARIABLES byID,  \* id -> object
          ids,   \* the ids in ascending order
          vals,  \* their objects
          pos    \* id -> its index in both

objectVars == <<byID, ids, vals, pos>>

ObjectsInit ==
  /\ byID = [id \in {} |-> 0]
  /\ ids = <<>> /\ vals = <<>>
  /\ pos = [id \in {} |-> 0]

-----------------------------------------------------------------------------
(* Upsert and Delete *)

Overwrite(id, v) ==
  /\ id \in DOMAIN pos
  /\ byID' = Put(byID, id, v)
  /\ vals' = [vals EXCEPT ![pos[id]] = v]
  /\ UNCHANGED <<ids, pos>>

IsHighest(id) == \A k \in 1 .. Len(ids) : k = Len(ids) => id > ids[k]

PushBack(id, v) ==
  /\ id \notin DOMAIN pos /\ IsHighest(id)
  /\ ids' = Insert(ids, Len(ids) + 1, id)
  /\ vals' = Insert(vals, Len(vals) + 1, v)
  /\ byID' = Put(byID, id, v)
  /\ pos' = Put(pos, id, Len(ids) + 1)

InsertInside(id, v) ==
  /\ id \notin DOMAIN pos /\ ~IsHighest(id)
  /\ LET i == SearchIndex(ids, id) IN
       /\ ids' = Insert(ids, i, id)
       /\ vals' = Insert(vals, i, v)
       /\ byID' = Put(byID, id, v)
       /\ pos' = Repositioned(pos, Insert(ids, i, id), i)

Upsert(id, v) == Overwrite(id, v) \/ PushBack(id, v) \/ InsertInside(id, v)

\* An id that is not there is ignored, which is no step.
DeleteUnmoved(id) ==
  /\ id \in DOMAIN pos
  /\ byID' = Drop(byID, id)
  /\ ids' = Cut(ids, pos[id])
  /\ vals' = Cut(vals, pos[id])
  /\ pos' = Drop(pos, id)
DeleteObject(id) ==
  /\ id \in DOMAIN pos
  /\ byID' = Drop(byID, id)
  /\ ids' = Cut(ids, pos[id])
  /\ vals' = Cut(vals, pos[id])
  /\ pos' = Repositioned(Drop(pos, id), Cut(ids, pos[id]), pos[id])

ObjectsNext ==
  \E id \in ObjectIds : DeleteObject(id) \/ \E v \in Objects : Upsert(id, v)

ObjectsSpec == ObjectsInit /\ [][ObjectsNext]_objectVars

-----------------------------------------------------------------------------
(* Reads: GetOne and GetMany look ids up, GetList copies the two slices.   *)
Lookup == byID
ObjectList == [k \in DOMAIN ids |-> <<ids[k], vals[k]>>]

(* The three forms say the same, whatever was inserted in the middle,      *)
(* overwritten and removed: a position that is off by one corrupts another *)
(* object with the next write.                                             *)
FormsAgree ==
  /\ ids \in Seq(ObjectIds) /\ vals \in Seq(Objects)
  /\ Len(vals) = Len(ids)
  /\ \A j, k \in 1 .. Len(ids) : j < k => ids[j] < ids[k]
  /\ DOMAIN pos = DOMAIN byID
  /\ \A id \in DOMAIN pos : pos[id] \in 1 .. Len(ids) /\ ids[pos[id]] = id
  /\ \A k \in 1 .. Len(ids) :
       ids[k] \in DOMAIN pos /\ pos[ids[k]] = k /\ byID[ids[k]] = vals[k]

KeyedObjects == INSTANCE KeyedStore
  WITH Ids <- ObjectIds, Values <- Objects,
       map <- Lookup, listed <- ObjectList, hidden <- [id \in {} |-> 0]

(* The store is a map with an ordered listing ("Iteration is deterministic *)
(* (ascending IDs)", objectstore.go:15).                                   *)
ObjectStoreIsKeyed == KeyedObjects!Spec

=============================================================================

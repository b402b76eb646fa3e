----------------------------- MODULE KeyedStore -----------------------------
(***************************************************************************)
(* What both stores promise: a map whose listing is in ascending order of  *)
(* the ids, each with the value a lookup of it finds.  A record can also   *)
(* be hidden: it was written, but whoever wrote it was told that it was    *)
(* not.  Hidden records are not listed until a restart reveals them.       *)
(***************************************************************************)
EXTENDS Integers, Sequences, Functions

CONSTANTS Ids, Values

VARIABLES map,     \* id -> value, what a lookup finds
          listed,  \* the answer of GetList: a sequence of <<id, value>>
          hidden   \* id -> value, written but unknown to the store

vars == <<map, listed, hidden>>

With(f, id, v) == [i \in DOMAIN f \union {id} |-> IF i = id THEN v ELSE f[i]]
Without(f, S) == Restrict(f, DOMAIN f \ S)

IsListing(l, f) ==
  /\ l \in Seq(Ids \X Values)
  /\ {l[k] : k \in DOMAIN l} = {<<id, f[id]>> : id \in DOMAIN f}
  /\ \A j, k \in DOMAIN l : j < k => l[j][1] < l[k][1]

Init == DOMAIN map = {} /\ listed = <<>> /\ DOMAIN hidden = {}

Put(id, v) ==
  /\ map' = With(map, id, v)
  /\ UNCHANGED hidden

Forget(S) ==
  /\ map' = Without(map, S)
  /\ hidden' = Without(hidden, S)

Hide(id, v) ==
  /\ id \notin DOMAIN map
  /\ hidden' = With(hidden, id, v)
  /\ UNCHANGED map

Reveal ==
  /\ map' = [i \in DOMAIN map \union DOMAIN hidden |->
               IF i \in DOMAIN map THEN map[i] ELSE hidden[i]]
  /\ DOMAIN hidden' = {}

Next ==
  /\ \/ \E id \in Ids, v \in Values : Put(id, v) \/ Hide(id, v)
     \/ \E S \in SUBSET Ids : Forget(S)
     \/ Reveal
  /\ IsListing(listed', map')

Spec == Init /\ [][Next]_vars

=============================================================================

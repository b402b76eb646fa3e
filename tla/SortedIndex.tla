---------------------------- MODULE SortedIndex ----------------------------
(***************************************************************************)
(* What both stores do to their ids: a slice kept in order, and the        *)
(* position of each id in it, both moved by hand (objectstore.go, and      *)
(* indexInsert and indexRemoveAt in datastore.go).  Positions start at 1,  *)
(* in Go at 0.                                                             *)
(***************************************************************************)
EXTENDS Integers, Sequences

\* append and copy, which move the tail by one.
Insert(s, i, x) ==
  [k \in 1 .. Len(s) + 1 |-> IF k < i THEN s[k] ELSE IF k = i THEN x ELSE s[k - 1]]
Cut(s, i) == [k \in 1 .. Len(s) - 1 |-> IF k < i THEN s[k] ELSE s[k + 1]]

Put(f, id, v) == [x \in DOMAIN f \union {id} |-> IF x = id THEN v ELSE f[x]]
Drop(f, id) == [x \in DOMAIN f \ {id} |-> f[x]]

\* The positions of f, with those from index i on written anew for s: an id
\* that is there twice has the position of the last.
Repositioned(f, s, i) ==
  [id \in DOMAIN f \union {s[k] : k \in i .. Len(s)} |->
     IF \E k \in i .. Len(s) : s[k] = id
       THEN CHOOSE k \in i .. Len(s) : s[k] = id /\ \A j \in k + 1 .. Len(s) : s[j] # id
       ELSE f[id]]

\* sort.Search(len(s), s[i] >= id): s is sorted.
SearchIndex(s, id) ==
  CHOOSE i \in 1 .. Len(s) + 1 :
    /\ \A k \in 1 .. i - 1 : s[k] < id
    /\ i <= Len(s) => s[i] >= id

=============================================================================

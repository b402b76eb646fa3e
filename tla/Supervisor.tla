----------------------------- MODULE Supervisor -----------------------------
(***************************************************************************)
(* What both process managers promise about the units they are given: a    *)
(* process that nobody asked to close serves a unit that is registered at  *)
(* that moment, and no unit is ever served by two of them.                 *)
(***************************************************************************)
CONSTANTS Uids,   \* units
          Insts,  \* processes
          None

VARIABLES registered,  \* units between Add and Remove
          serves       \* process -> the unit it serves; None once it is dead
                       \* or was asked to close

vars == <<registered, serves>>

Init ==
  /\ registered = {}
  /\ serves = [i \in Insts |-> None]

Register(u) ==
  /\ u \notin registered
  /\ registered' = registered \union {u}
  /\ UNCHANGED serves

\* The unit's process is asked to close in the same step.
Unregister(u) ==
  /\ u \in registered
  /\ registered' = registered \ {u}
  /\ serves' = [i \in Insts |-> IF serves[i] = u THEN None ELSE serves[i]]

Launch(i, u) ==
  /\ u \in registered
  /\ \A j \in Insts : serves[j] # u
  /\ serves[i] = None
  /\ serves' = [serves EXCEPT ![i] = u]
  /\ UNCHANGED registered

\* A process ends, or some are asked to close.
Lose(S) ==
  /\ serves' = [i \in Insts |-> IF i \in S THEN None ELSE serves[i]]
  /\ UNCHANGED registered

Next ==
  \/ \E u \in Uids : Register(u) \/ Unregister(u)
  \/ \E i \in Insts, u \in Uids : Launch(i, u)
  \/ \E S \in SUBSET Insts : Lose(S)

Spec == Init /\ [][Next]_vars

=============================================================================

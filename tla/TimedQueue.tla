----------------------------- MODULE TimedQueue -----------------------------
(***************************************************************************)
(* What the launch scheduler promises: at most one pending launch of each  *)
(* unit, the one that was asked for last, and at the head always one that  *)
(* is due no later than any other.                                         *)
(***************************************************************************)
EXTENDS Naturals

CONSTANTS Units, Times, NoUnit

VARIABLES due,  \* unit -> the time of its launch, if one is pending
          head  \* what next() answers

vars == <<due, head>>

Without(u) == [v \in DOMAIN due \ {u} |-> due[v]]

Init == DOMAIN due = {} /\ head = NoUnit

Ask(u, t) == due' = [v \in DOMAIN due \union {u} |-> IF v = u THEN t ELSE due[v]]
Scrub(u) == u \in DOMAIN due /\ due' = Without(u)
TakeHead == head # NoUnit /\ due' = Without(head)

HeadIsSoonest ==
  IF DOMAIN due = {} THEN head = NoUnit
  ELSE head \in DOMAIN due /\ \A u \in DOMAIN due : due[head] <= due[u]

Next ==
  /\ \/ \E u \in Units : Scrub(u) \/ \E t \in Times : Ask(u, t)
     \/ TakeHead
  /\ HeadIsSoonest'

Spec == Init /\ [][Next]_vars

=============================================================================

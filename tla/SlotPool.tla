------------------------------ MODULE SlotPool ------------------------------
(***************************************************************************)
(* slot_pool.go: an adjustable semaphore whose slots have named owners.    *)
(* Every method body runs under s.mu, so each operator below is one        *)
(* critical section; the only place a goroutine gives the lock up inside a *)
(* method is cond.Wait, so the goroutines asleep there are part of the     *)
(* state.  The module has no specification of its own: SlotPoolClients and *)
(* ProcessManager2 use it.                                                 *)
(*                                                                         *)
(* Operators named after a mistake (GrantUncounted, ...) are faulty        *)
(* variants of the one that follows; no specification uses them, they show *)
(* which property notices the mistake.                                     *)
(***************************************************************************)
EXTENDS Integers

VARIABLES maxCap,      \* configured capacity
          usage,       \* slots in use
          acquiredBy,  \* owners of the slots in use
          waiting      \* goroutines asleep in cond.Wait

pool == <<maxCap, usage, acquiredBy, waiting>>

Init(max) ==
  /\ maxCap = max
  /\ usage = 0
  /\ acquiredBy = {}
  /\ waiting = {}

\* The negation of the condition every blocking method loops on.
HasSlotOffByOne == usage <= maxCap
HasSlot == usage < maxCap

\* The protocol violations the methods answer with a panic.
DoubleAcquire(id) == id \in acquiredBy
ForeignRelease(id) == id \notin acquiredBy

\* acquire past its loop, and tryAcquire when it returns true.
GrantUncounted(id) ==
  /\ HasSlot
  /\ acquiredBy' = acquiredBy \union {id}
  /\ UNCHANGED <<maxCap, usage, waiting>>
Grant(id) ==
  /\ ~DoubleAcquire(id)
  /\ HasSlot
  /\ usage' = usage + 1
  /\ acquiredBy' = acquiredBy \union {id}
  /\ UNCHANGED <<maxCap, waiting>>

\* tryAcquire when it returns false.
Refuse(id) ==
  /\ ~DoubleAcquire(id)
  /\ ~HasSlot
  /\ UNCHANGED pool

\* cond.Wait inside the loop of acquire and of waitSlot.
Park(g) ==
  /\ g \notin waiting
  /\ ~HasSlot
  /\ waiting' = waiting \union {g}
  /\ UNCHANGED <<maxCap, usage, acquiredBy>>

\* waitSlot returns: the condition was seen true, nothing is taken.
Pass(g) ==
  /\ g \notin waiting
  /\ HasSlot
  /\ UNCHANGED pool

\* cond.Signal wakes one sleeper, whichever the runtime picks.
Signal ==
  IF waiting = {} THEN UNCHANGED waiting
                  ELSE \E g \in waiting : waiting' = waiting \ {g}

Release(id) ==
  /\ ~ForeignRelease(id)
  /\ acquiredBy' = acquiredBy \ {id}
  /\ usage' = usage - 1
  /\ Signal
  /\ UNCHANGED maxCap

\* updateLimit: negative capacities are clamped to zero, everyone is woken.
Clamp(n) == IF n < 0 THEN 0 ELSE n

UpdateLimitSilently(n) == maxCap' = Clamp(n) /\ UNCHANGED <<usage, acquiredBy, waiting>>
UpdateLimit(n) ==
  /\ maxCap' = Clamp(n)
  /\ waiting' = {}
  /\ UNCHANGED <<usage, acquiredBy>>

=============================================================================

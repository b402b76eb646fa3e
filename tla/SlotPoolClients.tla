-------------------------- MODULE SlotPoolClients --------------------------
(***************************************************************************)
(* A slotPool under all of its methods: owners that use the non-blocking   *)
(* tryAcquire, owners that use the blocking acquire, goroutines that only  *)
(* wait for capacity with waitSlot, and updateLimit at any moment.         *)
(***************************************************************************)
EXTENDS SlotPool, FiniteSets

CONSTANTS Ids,       \* owner ids; each is driven by a goroutine of its own
          Blocking,  \* the ids that call acquire, the others call tryAcquire
          Waiters,   \* goroutines that call waitSlot
          Limits     \* arguments of newSlotPool and updateLimit

ASSUME IdsAssumption == IsFiniteSet(Ids) /\ Blocking \subseteq Ids
ASSUME WaitersAssumption == Waiters \intersect Ids = {}
ASSUME LimitsAssumption == Limits \subseteq Int

VARIABLE looping  \* goroutines inside acquire or waitSlot

vars == <<maxCap, usage, acquiredBy, waiting, looping>>

Sleepers == Blocking \union Waiters
Awake == looping \ waiting

TypeOK ==
  /\ maxCap \in Int
  /\ usage \in Int
  /\ acquiredBy \subseteq Ids
  /\ looping \subseteq Sleepers
  /\ waiting \subseteq looping

ClientsInit ==
  /\ \E max \in Limits : Init(max)
  /\ looping = {}

TryAcquire(id) ==
  /\ id \in Ids \ Blocking
  /\ ~DoubleAcquire(id)
  /\ Grant(id) \/ Refuse(id)
  /\ UNCHANGED looping

\* A blocking method is entered; its loop tests the condition afterwards.
EnterLoop(g) ==
  /\ g \in Sleepers \ looping
  /\ g \in Ids => ~DoubleAcquire(g)
  /\ looping' = looping \union {g}
  /\ UNCHANGED pool

AcquireReturns(g) ==
  /\ g \in Blocking \intersect Awake
  /\ Grant(g)
  /\ looping' = looping \ {g}

WaitSlotReturns(g) ==
  /\ g \in Waiters \intersect Awake
  /\ Pass(g)
  /\ looping' = looping \ {g}

FallAsleep(g) ==
  /\ g \in Awake
  /\ Park(g)
  /\ UNCHANGED looping

ReleaseOwned(id) ==
  /\ id \in acquiredBy
  /\ Release(id)
  /\ UNCHANGED looping

SetLimit(n) == UpdateLimit(n) /\ UNCHANGED looping

LoopStep(g) == AcquireReturns(g) \/ WaitSlotReturns(g) \/ FallAsleep(g)

Next ==
  \/ \E id \in Ids : TryAcquire(id) \/ ReleaseOwned(id)
  \/ \E g \in Sleepers : EnterLoop(g) \/ LoopStep(g)
  \/ \E n \in Limits : SetLimit(n)

\* Only a goroutine that is runnable inside a method is sure to run on: the
\* callers decide when they acquire and release.
Spec == ClientsInit /\ [][Next]_vars /\ \A g \in Sleepers : WF_vars(LoopStep(g))

-----------------------------------------------------------------------------
(* The ownership table and the counter that the capacity test reads are    *)
(* two pieces of state updated by hand in three methods: they never drift  *)
(* apart ("accountable resource tracking", slot_pool.go:7).                *)
UsageIsOwners == usage = Cardinality(acquiredBy)

(* A slot is only ever granted below the capacity in force at that moment, *)
(* whatever updateLimit did before.                                        *)
GrantWithinLimit == [][usage' > usage => usage' <= maxCap']_vars

(* Both, in every history of acquires, releases and new limits: what the   *)
(* pool counts is who owns it, and no history lets it grant too much.      *)
CapacityKept ==
  UsageIsOwners /\ [][UsageIsOwners' /\ (usage' > usage => usage' <= maxCap')]_vars

(* The two ways a pool can be used side by side: by any number of acquire  *)
(* calls, or by one waitSlot caller, which takes nothing after it was      *)
(* woken.  ProcessManager2 is of the second kind.                          *)
WaitSlotAlone == \A g \in looping \intersect Waiters : looping = {g}

(* A goroutine does not sleep on while a slot stays free: "acquire blocks  *)
(* until usage < maxCap", "waitSlot blocks until usage < maxCap".          *)
NoSleepWithFreeSlot ==
  []WaitSlotAlone =>
    \A g \in Sleepers : (g \in waiting /\ HasSlot) ~> (g \notin waiting \/ ~HasSlot)

=============================================================================

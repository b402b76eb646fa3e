---------------------------- MODULE PIDAllocator ----------------------------
(***************************************************************************)
(* pid_allocator.go: PIDs are handed out in rising order, wrapping around, *)
(* skipping those in use.  Each method is one critical section of a.mu.    *)
(* Like SlotPool it has no specification of its own.                       *)
(*                                                                         *)
(* AfterUnwrapped and AllocBlindly are faulty variants that show which     *)
(* property notices the mistake; no specification uses them.               *)
(***************************************************************************)
EXTENDS Integers

CONSTANT PidMax  \* pidMax, 32768 in the code

ASSUME PidMaxAssumption == PidMax \in Nat \ {0}

VARIABLES next,  \* where the next search starts
          inUse  \* PIDs handed out and not released

PidSpace == 1..PidMax

AllocInit == next = 1 /\ inUse = {}

\* How far the search has to go before it looks at p.
Distance(p) == (p - next) % PidMax

After(p) == IF p = PidMax THEN 1 ELSE p + 1

\* alloc returns p.
AllocBlindly(p) ==
  /\ p = next
  /\ next' = After(p)
  /\ inUse' = inUse \union {p}
Alloc(p) ==
  /\ p \in PidSpace \ inUse
  /\ \A q \in PidSpace \ inUse : Distance(p) <= Distance(q)
  /\ next' = After(p)
  /\ inUse' = inUse \union {p}

\* release ignores a PID that is not in use.
ReleasePid(p) ==
  /\ inUse' = inUse \ {p}
  /\ UNCHANGED next

=============================================================================

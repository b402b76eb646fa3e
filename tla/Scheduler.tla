----------------------------- MODULE Scheduler -----------------------------
(***************************************************************************)
(* scheduler.go: the launches that wait for their time, in a binary heap   *)
(* whose entries know their own place, and a table from PID to entry.  The *)
(* manager's mutex is held around every call.  An event is named by its    *)
(* PID: push drops the old event of a PID before it makes a new one.       *)
(*                                                                         *)
(* Rise, Sink, SiftUp, SiftDown and HeapRemove are container/heap, which   *)
(* moves entries only by Swap.  Places start at 1, in Go at 0.             *)
(*                                                                         *)
(* Operators named after a mistake (PushOver, ...) are faulty variants of  *)
(* the one that follows; no specification uses them.                       *)
(***************************************************************************)
EXTENDS Integers, Sequences

CONSTANTS Units, Times, NoUnit

ASSUME TimesAssumption == Times \subseteq Int
ASSUME NoUnitAssumption == NoUnit \notin Units

VARIABLES heap,  \* s.h: the events, by PID
          event  \* s.entries: PID -> [when, index]

schedVars == <<heap, event>>

\* Both together, for the steps that are made of several swaps.
Sched == [heap |-> heap, event |-> event]

SchedulerInit == heap = <<>> /\ event = <<>>

-----------------------------------------------------------------------------
(* eventHeap *)

Less(s, i, j) == s.event[s.heap[i]].when < s.event[s.heap[j]].when

Swap(s, i, j) ==
  [heap  |-> [s.heap EXCEPT ![i] = s.heap[j], ![j] = s.heap[i]],
   event |-> [s.event EXCEPT ![s.heap[j]].index = i, ![s.heap[i]].index = j]]

HeapPush(s, u, t) ==
  [heap  |-> Append(s.heap, u),
   event |-> [v \in DOMAIN s.event \union {u} |->
                IF v = u THEN [when |-> t, index |-> Len(s.heap) + 1] ELSE s.event[v]]]

HeapPop(s) ==
  LET last == s.heap[Len(s.heap)]
  IN  [heap  |-> SubSeq(s.heap, 1, Len(s.heap) - 1),
       event |-> [v \in DOMAIN s.event \ {last} |-> s.event[v]]]

-----------------------------------------------------------------------------
(* container/heap: an entry moves one level at a time, s is the heap so far *)
(* and at the entry's place.                                               *)

Rise(p) ==
  LET up == p.at \div 2
  IN  IF p.at > 1 /\ Less(p.s, p.at, up) THEN [s |-> Swap(p.s, up, p.at), at |-> up] ELSE p

\* Among the first n.
Sink(p, n) ==
  LET left == 2 * p.at
      child == IF left + 1 <= n /\ Less(p.s, left + 1, left) THEN left + 1 ELSE left
  IN  IF left <= n /\ Less(p.s, child, p.at)
      THEN [s |-> Swap(p.s, p.at, child), at |-> child] ELSE p

\* An entry has no more levels to go than there are places.
SiftUp(s, j) ==
  LET up[k \in 0 .. j] == IF k = 0 THEN [s |-> s, at |-> j] ELSE Rise(up[k - 1])
  IN  up[j].s
SiftDown(s, i, n) ==
  LET down[k \in 0 .. n] == IF k = 0 THEN [s |-> s, at |-> i] ELSE Sink(down[k - 1], n)
  IN  down[n]

HeapRemove(s, i) ==
  LET n == Len(s.heap)
      down == SiftDown(Swap(s, i, n), i, n - 1)
  IN  HeapPop(IF i = n THEN s ELSE IF down.at # i THEN down.s ELSE SiftUp(down.s, i))

-----------------------------------------------------------------------------
(* The scheduler *)

Becomes(s) == heap' = s.heap /\ event' = s.event

\* An old event of the PID is left in the heap.
PushOver(u, t) ==
  LET pushed == HeapPush(Sched, u, t)
  IN  Becomes(SiftUp(pushed, Len(pushed.heap)))
Push(u, t) ==
  LET cleared == IF u \in DOMAIN event THEN HeapRemove(Sched, event[u].index) ELSE Sched
      pushed == HeapPush(cleared, u, t)
  IN  Becomes(SiftUp(pushed, Len(pushed.heap)))

NextUnit == IF heap = <<>> THEN NoUnit ELSE heap[1]

Pop == heap # <<>> /\ Becomes(HeapRemove(Sched, 1))

RemoveEvent(u) == u \in DOMAIN event /\ Becomes(HeapRemove(Sched, event[u].index))

SchedulerNext ==
  \/ \E u \in Units : RemoveEvent(u) \/ \E t \in Times : Push(u, t)
  \/ Pop

SchedulerSpec == SchedulerInit /\ [][SchedulerNext]_schedVars

-----------------------------------------------------------------------------
Queue == INSTANCE TimedQueue
  WITH due <- [u \in DOMAIN event |-> event[u].when], head <- NextUnit

(* Across pushes over an older launch, pops and removals from the middle   *)
(* of the heap, a unit has the one launch that was asked for last and the  *)
(* head is due first: a wrong index would remove another unit's launch.    *)
SchedulerIsQueue == Queue!Spec

=============================================================================

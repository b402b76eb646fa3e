--------------------------- MODULE ProcessManager ---------------------------
(***************************************************************************)
(* process_manager.go: the supervisor of the channels without a client.    *)
(* Callers of Add and Remove, the main loop and one exit handler per       *)
(* process share it; whatever they do they do under m.mu, so each locked   *)
(* body is one step.                                                       *)
(*                                                                         *)
(* The scheduler is the sequence of its PIDs in the order of their times,  *)
(* of which a prefix is due: a push never lands before an event that is    *)
(* already due, as its time is now or later.  Abstracted: argv, logs and   *)
(* how long a cooldown is.                                                 *)
(*                                                                         *)
(* Operators named after a mistake (PushUnsignalled, ...) are faulty       *)
(* variants of the one that follows; no specification uses them, they show *)
(* which property notices the mistake.                                     *)
(***************************************************************************)
EXTENDS PIDAllocator, Sequences, FiniteSets

CONSTANTS Uids,   \* channel ids
          Insts,  \* process objects; one is reused once it is forgotten
          None

ASSUME NoneAssumption == None \notin Uids \union PidSpace \union Insts

VARIABLES
  units, specs, ps,  \* UID -> PID, PID -> UID of its spec, PID -> process
  sched, due,        \* scheduled PIDs by time, how many of them are due
  sig,               \* a wake-up is in the channel of capacity 1
  pc, armed,         \* where the main loop is, the PID its timer is set for
  ipid, iuid,        \* per process: the arguments of its exit handler
  proc, closing      \* per process: state of the OS process, Close() called

pids == <<next, inUse>>
tables == <<units, specs, ps>>
queue == <<sched, due, sig>>
loop == <<pc, armed>>
child == <<ipid, iuid, proc, closing>>
vars == <<pids, tables, queue, loop, child>>

SeqOps == INSTANCE SequencesExt

Scheduled == {sched[k] : k \in DOMAIN sched}
Due == {sched[k] : k \in 1..due}
Position(p) == CHOOSE k \in DOMAIN sched : sched[k] = p

TypeOK ==
  /\ next \in PidSpace /\ inUse \subseteq PidSpace
  /\ units \in [Uids -> PidSpace \union {None}]
  /\ specs \in [PidSpace -> Uids \union {None}]
  /\ ps \in [PidSpace -> Insts \union {None}]
  /\ sched \in Seq(PidSpace) /\ due \in 0..Len(sched)
  /\ Cardinality(Scheduled) = Len(sched)
  /\ sig \in BOOLEAN
  /\ pc \in {"look", "sig", "timer"} /\ armed \in PidSpace \union {None}
  /\ ipid \in [Insts -> PidSpace \union {None}]
  /\ iuid \in [Insts -> Uids \union {None}]
  /\ proc \in [Insts -> {"none", "alive", "done"}]
  /\ closing \in [Insts -> BOOLEAN]

Init ==
  /\ AllocInit
  /\ units = [u \in Uids |-> None]
  /\ specs = [p \in PidSpace |-> None]
  /\ ps = [p \in PidSpace |-> None]
  /\ sched = <<>> /\ due = 0 /\ sig = FALSE
  /\ pc = "look" /\ armed = None
  /\ ipid = [i \in Insts |-> None] /\ iuid = [i \in Insts |-> None]
  /\ proc = [i \in Insts |-> "none"] /\ closing = [i \in Insts |-> FALSE]

-----------------------------------------------------------------------------
(* The scheduler *)

\* scheduleUnsafe: behind everything that is due, and before or behind
\* anything that is not; the wake-up is sent without blocking.
PushUnsignalled(rest, n, p) ==
  /\ \E k \in n + 1 .. Len(rest) + 1 : sched' = SeqOps!InsertAt(rest, k, p)
  /\ due' = n
  /\ UNCHANGED sig
Push(rest, n, p) ==
  /\ \E k \in n + 1 .. Len(rest) + 1 :
       /\ sched' = SeqOps!InsertAt(rest, k, p)
       /\ due' \in IF k = n + 1 THEN {n, n + 1} ELSE {n}
  /\ sig' = TRUE

\* sched.remove; a PID that is not scheduled is ignored.
Descheduled(p) ==
  IF p \in Scheduled
    THEN /\ sched' = SeqOps!RemoveAt(sched, Position(p))
         /\ due' = IF p \in Due THEN due - 1 ELSE due
    ELSE UNCHANGED <<sched, due>>

-----------------------------------------------------------------------------
(* Callers *)

\* Add schedules the first launch at once.  With every PID in use alloc
\* panics, and nothing is changed.
Add(u) ==
  /\ units[u] = None
  /\ \E p \in PidSpace :
       /\ Alloc(p)
       /\ units' = [units EXCEPT ![u] = p]
       /\ specs' = [specs EXCEPT ![p] = u]
       /\ sched' = SeqOps!InsertAt(sched, due + 1, p)
       /\ due' = due + 1
       /\ sig' = TRUE
  /\ UNCHANGED <<ps, loop, child>>

\* The process a lookup in m.ps finds.
RunningNobody(p) == {}
Running(p) == {i \in Insts : ps[p] = i}

\* The PID stays allocated: the exit handler is what releases it.
Remove(u) ==
  LET p == units[u] IN
  /\ p # None
  /\ closing' = [i \in Insts |-> closing[i] \/ i \in Running(p)]
  /\ units' = [units EXCEPT ![u] = None]
  /\ specs' = [specs EXCEPT ![p] = None]
  /\ ps' = [ps EXCEPT ![p] = None]
  /\ Descheduled(p)
  /\ UNCHANGED <<pids, sig, loop, ipid, iuid, proc>>

-----------------------------------------------------------------------------
(* Main loop *)

MainAwaitSignal ==
  /\ pc = "look" /\ sched = <<>>
  /\ pc' = "sig"
  /\ UNCHANGED <<pids, tables, queue, armed, child>>

MainArmTimer ==
  /\ pc = "look" /\ sched # <<>> /\ due = 0
  /\ pc' = "timer" /\ armed' = Head(sched)
  /\ UNCHANGED <<pids, tables, queue, child>>

\* pop, newProcess, Start; the exit handler is installed.
MainLaunch(p) ==
  /\ pc = "look" /\ due > 0 /\ p = Head(sched)
  /\ sched' = Tail(sched) /\ due' = due - 1
  /\ \E i \in Insts :
       /\ proc[i] = "none"
       /\ ps' = [ps EXCEPT ![p] = i]
       /\ ipid' = [ipid EXCEPT ![i] = p]
       /\ iuid' = [iuid EXCEPT ![i] = specs[p]]
       /\ proc' = [proc EXCEPT ![i] = "alive"]
  /\ UNCHANGED <<pids, units, specs, sig, loop, closing>>

\* Insts bounds the processes: with none left the loop is late, nothing else.
SomeInstFree == \E i \in Insts : proc[i] = "none"

\* newProcess or Start fails: back into the queue after the cooldown.
MainLaunchFails ==
  /\ pc = "look" /\ due > 0 /\ SomeInstFree
  /\ Push(Tail(sched), due - 1, Head(sched))
  /\ UNCHANGED <<pids, tables, loop, child>>

MainSignalled ==
  /\ pc \in {"sig", "timer"} /\ sig
  /\ sig' = FALSE
  /\ pc' = "look" /\ armed' = None
  /\ UNCHANGED <<pids, tables, sched, due, child>>

\* The armed PID's time has come, or passes although it was removed.
MainTimerFires ==
  /\ pc = "timer"
  /\ armed \in Scheduled => armed \in Due
  /\ pc' = "look" /\ armed' = None
  /\ UNCHANGED <<pids, tables, queue, child>>

MainStep ==
  \/ MainAwaitSignal \/ MainArmTimer
  \/ MainLaunchFails \/ \E p \in PidSpace : MainLaunch(p)
  \/ MainSignalled \/ MainTimerFires

\* Time passes until p is due, and what comes before it.
Expire(p) ==
  /\ p \in Scheduled \ Due
  /\ due' = Position(p)
  /\ UNCHANGED <<pids, tables, sched, sig, loop, child>>

-----------------------------------------------------------------------------
(* Processes and their exit handlers *)

ChildExits(i) ==
  /\ proc[i] = "alive"
  /\ proc' = [proc EXCEPT ![i] = "done"]
  /\ UNCHANGED <<pids, tables, queue, loop, ipid, iuid, closing>>

\* The supervision of the pipes calls Close() by itself.
ChildLosesPipe(i) ==
  /\ proc[i] = "alive" /\ ~closing[i]
  /\ closing' = [closing EXCEPT ![i] = TRUE]
  /\ UNCHANGED <<pids, tables, queue, loop, ipid, iuid, proc>>

AuthoritativeByUnit(p, u) == units[u] # None
Authoritative(p, u) == units[u] = p

\* Restart while the PID is authoritative, release it otherwise.
ExitHandler(i) ==
  LET p == ipid[i]  u == iuid[i] IN
  /\ proc[i] = "done"
  /\ ps' = [ps EXCEPT ![p] = None]
  /\ IF Authoritative(p, u)
       THEN Push(sched, due, p) /\ UNCHANGED pids
       ELSE ReleasePid(p) /\ UNCHANGED queue
  /\ proc' = [proc EXCEPT ![i] = "none"]
  /\ closing' = [closing EXCEPT ![i] = FALSE]
  /\ ipid' = [ipid EXCEPT ![i] = None]
  /\ iuid' = [iuid EXCEPT ![i] = None]
  /\ UNCHANGED <<units, specs, loop>>

-----------------------------------------------------------------------------
Next ==
  \/ \E u \in Uids : Add(u) \/ Remove(u)
  \/ MainStep
  \/ \E p \in PidSpace : Expire(p)
  \/ \E i \in Insts : ChildExits(i) \/ ChildLosesPipe(i) \/ ExitHandler(i)

Spec == Init /\ [][Next]_vars

\* Goroutines run on, delays run out and a process asked to close ends
\* (ProcessContract); a launch that is tried again and again succeeds in the
\* end.  Callers and spontaneous exits are not promised.
FairSpec ==
  /\ Spec
  /\ WF_vars(MainStep)
  /\ \A p \in PidSpace : WF_vars(Expire(p)) /\ SF_vars(MainLaunch(p))
  /\ \A i \in Insts : WF_vars(closing[i] /\ ChildExits(i)) /\ WF_vars(ExitHandler(i))

-----------------------------------------------------------------------------
(* Properties *)

Serving == [i \in Insts |-> IF proc[i] = "alive" /\ ~closing[i] THEN iuid[i] ELSE None]

Abstract == INSTANCE Supervisor
  WITH registered <- {u \in Uids : units[u] # None}, serves <- Serving

(* PM1 implements the supervisor both managers are meant to be: "a UID     *)
(* maps to exactly one PID at a time", "a PID is the authoritative         *)
(* instance of that unit" (process_manager.go:19-20).                      *)
ImplementsSupervisor == Abstract!Spec

(* The queue, the process table and the exit handlers share out the        *)
(* registered units: each is scheduled or has one process whose handler    *)
(* will reschedule it, never both, and nothing else is scheduled.          *)
UnitsSharedOut ==
  /\ \A p \in Scheduled : specs[p] # None
  /\ \A p \in PidSpace : specs[p] # None =>
       /\ units[specs[p]] = p
       /\ Cardinality({k \in DOMAIN sched : sched[k] = p})
            + Cardinality({i \in Insts : ipid[i] = p}) = 1

(* A PID is in the allocator's table as long as the queue, a table or an   *)
(* exit handler knows it, so that a handler never meets a successor of its *)
(* own PID ("PIDs are not reused until explicitly released").              *)
PidsHeld ==
  /\ Scheduled \subseteq inUse
  /\ \A u \in Uids : units[u] # None => units[u] \in inUse
  /\ \A i \in Insts : proc[i] # "none" => ipid[i] \in inUse
  /\ \A i, j \in Insts : proc[i] # "none" /\ ipid[i] = ipid[j] => i = j

(* Both: the cursor and all PIDs stay inside the space, the queue has no   *)
(* PID twice, and the wrap-around hands out none that is still held.       *)
PidsInOneHand == TypeOK /\ PidsHeld

(* Self-healing: a registered unit is running again in the end, or it is   *)
(* removed, whatever the other units' launches and exits do to the queue.  *)
UnitRunsAgain ==
  \A u \in Uids :
    (units[u] # None) ~> (units[u] = None \/ \E i \in Insts : Serving[i] = u)

=============================================================================

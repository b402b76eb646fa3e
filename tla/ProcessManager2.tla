--------------------------- MODULE ProcessManager2 ---------------------------
(***************************************************************************)
(* process_manager2.go: the supervisor of the channels of one B2B client.  *)
(* Three kinds of goroutine share it:                                      *)
(*   - callers of Add, Remove and UpdateLimits (HTTP handlers, under m.mu);*)
(*   - the main loop, which waits for capacity, then launches what is due; *)
(*   - one superviseInstance per launched process, which moves it from the *)
(*     preflight pool to the onflight pool and runs handleExit at the end. *)
(* The two slot pools have locks of their own, so the supervisors use them *)
(* outside m.mu and interleave with UpdateLimits, which is split at its    *)
(* pool calls.  The other bodies that hold m.mu are one step each.         *)
(*                                                                         *)
(* Abstracted: argv, environment, logs; times (a scheduled PID is due or   *)
(* not yet; among due PIDs any may be first); which free PID the allocator *)
(* picks; everything inside process.go except what the manager observes:   *)
(* Ready, Done, Enter's error and the effect of Close.                     *)
(*                                                                         *)
(* Operators named after a mistake (KeepPid, RunningNobody, ...) are faulty*)
(* variants of the one that follows; no specification uses them, they show *)
(* which property notices the mistake.                                     *)
(***************************************************************************)
EXTENDS Integers, FiniteSets

CONSTANTS Uids,    \* channel ids
          Pids,    \* the PID space, 1..32768 in the code
          Insts,   \* process objects; one is reused once it is forgotten
          Caps,    \* arguments of NewProcessManager2
          Limits,  \* arguments of UpdateLimits
          None

ASSUME PidsAssumption == IsFiniteSet(Pids)
ASSUME NoneAssumption == None \notin Uids \union Pids \union Insts
ASSUME LimitsAssumption == Caps \subseteq Int /\ Limits \subseteq Int

VARIABLES
  units, specs, ps,  \* UID -> PID, PID -> UID of its spec, PID -> process
  inUse,             \* PIDs the allocator has handed out
  sched, due,        \* scheduled PIDs, those whose time has come
  sig,               \* a wake-up is in the channel of capacity 1
  pc, armed,         \* where the main loop is, the PID its timer is set for
  lim,               \* UpdateLimits in progress: it holds m.mu when not idle
  preMax, preUsage, preOwners, preWaiting,
  onMax, onUsage, onOwners, onWaiting,
  sup, ipid, iuid,   \* per instance: superviseInstance and its arguments
  proc, ready, closing  \* per instance: the OS process, Ready(), Close() called

tables == <<units, specs, ps, inUse>>
queue == <<sched, due, sig>>
loop == <<pc, armed>>
prePool == <<preMax, preUsage, preOwners, preWaiting>>
onPool == <<onMax, onUsage, onOwners, onWaiting>>
ids == <<ipid, iuid>>
child == <<proc, ready, closing>>
vars == <<tables, queue, loop, lim, prePool, onPool, sup, ids, child>>

Pre == INSTANCE SlotPool WITH maxCap <- preMax, usage <- preUsage,
                              acquiredBy <- preOwners, waiting <- preWaiting
On == INSTANCE SlotPool WITH maxCap <- onMax, usage <- onUsage,
                             acquiredBy <- onOwners, waiting <- onWaiting

MainLoop == "mainloop"  \* the only goroutine that ever waits on a pool

SupPhases == {"none", "select", "swap", "stranded", "enter", "active", "exit"}
PreflightPhases == {"select", "swap", "stranded"}  \* owes a preflight release
OnflightPhases == {"swap", "enter", "active"}      \* owes an onflight release

Idle == [at |-> "idle", pre |-> 0, on |-> 0]
MuFree == lim.at = "idle"

TypeOK ==
  /\ units \in [Uids -> Pids \union {None}]
  /\ specs \in [Pids -> Uids \union {None}]
  /\ ps \in [Pids -> Insts \union {None}]
  /\ inUse \subseteq Pids
  /\ sched \subseteq Pids /\ due \subseteq sched
  /\ sig \in BOOLEAN
  /\ pc \in {"waitPre", "waitOn", "lock", "sig", "timer"}
  /\ armed \in Pids \union {None}
  /\ lim \in [at : {"idle", "closePre", "on", "closeOn"}, pre : Int, on : Int]
  /\ preMax \in Int /\ preUsage \in Int
  /\ preOwners \subseteq Pids /\ preWaiting \subseteq {MainLoop}
  /\ onMax \in Int /\ onUsage \in Int
  /\ onOwners \subseteq Pids /\ onWaiting \subseteq {MainLoop}
  /\ sup \in [Insts -> SupPhases]
  /\ ipid \in [Insts -> Pids \union {None}]
  /\ \A i \in Insts : sup[i] # "none" => ipid[i] \in Pids
  /\ iuid \in [Insts -> Uids \union {None}]
  /\ proc \in [Insts -> {"none", "alive", "done"}]
  /\ ready \in [Insts -> BOOLEAN]
  /\ closing \in [Insts -> BOOLEAN]

Init ==
  /\ units = [u \in Uids |-> None]
  /\ specs = [p \in Pids |-> None]
  /\ ps = [p \in Pids |-> None]
  /\ inUse = {} /\ sched = {} /\ due = {} /\ sig = FALSE
  /\ pc = "waitPre" /\ armed = None /\ lim = Idle
  /\ \E max \in Caps : Pre!Init(max)
  /\ \E max \in Caps : On!Init(max)
  /\ sup = [i \in Insts |-> "none"]
  /\ ipid = [i \in Insts |-> None]
  /\ iuid = [i \in Insts |-> None]
  /\ proc = [i \in Insts |-> "none"]
  /\ ready = [i \in Insts |-> FALSE]
  /\ closing = [i \in Insts |-> FALSE]

-----------------------------------------------------------------------------
(* Helpers *)

Wake == sig' = TRUE  \* non-blocking send: a full channel already is a wake-up

\* scheduleUnsafe, with a delay that is over at once or later.
ScheduleQuietly(p, now) ==
  /\ sched' = sched \union {p}
  /\ due' = IF now THEN due \union {p} ELSE due \ {p}
  /\ UNCHANGED sig
Schedule(p, now) ==
  /\ sched' = sched \union {p}
  /\ due' = IF now THEN due \union {p} ELSE due \ {p}
  /\ Wake

\* The restart cooldown is over at once or later.
ForgetRestart(p) == UNCHANGED queue
Reschedule(p) == \E now \in BOOLEAN : Schedule(p, now)

\* scheduler.pop and scheduler.remove
Descheduled(p) ==
  /\ sched' = sched \ {p}
  /\ due' = due \ {p}

\* process.Close(): asynchronous, idempotent, pointless once Done() has fired.
CloseAll(is) == closing' = [i \in Insts |-> closing[i] \/ i \in is]

\* The process a nil check of m.ps[pid] lets through.
RunningNobody(p) == {}
Running(p) == {i \in Insts : ps[p] = i}

\* PIDAllocator.alloc and release
FreeByUnits == {p \in Pids : \A u \in Uids : units[u] # p}
FreePids == Pids \ inUse

KeepPid(p) == UNCHANGED inUse
ReleasePid(p) == inUse' = inUse \ {p}

-----------------------------------------------------------------------------
(* Callers *)

\* Add; with every PID in use alloc panics and nothing is changed.
Add(u) ==
  /\ MuFree
  /\ units[u] = None
  /\ \E p \in FreePids :
       /\ inUse' = inUse \union {p}
       /\ units' = [units EXCEPT ![u] = p]
       /\ specs' = [specs EXCEPT ![p] = u]
       /\ Schedule(p, TRUE)
  /\ UNCHANGED <<ps, loop, lim, prePool, onPool, sup, ids, child>>

\* The PID stays allocated: handleExit is what releases it.
Remove(u) ==
  LET p == units[u] IN
  /\ MuFree
  /\ p # None
  /\ CloseAll(Running(p))
  /\ units' = [units EXCEPT ![u] = None]
  /\ specs' = [specs EXCEPT ![p] = None]
  /\ ps' = [ps EXCEPT ![p] = None]
  /\ Descheduled(p)
  /\ UNCHANGED <<inUse, sig, loop, lim, prePool, onPool, sup, ids, proc, ready>>

\* UpdateLimits, part by part.  A limit equal to the capacity is skipped.
UpdatePreLimit(pre, on) ==
  /\ MuFree
  /\ IF pre # preMax
       THEN Pre!UpdateLimit(pre) /\ lim' = [at |-> "closePre", pre |-> pre, on |-> on]
       ELSE UNCHANGED prePool /\ lim' = [at |-> "on", pre |-> pre, on |-> on]
  /\ UNCHANGED <<tables, queue, loop, onPool, sup, ids, child>>

\* Any set of owners of that size: the snapshot comes from ranging over a map.
ExcessOffByOne(owners, max) ==
  {S \in SUBSET owners : \/ S = {} /\ Cardinality(owners) <= max
                         \/ Cardinality(S) = Cardinality(owners) - max - 1}
Excess(owners, max) ==
  LET surplus == Cardinality(owners) - max
  IN  {S \in SUBSET owners : Cardinality(S) = IF surplus > 0 THEN surplus ELSE 0}

ClosePreExcess ==
  /\ lim.at = "closePre" /\ lim.pre >= 0
  /\ \E S \in Excess(preOwners, lim.pre) : CloseAll(UNION {Running(p) : p \in S})
  /\ lim' = [lim EXCEPT !.at = "on"]
  /\ UNCHANGED <<tables, queue, loop, prePool, onPool, sup, ids, proc, ready>>

UpdateOnLimit ==
  /\ lim.at = "on"
  /\ IF lim.on # onMax
       THEN On!UpdateLimit(lim.on) /\ lim' = [lim EXCEPT !.at = "closeOn"] /\ UNCHANGED sig
       ELSE UNCHANGED onPool /\ lim' = Idle /\ Wake
  /\ UNCHANGED <<tables, sched, due, loop, prePool, sup, ids, child>>

CloseOnExcess ==
  /\ lim.at = "closeOn" /\ lim.on >= 0
  /\ \E S \in Excess(onOwners, lim.on) : CloseAll(UNION {Running(p) : p \in S})
  /\ lim' = Idle
  /\ Wake
  /\ UNCHANGED <<tables, sched, due, loop, prePool, onPool, sup, ids, proc, ready>>

\* owners[:excess] with a negative limit is longer than owners: the handler's
\* goroutine panics, the deferred Unlock runs, the rest is skipped.
UpdateLimitsPanics ==
  /\ \/ lim.at = "closePre" /\ lim.pre < 0
     \/ lim.at = "closeOn" /\ lim.on < 0
  /\ lim' = Idle
  /\ UNCHANGED <<tables, queue, loop, prePool, onPool, sup, ids, child>>

UpdateLimitsStep ==
  ClosePreExcess \/ UpdateOnLimit \/ CloseOnExcess \/ UpdateLimitsPanics

-----------------------------------------------------------------------------
(* Main loop *)

MainWaitPre ==
  /\ pc = "waitPre"
  /\ \/ Pre!Park(MainLoop) /\ UNCHANGED pc
     \/ Pre!Pass(MainLoop) /\ pc' = "waitOn"
  /\ UNCHANGED <<tables, queue, armed, lim, onPool, sup, ids, child>>

MainWaitOn ==
  /\ pc = "waitOn"
  /\ \/ On!Park(MainLoop) /\ UNCHANGED pc
     \/ On!Pass(MainLoop) /\ pc' = "lock"
  /\ UNCHANGED <<tables, queue, armed, lim, prePool, sup, ids, child>>

MainAwaitSignal ==
  /\ pc = "lock" /\ MuFree
  /\ sched = {}
  /\ pc' = "sig"
  /\ UNCHANGED <<tables, queue, armed, lim, prePool, onPool, sup, ids, child>>

MainArmTimer ==
  /\ pc = "lock" /\ MuFree
  /\ due = {}
  /\ armed' \in sched
  /\ pc' = "timer"
  /\ UNCHANGED <<tables, queue, lim, prePool, onPool, sup, ids, child>>

MainRetry ==
  /\ pc = "lock" /\ MuFree
  /\ \E p \in due : Pre!Refuse(p)
  /\ pc' = "waitPre"
  /\ UNCHANGED <<tables, queue, armed, lim, onPool, sup, ids, child>>

\* tryAcquire, pop, launchProcessUnsafe up to the go statement.
MainLaunch ==
  /\ pc = "lock" /\ MuFree
  /\ \E p \in due, i \in Insts :
       /\ proc[i] = "none" /\ sup[i] = "none"
       /\ Pre!Grant(p)
       /\ Descheduled(p)
       /\ ps' = [ps EXCEPT ![p] = i]
       /\ ipid' = [ipid EXCEPT ![i] = p]
       /\ iuid' = [iuid EXCEPT ![i] = specs[p]]
       /\ sup' = [sup EXCEPT ![i] = "select"]
       /\ proc' = [proc EXCEPT ![i] = "alive"]
  /\ pc' = "waitPre"
  /\ UNCHANGED <<units, specs, inUse, sig, armed, lim, onPool, ready, closing>>

\* newProcess or Start fails: the slot is returned before anyone could miss
\* it (only the main loop waits on the pool) and the PID goes back.
MainLaunchFails ==
  /\ pc = "lock" /\ MuFree
  /\ \E p \in due :
       /\ Pre!HasSlot /\ ~Pre!DoubleAcquire(p)
       /\ Reschedule(p)
  /\ pc' = "waitPre"
  /\ UNCHANGED <<tables, armed, lim, prePool, onPool, sup, ids, child>>

MainSignalled ==
  /\ pc \in {"sig", "timer"} /\ sig
  /\ sig' = FALSE
  /\ pc' = "waitPre" /\ armed' = None
  /\ UNCHANGED <<tables, sched, due, lim, prePool, onPool, sup, ids, child>>

\* The armed PID's time has come, or passes although it was removed.
MainTimerFires ==
  /\ pc = "timer"
  /\ armed \in sched => armed \in due
  /\ pc' = "waitPre" /\ armed' = None
  /\ UNCHANGED <<tables, queue, lim, prePool, onPool, sup, ids, child>>

\* A restart delay runs out.  The timer is set for the earliest PID and stays
\* right until the next push, which leaves a signal.
Expire(p) ==
  /\ p \in sched \ due
  /\ (pc = "timer" /\ ~sig /\ armed \in sched) => (p = armed \/ armed \in due)
  /\ due' = due \union {p}
  /\ UNCHANGED <<tables, sched, sig, loop, lim, prePool, onPool, sup, ids, child>>

MainStep ==
  \/ MainWaitPre \/ MainWaitOn
  \/ MainAwaitSignal \/ MainArmTimer
  \/ MainRetry \/ MainLaunch \/ MainLaunchFails
  \/ MainSignalled \/ MainTimerFires

-----------------------------------------------------------------------------
(* superviseInstance *)

\* Ready: an onflight slot is taken while the preflight slot is still held.
SupPromote(i) ==
  /\ sup[i] = "select" /\ ready[i]
  /\ On!Grant(ipid[i])
  /\ sup' = [sup EXCEPT ![i] = "swap"]
  /\ UNCHANGED <<tables, queue, loop, lim, prePool, ids, child>>

\* Ready, but no onflight slot is left.
SupStrand(i) ==
  /\ sup[i] = "select" /\ ready[i]
  /\ On!Refuse(ipid[i])
  /\ CloseAll({i})
  /\ sup' = [sup EXCEPT ![i] = "stranded"]
  /\ UNCHANGED <<tables, queue, loop, lim, prePool, onPool, ids, proc, ready>>

\* preflight.release after a promotion and after a failed one.
SupLeavePreflight(i) ==
  /\ sup[i] \in {"swap", "stranded"}
  /\ Pre!Release(ipid[i])
  /\ sup' = [sup EXCEPT ![i] = IF @ = "swap" THEN "enter" ELSE "exit"]
  /\ UNCHANGED <<tables, queue, loop, lim, onPool, ids, child>>

SupDiedEarlyKeepSlot(i) ==
  /\ sup[i] = "select" /\ proc[i] = "done"
  /\ sup' = [sup EXCEPT ![i] = "exit"]
  /\ UNCHANGED <<tables, queue, loop, lim, prePool, onPool, ids, child>>
SupDiedEarly(i) ==
  /\ sup[i] = "select" /\ proc[i] = "done"
  /\ Pre!Release(ipid[i])
  /\ sup' = [sup EXCEPT ![i] = "exit"]
  /\ UNCHANGED <<tables, queue, loop, lim, onPool, ids, child>>

\* Enter() can only succeed before Done().
SupEnters(i) ==
  /\ sup[i] = "enter" /\ proc[i] = "alive"
  /\ sup' = [sup EXCEPT ![i] = "active"]
  /\ UNCHANGED <<tables, queue, loop, lim, prePool, onPool, ids, child>>

\* Enter() fails: exited, busy being reaped, or its stdin is closed.
SupEnterFails(i) ==
  /\ sup[i] = "enter"
  /\ CloseAll({i})
  /\ On!Release(ipid[i])
  /\ sup' = [sup EXCEPT ![i] = "exit"]
  /\ UNCHANGED <<tables, queue, loop, lim, prePool, ids, proc, ready>>

SupDone(i) ==
  /\ sup[i] = "active" /\ proc[i] = "done"
  /\ On!Release(ipid[i])
  /\ sup' = [sup EXCEPT ![i] = "exit"]
  /\ UNCHANGED <<tables, queue, loop, lim, prePool, ids, child>>

\* A process object is forgotten once it is dead and nobody supervises it.
Forget(i) ==
  /\ proc' = [proc EXCEPT ![i] = "none"]
  /\ ready' = [ready EXCEPT ![i] = FALSE]
  /\ closing' = [closing EXCEPT ![i] = FALSE]
  /\ ipid' = [ipid EXCEPT ![i] = None]
  /\ iuid' = [iuid EXCEPT ![i] = None]

\* handleExit: restart while the PID is authoritative, release it otherwise.
AuthoritativeByUnit(p, u) == units[u] # None
Authoritative(p, u) == units[u] = p

HandleExit(i) ==
  LET p == ipid[i]  u == iuid[i] IN
  /\ sup[i] = "exit" /\ MuFree
  /\ ps' = [ps EXCEPT ![p] = None]
  /\ IF Authoritative(p, u)
       THEN Reschedule(p) /\ UNCHANGED inUse
       ELSE ReleasePid(p) /\ UNCHANGED queue
  /\ sup' = [sup EXCEPT ![i] = "none"]
  /\ IF proc[i] = "done" THEN Forget(i) ELSE UNCHANGED <<ids, child>>
  /\ UNCHANGED <<units, specs, loop, lim, prePool, onPool>>

SupStep(i) ==
  \/ SupPromote(i) \/ SupStrand(i) \/ SupLeavePreflight(i) \/ SupDiedEarly(i)
  \/ SupEnters(i) \/ SupEnterFails(i) \/ SupDone(i)

-----------------------------------------------------------------------------
(* The process, as process.go presents it *)

ChildReady(i) ==
  /\ proc[i] = "alive" /\ ~ready[i]
  /\ ready' = [ready EXCEPT ![i] = TRUE]
  /\ UNCHANGED <<tables, queue, loop, lim, prePool, onPool, sup, ids, proc, closing>>

ChildExits(i) ==
  /\ proc[i] = "alive"
  /\ IF sup[i] = "none"
       THEN Forget(i)
       ELSE proc' = [proc EXCEPT ![i] = "done"] /\ UNCHANGED <<ids, ready, closing>>
  /\ UNCHANGED <<tables, queue, loop, lim, prePool, onPool, sup>>

-----------------------------------------------------------------------------
Next ==
  \/ \E u \in Uids : Add(u) \/ Remove(u)
  \/ \E pre, on \in Limits : UpdatePreLimit(pre, on)
  \/ UpdateLimitsStep
  \/ MainStep
  \/ \E p \in Pids : Expire(p)
  \/ \E i \in Insts : SupStep(i) \/ HandleExit(i) \/ ChildReady(i) \/ ChildExits(i)

Spec == Init /\ [][Next]_vars

\* Goroutines run on; a mutex is granted to a goroutine that keeps asking for
\* it (sync.Mutex hands over after 1 ms of starvation); delays run out; Close
\* ends in SIGKILL.  Callers, readiness and spontaneous exits are not promised.
MainLocked == pc = "lock" /\ MainStep
Fairness ==
  /\ WF_vars(MainStep) /\ SF_vars(MainLocked)
  /\ WF_vars(UpdateLimitsStep)
  /\ \A p \in Pids : WF_vars(Expire(p))
  /\ \A i \in Insts :
       /\ WF_vars(SupStep(i)) /\ SF_vars(HandleExit(i))
       /\ WF_vars(closing[i] /\ ChildExits(i))

FairSpec == Spec /\ Fairness

-----------------------------------------------------------------------------
(* Properties *)

Supervises(i, p) == sup[i] # "none" /\ ipid[i] = p

(* Slots never leak and are never counted twice: each pool's ownership     *)
(* table and counter are exactly the supervisors that still owe a release. *)
(* "Each PID explicitly acquires and releases its slot, preventing silent  *)
(* leaks" (process_manager2.go:19).                                        *)
SlotsMatchSupervisors ==
  /\ preOwners = {ipid[i] : i \in {j \in Insts : sup[j] \in PreflightPhases}}
  /\ onOwners = {ipid[i] : i \in {j \in Insts : sup[j] \in OnflightPhases}}
  /\ preUsage = Cardinality(preOwners)
  /\ onUsage = Cardinality(onOwners)

(* No goroutine is about to hit one of slotPool's panics, which would take *)
(* the whole server down: the PID the main loop may launch holds no slot,  *)
(* a supervisor asks once and returns only what it holds.                  *)
NoSlotPanic ==
  /\ \A p \in sched : ~Pre!DoubleAcquire(p)
  /\ \A i \in Insts :
       /\ sup[i] \in PreflightPhases => ~Pre!ForeignRelease(ipid[i])
       /\ sup[i] \in OnflightPhases => ~On!ForeignRelease(ipid[i])
       /\ sup[i] = "select" => ~On!DoubleAcquire(ipid[i])

(* Both: slots are held by those who owe them, and no supervisor or launch *)
(* asks for one twice or gives back another's.                             *)
SlotsHeldRightly == SlotsMatchSupervisors /\ NoSlotPanic

(* A PID the main loop may launch has a spec, is the PID of its unit and   *)
(* has no supervisor: "must exist (manager invariant)"                     *)
(* (process_manager.go:203), and nothing is launched twice.                *)
ScheduledIsLaunchable ==
  \A p \in sched :
    /\ specs[p] # None
    /\ units[specs[p]] = p
    /\ ps[p] = None
    /\ \A i \in Insts : ~Supervises(i, p)

(* A registered unit is never forgotten: at any moment its PID is either   *)
(* scheduled or in the hands of a supervisor that will reschedule it.      *)
UnitsAccountedFor ==
  \A u \in Uids : units[u] # None =>
    units[u] \in sched \/ \E i \in Insts : Supervises(i, units[u])

(* No process runs on behind the manager's back: one that nobody asked to  *)
(* close is supervised, in ps, and serves the unit its PID belongs to.     *)
NoOrphanProcess ==
  \A i \in Insts : proc[i] = "alive" /\ ~closing[i] =>
    /\ sup[i] # "none"
    /\ ps[ipid[i]] = i
    /\ units[iuid[i]] = ipid[i]

(* Every unit is in exactly one pair of hands: the schedule's or a live    *)
(* supervisor's, and every process nobody closes is one of theirs.         *)
UnitsSharedOut == ScheduledIsLaunchable /\ UnitsAccountedFor /\ NoOrphanProcess

(* PM2 implements the supervisor both managers are meant to be: a process  *)
(* nobody asked to close serves a registered unit, alone.                  *)
Serving == [i \in Insts |-> IF proc[i] = "alive" /\ ~closing[i] THEN iuid[i] ELSE None]
Abstract == INSTANCE Supervisor
  WITH registered <- {u \in Uids : units[u] # None}, serves <- Serving
ImplementsSupervisor == Abstract!Spec

(* A PID is not handed out twice: whatever a scheduled unit, a supervisor  *)
(* or a slot refers to is in the allocator's table, and two supervisors    *)
(* never share a PID.                                                      *)
PidsExclusive ==
  /\ \A u \in Uids : units[u] # None => units[u] \in inUse
  /\ \A i \in Insts : sup[i] # "none" => ipid[i] \in inUse
  /\ \A i, j \in Insts : sup[i] # "none" /\ Supervises(j, ipid[i]) => i = j
  /\ \A u, v \in Uids : units[u] # None /\ units[u] = units[v] => u = v

(* The main loop is never asleep while it has something to do: asleep on a *)
(* pool, the pool is full; asleep on sig, nothing is scheduled; asleep on  *)
(* the timer, nothing is due before it fires - unless the wake-up is       *)
(* already on its way.                                                     *)
NoLostWakeup ==
  /\ MainLoop \in preWaiting => pc = "waitPre" /\ ~Pre!HasSlot
  /\ MainLoop \in onWaiting => pc = "waitOn" /\ ~On!HasSlot
  /\ pc = "sig" => sched = {} \/ sig
  /\ pc = "timer" => due = {} \/ sig \/ armed \notin sched \/ armed \in due

(* "If new limits are smaller than current usage, excess processes are     *)
(* forcibly terminated": a part of UpdateLimits that does not panic leaves *)
(* no more processes that nobody asked to close than the limit allows, and *)
(* until the limit changes again nothing else exceeds it.                  *)
Staying(owners) == {p \in owners : \E i \in Insts : Supervises(i, p) /\ ~closing[i]}
PreFits == Cardinality(Staying(preOwners)) <= preMax
OnFits == Cardinality(Staying(onOwners)) <= onMax
ExcessIsClosing ==
  [][/\ (PreFits \/ (lim.at = "closePre" /\ lim'.at = "on"))
          => (PreFits' \/ preMax' # preMax)
     /\ (OnFits \/ (lim.at = "closeOn" /\ lim.on >= 0 /\ lim'.at = "idle"))
          => (OnFits' \/ onMax' # onMax)]_vars

(* After a limit was lowered the pools drain down to it: usage above the   *)
(* capacity does not last, unless the limits keep changing.                *)
UsageReturnsToLimit ==
  /\ preUsage > preMax ~> preUsage <= preMax
  /\ onUsage > onMax ~> onUsage <= onMax

(* A PID whose unit was removed while it ran is released in the end: "its  *)
(* PID eventually becomes non-authoritative and is released after process  *)
(* termination" (process_manager2.go:30).                                  *)
RemovedRunningPidReleased ==
  \A p \in Pids :
    ((\E i \in Insts : Supervises(i, p)) /\ specs[p] = None) ~> (p \notin inUse)

(* The scheduler is work-conserving: due work and free capacity in both    *)
(* pools do not coexist for ever without the main loop reaching the lock.  *)
DueWorkReachesLock ==
  (due # {} /\ Pre!HasSlot /\ On!HasSlot)
    ~> (pc = "lock" \/ due = {} \/ ~Pre!HasSlot \/ ~On!HasSlot)

(* What the documentation says and the code does not keep (README,         *)
(* section 6).                                                             *)

(* "any process we choose to launch will not become stranded at readiness  *)
(* due to missing onflight capacity" (process_manager2.go:49).             *)
NoStrandedPreflight == \A i \in Insts : sup[i] # "stranded"

(* "Start -> Ready -> Enter -> Done -> Exit-handler"                       *)
(* (process_manager2.go:39): the exit handler runs after Done.             *)
ExitHandlerAfterDone == \A i \in Insts : sup[i] = "exit" => proc[i] = "done"

(* A PID stays allocated only for a unit or for a process not yet          *)
(* terminated (process_manager2.go:30).                                    *)
NoPidLeak ==
  \A p \in inUse :
    (\E u \in Uids : units[u] = p) \/ (\E i \in Insts : Supervises(i, p))

(* "Negative values are clamped to zero" (slot_pool.go:101): no limit      *)
(* makes UpdateLimits slice its snapshot out of bounds.                    *)
LimitsSliceInBounds ==
  /\ lim.at = "closePre" => Cardinality(preOwners) - lim.pre <= Cardinality(preOwners)
  /\ lim.at = "closeOn" => Cardinality(onOwners) - lim.on <= Cardinality(onOwners)

=============================================================================

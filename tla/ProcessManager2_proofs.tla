----------------------- MODULE ProcessManager2_proofs -----------------------
(***************************************************************************)
(* The safety of ProcessManager2 for any number of channels, PIDs,         *)
(* processes and any limits, negative ones included.  One invariant, in    *)
(* four parts: TypeOK, Tables (units, specs, ps, the scheduler and the     *)
(* supervisors agree), Slots (the pools and the supervisors agree) and     *)
(* NoLostWakeup.  From the first two the refinement of Supervisor follows. *)
(***************************************************************************)
EXTENDS ProcessManager2, FiniteSetTheorems, TLAPS

(* The types hold initially and are kept by every step.                    *)
LEMMA TypeInit == Init => TypeOK
<1> SUFFICES ASSUME Init
             PROVE  TypeOK
  OBVIOUS
<1>1. /\ preMax \in Int /\ preUsage \in Int /\ preOwners = {} /\ preWaiting = {}
      /\ onMax \in Int /\ onUsage \in Int /\ onOwners = {} /\ onWaiting = {}
  BY LimitsAssumption DEF Init, Pre!Init, On!Init
<1>2. lim \in [at : {"idle", "closePre", "on", "closeOn"}, pre : Int, on : Int]
  BY DEF Init, Idle
<1> QED
  BY <1>1, <1>2 DEF Init, TypeOK, SupPhases

(* No step leaves the types.                                               *)
LEMMA TypeNext == TypeOK /\ [Next]_vars => TypeOK'
<1> SUFFICES ASSUME TypeOK, [Next]_vars
             PROVE  TypeOK'
  OBVIOUS
<1> USE DEF TypeOK, SupPhases
<1>1. ASSUME NEW u \in Uids, Add(u)
      PROVE  TypeOK'
  BY <1>1 DEF Add, FreePids, Schedule, Wake, loop, prePool, onPool, ids, child
<1>2. ASSUME NEW u \in Uids, Remove(u)
      PROVE  TypeOK'
  BY <1>2 DEF Remove, Descheduled, CloseAll, loop, prePool, onPool, ids
<1>3. ASSUME NEW pre \in Limits, NEW on \in Limits, UpdatePreLimit(pre, on)
      PROVE  TypeOK'
  BY <1>3, LimitsAssumption DEF UpdatePreLimit, Pre!UpdateLimit, Pre!Clamp,
     tables, queue, loop, prePool, onPool, ids, child
<1>4. CASE ClosePreExcess
  BY <1>4 DEF ClosePreExcess, CloseAll, tables, queue, loop, prePool, onPool, ids
<1>5. CASE UpdateOnLimit
  <2>1. lim' \in [at : {"idle", "closePre", "on", "closeOn"}, pre : Int, on : Int]
    BY <1>5 DEF UpdateOnLimit, Idle
  <2>2. onMax' \in Int /\ onUsage' \in Int /\ onOwners' = onOwners /\ onWaiting' \subseteq {MainLoop}
    BY <1>5 DEF UpdateOnLimit, On!UpdateLimit, On!Clamp, onPool
  <2>3. sig' \in BOOLEAN
    BY <1>5 DEF UpdateOnLimit, Wake
  <2> QED
    BY <1>5, <2>1, <2>2, <2>3 DEF UpdateOnLimit, tables, loop, prePool, ids, child
<1>6. CASE CloseOnExcess
  BY <1>6 DEF CloseOnExcess, CloseAll, Idle, Wake, tables, loop, prePool, onPool, ids
<1>7. CASE UpdateLimitsPanics
  BY <1>7 DEF UpdateLimitsPanics, Idle, tables, queue, loop, prePool, onPool, ids, child
<1>8. CASE MainWaitPre
  BY <1>8 DEF MainWaitPre, Pre!Park, Pre!Pass, Pre!pool, tables, queue, onPool, ids, child
<1>9. CASE MainWaitOn
  BY <1>9 DEF MainWaitOn, On!Park, On!Pass, On!pool, tables, queue, prePool, ids, child
<1>10. CASE MainAwaitSignal \/ MainArmTimer
  BY <1>10 DEF MainAwaitSignal, MainArmTimer, tables, queue, prePool, onPool, ids, child
<1>11. CASE MainRetry
  BY <1>11 DEF MainRetry, Pre!Refuse, Pre!pool, tables, queue, onPool, ids, child
<1>12. CASE MainLaunch
  BY <1>12 DEF MainLaunch, Pre!Grant, Descheduled, onPool
<1>13. CASE MainLaunchFails
  BY <1>13 DEF MainLaunchFails, Reschedule, Schedule, Wake, tables, prePool, onPool, ids, child
<1>14. CASE MainSignalled \/ MainTimerFires
  BY <1>14 DEF MainSignalled, MainTimerFires, tables, queue, prePool, onPool, ids, child
<1>15. ASSUME NEW p \in Pids, Expire(p)
      PROVE  TypeOK'
  BY <1>15 DEF Expire, tables, loop, prePool, onPool, ids, child
<1>16. ASSUME NEW i \in Insts, SupStep(i)
      PROVE  TypeOK'
  <2>1. CASE SupPromote(i)
    BY <2>1 DEF SupPromote, On!Grant, tables, queue, loop, prePool, ids, child
  <2>2. CASE SupStrand(i)
    BY <2>2 DEF SupStrand, On!Refuse, On!pool, CloseAll, tables, queue, loop, prePool, onPool, ids
  <2>3. CASE SupLeavePreflight(i)
    BY <2>3 DEF SupLeavePreflight, Pre!Release, Pre!Signal, tables, queue, loop, onPool, ids, child
  <2>4. CASE SupDiedEarly(i)
    BY <2>4 DEF SupDiedEarly, Pre!Release, Pre!Signal, tables, queue, loop, onPool, ids, child
  <2>5. CASE SupEnters(i)
    BY <2>5 DEF SupEnters, tables, queue, loop, prePool, onPool, ids, child
  <2>6. CASE SupEnterFails(i)
    BY <2>6 DEF SupEnterFails, On!Release, On!Signal, CloseAll, tables, queue, loop, prePool, ids
  <2>7. CASE SupDone(i)
    BY <2>7 DEF SupDone, On!Release, On!Signal, tables, queue, loop, prePool, ids, child
  <2> QED
    BY <1>16, <2>1, <2>2, <2>3, <2>4, <2>5, <2>6, <2>7 DEF SupStep
<1>17. ASSUME NEW i \in Insts, HandleExit(i)
      PROVE  TypeOK'
  <2> DEFINE p == ipid[i]
  <2>1. /\ p \in Pids /\ ps' = [ps EXCEPT ![p] = None] /\ sup' = [sup EXCEPT ![i] = "none"]
        /\ UNCHANGED <<units, specs, loop, lim, prePool, onPool>>
    BY <1>17 DEF HandleExit
  <2>2. inUse' \subseteq Pids /\ sched' \subseteq Pids /\ due' \subseteq sched' /\ sig' \in BOOLEAN
    <3>1. CASE Authoritative(p, iuid[i])
      <4>1. PICK now \in BOOLEAN : Schedule(p, now)
        BY <1>17, <3>1 DEF HandleExit, Reschedule
      <4>2. UNCHANGED inUse
        BY <1>17, <3>1 DEF HandleExit
      <4> HIDE DEF p
      <4> QED
        BY <2>1, <4>1, <4>2 DEF Schedule, Wake
    <3>2. CASE ~Authoritative(p, iuid[i])
      BY <1>17, <2>1, <3>2 DEF HandleExit, ReleasePid, queue
    <3> QED
      BY <3>1, <3>2
  <2>3. /\ ipid' \in [Insts -> Pids \union {None}] /\ iuid' \in [Insts -> Uids \union {None}]
        /\ proc' \in [Insts -> {"none", "alive", "done"}]
        /\ ready' \in [Insts -> BOOLEAN] /\ closing' \in [Insts -> BOOLEAN]
        /\ \A j \in Insts : j # i => ipid'[j] = ipid[j]
    <3>1. CASE proc[i] = "done"
      BY <1>17, <3>1 DEF HandleExit, Forget, ids, child
    <3>2. CASE proc[i] # "done"
      BY <1>17, <3>2 DEF HandleExit, ids, child
    <3> QED
      BY <3>1, <3>2
  <2> HIDE DEF p
  <2>4. \A j \in Insts : sup'[j] # "none" => ipid'[j] \in Pids
    BY <2>1, <2>3
  <2>5. /\ ps' \in [Pids -> Insts \union {None}] /\ sup' \in [Insts -> SupPhases]
    BY <2>1
  <2> QED
    BY <2>1, <2>2, <2>3, <2>4, <2>5 DEF loop, prePool, onPool
<1>18. ASSUME NEW i \in Insts, ChildReady(i) \/ ChildExits(i)
      PROVE  TypeOK'
  BY <1>18 DEF ChildReady, ChildExits, Forget, tables, queue, loop, prePool, onPool, ids, child
<1>19. CASE UNCHANGED vars
  BY <1>19 DEF vars, tables, queue, loop, prePool, onPool, ids, child
<1> QED
  BY <1>1, <1>2, <1>3, <1>4, <1>5, <1>6, <1>7, <1>8, <1>9, <1>10, <1>11, <1>12, <1>13,
     <1>14, <1>15, <1>16, <1>17, <1>18, <1>19
     DEF Next, UpdateLimitsStep, MainStep

(* Type correctness of the supervisor.                                     *)
THEOREM TypeCorrect == Spec => []TypeOK
  BY TypeInit, TypeNext, PTL DEF Spec

-----------------------------------------------------------------------------
(* The manager's tables *)

SupervisorTyped ==
  \A i \in Insts : sup[i] # "none" => iuid[i] \in Uids /\ proc[i] # "none"

OneSupervisorPerPid ==
  \A i, j \in Insts : sup[i] # "none" /\ Supervises(j, ipid[i]) => i = j

\* units and specs are inverse to each other, on allocated PIDs.
UnitsMatchSpecs ==
  /\ \A u \in Uids : units[u] # None => specs[units[u]] = u /\ units[u] \in inUse
  /\ \A p \in Pids : specs[p] # None => units[specs[p]] = p

SupervisedInUse == \A i \in Insts : sup[i] # "none" => ipid[i] \in inUse

PsIsSupervised == \A p \in Pids : ps[p] # None => Supervises(ps[p], p)

\* A supervisor's uid is the one its PID still has a spec for, if any: the
\* PID is not reused before its supervisor has ended.
SupervisorUid ==
  \A i \in Insts :
    sup[i] # "none" /\ specs[ipid[i]] # None => specs[ipid[i]] = iuid[i]

\* A supervisor only gives up on a process that is dead or being closed.
LeavingIsClosing ==
  \A i \in Insts :
    sup[i] \in {"stranded", "exit"} /\ proc[i] = "alive" => closing[i]

Tables ==
  /\ SupervisorTyped
  /\ LeavingIsClosing
  /\ OneSupervisorPerPid
  /\ ScheduledIsLaunchable
  /\ UnitsMatchSpecs
  /\ SupervisedInUse
  /\ PsIsSupervised
  /\ SupervisorUid
  /\ UnitsAccountedFor
  /\ NoOrphanProcess

(* Most steps of a supervisor, of the main loop and of a process disturb   *)
(* no table: they move a supervisor that goes on existing, end a process,  *)
(* or ask one to close.                                                    *)
LEMMA TablesFrame ==
  ASSUME TypeOK, Tables,
         UNCHANGED <<units, specs, ps, inUse, sched>>,
         \A i \in Insts :
           /\ sup'[i] = "none" <=> sup[i] = "none"
           /\ sup[i] # "none" =>
                /\ ipid'[i] = ipid[i] /\ iuid'[i] = iuid[i]
                /\ proc[i] # "none" => proc'[i] # "none"
           /\ proc'[i] = "alive" => proc[i] = "alive"
           /\ closing[i] /\ proc'[i] = "alive" => closing'[i]
           /\ sup'[i] \in {"stranded", "exit"} /\ proc'[i] = "alive" =>
                sup[i] \in {"stranded", "exit"} \/ closing'[i]
  PROVE  Tables'
<1> USE DEF TypeOK, Tables, Supervises
<1>1. SupervisorTyped' /\ OneSupervisorPerPid'
  BY DEF SupervisorTyped, OneSupervisorPerPid
<1>2. ScheduledIsLaunchable'
  BY DEF ScheduledIsLaunchable
<1>3. UnitsMatchSpecs' /\ SupervisedInUse' /\ PsIsSupervised'
  BY NoneAssumption DEF UnitsMatchSpecs, SupervisedInUse, PsIsSupervised
<1>4. SupervisorUid'
  BY DEF SupervisorUid
<1>5. UnitsAccountedFor'
  BY DEF UnitsAccountedFor
<1>6. NoOrphanProcess'
  BY DEF NoOrphanProcess, SupervisorTyped
<1>7. LeavingIsClosing'
  BY DEF LeavingIsClosing
<1> QED
  BY <1>1, <1>2, <1>3, <1>4, <1>5, <1>6, <1>7

(* Nothing is registered at first.                                         *)
LEMMA TablesInit == Init => Tables
  BY DEF Init, Tables, SupervisorTyped, LeavingIsClosing, OneSupervisorPerPid, ScheduledIsLaunchable,
     UnitsMatchSpecs, SupervisedInUse, PsIsSupervised, SupervisorUid, UnitsAccountedFor,
     NoOrphanProcess, Supervises

(* Add: the PID is fresh, so no table, supervisor or slot mentions it.     *)
LEMMA TablesAdd ==
  ASSUME TypeOK, Tables, NEW u \in Uids, Add(u)
  PROVE  Tables'
<1> USE DEF TypeOK, Tables, Supervises
<1>1. PICK p \in Pids \ inUse :
        /\ inUse' = inUse \union {p}
        /\ units' = [units EXCEPT ![u] = p]
        /\ specs' = [specs EXCEPT ![p] = u]
        /\ sched' = sched \union {p}
  BY DEF Add, FreePids, Schedule
<1>2. units[u] = None
  BY DEF Add
<1>3. UNCHANGED <<ps, sup, ipid, iuid, proc, closing>>
  BY DEF Add, ids, child
<1>4. \A i \in Insts : sup[i] # "none" => ipid[i] # p
  BY <1>1 DEF SupervisedInUse
<1>5. \A v \in Uids : units[v] # p
  BY <1>1, NoneAssumption DEF UnitsMatchSpecs
<1>6. specs[p] = None
  BY <1>1, <1>5, NoneAssumption DEF UnitsMatchSpecs
<1>7. ps[p] = None
  BY <1>4 DEF PsIsSupervised
<1>8. SupervisorTyped' /\ LeavingIsClosing' /\ OneSupervisorPerPid' /\ SupervisedInUse'
  BY <1>1, <1>3 DEF LeavingIsClosing, SupervisorTyped, OneSupervisorPerPid, SupervisedInUse
<1>9. UnitsMatchSpecs'
  BY <1>1, <1>2, <1>5, <1>6, NoneAssumption DEF UnitsMatchSpecs
<1>10. ScheduledIsLaunchable'
  BY <1>1, <1>2, <1>3, <1>4, <1>7, NoneAssumption DEF ScheduledIsLaunchable
<1>11. PsIsSupervised' /\ SupervisorUid'
  BY <1>1, <1>3, <1>4 DEF PsIsSupervised, SupervisorUid
<1>12. UnitsAccountedFor'
  BY <1>1, <1>3 DEF UnitsAccountedFor
<1>13. NoOrphanProcess'
  BY <1>1, <1>2, <1>3, <1>4, NoneAssumption DEF NoOrphanProcess
<1> QED
  BY <1>8, <1>9, <1>10, <1>11, <1>12, <1>13

(* Remove: the PID leaves every table and its process, if any, is closing. *)
LEMMA TablesRemove ==
  ASSUME TypeOK, Tables, NEW u \in Uids, Remove(u)
  PROVE  Tables'
<1> DEFINE p == units[u]
<1> USE DEF TypeOK, Tables, Supervises
<1>1. p \in Pids /\ specs[p] = u /\ units[u] = p
  BY DEF Remove, UnitsMatchSpecs
<1>2. /\ units' = [units EXCEPT ![u] = None]
      /\ specs' = [specs EXCEPT ![p] = None]
      /\ ps' = [ps EXCEPT ![p] = None]
      /\ sched' = sched \ {p}
      /\ UNCHANGED <<inUse, sup, ipid, iuid, proc>>
  BY DEF Remove, Descheduled, ids
<1>3. \A i \in Insts : closing[i] \/ ps[p] = i => closing'[i]
  BY DEF Remove, CloseAll, Running
<1>4. \A v \in Uids : v # u => units[v] # p
  BY <1>1, NoneAssumption DEF UnitsMatchSpecs
<1> HIDE DEF p
<1>5. SupervisorTyped' /\ LeavingIsClosing' /\ OneSupervisorPerPid' /\ SupervisedInUse'
  BY <1>2, <1>3 DEF LeavingIsClosing, SupervisorTyped, OneSupervisorPerPid, SupervisedInUse
<1>6. UnitsMatchSpecs'
  BY <1>1, <1>2, <1>4, NoneAssumption DEF UnitsMatchSpecs
<1>7. ScheduledIsLaunchable'
  BY <1>1, <1>2, <1>4, NoneAssumption DEF ScheduledIsLaunchable
<1>8. PsIsSupervised' /\ SupervisorUid'
  <2>1. PsIsSupervised'
    BY <1>1, <1>2, NoneAssumption DEF PsIsSupervised
  <2>2. SupervisorUid'
    BY <1>1, <1>2 DEF SupervisorUid
  <2> QED
    BY <2>1, <2>2
<1>9. UnitsAccountedFor'
  BY <1>1, <1>2, <1>4 DEF UnitsAccountedFor
<1>10. NoOrphanProcess'
  <2> SUFFICES ASSUME NEW i \in Insts, proc[i] = "alive", ~closing'[i]
               PROVE  /\ sup[i] # "none"
                      /\ ps'[ipid[i]] = i
                      /\ units'[iuid[i]] = ipid[i]
    BY <1>2 DEF NoOrphanProcess
  <2>1. sup[i] # "none" /\ ps[ipid[i]] = i /\ units[iuid[i]] = ipid[i]
    BY <1>3 DEF NoOrphanProcess
  <2>2. ipid[i] # p
    BY <1>3, <2>1
  <2>3. iuid[i] # u
    BY <2>1, <2>2 DEF p
  <2> QED
    BY <1>2, <2>1, <2>2, <2>3 DEF SupervisorTyped
<1> QED
  BY <1>5, <1>6, <1>7, <1>8, <1>9, <1>10

(* Launch: a scheduled PID has no supervisor, so it gets its only one.     *)
LEMMA TablesLaunch ==
  ASSUME TypeOK, Tables, MainLaunch
  PROVE  Tables'
<1> USE DEF TypeOK, Tables, Supervises
<1>1. PICK p \in due, i \in Insts :
        /\ proc[i] = "none" /\ sup[i] = "none"
        /\ sched' = sched \ {p}
        /\ ps' = [ps EXCEPT ![p] = i]
        /\ ipid' = [ipid EXCEPT ![i] = p]
        /\ iuid' = [iuid EXCEPT ![i] = specs[p]]
        /\ sup' = [sup EXCEPT ![i] = "select"]
        /\ proc' = [proc EXCEPT ![i] = "alive"]
  BY DEF MainLaunch, Descheduled
<1>2. UNCHANGED <<units, specs, inUse, closing>>
  BY DEF MainLaunch
<1>3. p \in Pids /\ specs[p] \in Uids /\ units[specs[p]] = p /\ p \in inUse
  BY <1>1, NoneAssumption DEF ScheduledIsLaunchable, UnitsMatchSpecs
<1>4. ps[p] = None /\ \A j \in Insts : sup[j] # "none" => ipid[j] # p
  BY <1>1 DEF ScheduledIsLaunchable
<1>5. SupervisorTyped' /\ LeavingIsClosing' /\ SupervisedInUse'
  BY <1>1, <1>2, <1>3 DEF LeavingIsClosing, SupervisorTyped, SupervisedInUse
<1>6. OneSupervisorPerPid'
  BY <1>1, <1>4 DEF OneSupervisorPerPid
<1>7. UnitsMatchSpecs'
  BY <1>2 DEF UnitsMatchSpecs
<1>8. ScheduledIsLaunchable'
  BY <1>1, <1>2 DEF ScheduledIsLaunchable
<1>9. PsIsSupervised'
  BY <1>1, <1>3, <1>4, NoneAssumption DEF PsIsSupervised
<1>10. SupervisorUid'
  BY <1>1, <1>2, <1>3 DEF SupervisorUid
<1>11. UnitsAccountedFor'
  BY <1>1, <1>2, <1>3 DEF UnitsAccountedFor
<1>12. NoOrphanProcess'
  BY <1>1, <1>2, <1>3, <1>4 DEF NoOrphanProcess
<1> QED
  BY <1>5, <1>6, <1>7, <1>8, <1>9, <1>10, <1>11, <1>12

(* Exit handler: the only supervisor of its PID ends; the PID is scheduled *)
(* when its unit still maps to it, and free for reuse otherwise.           *)
LEMMA TablesHandleExit ==
  ASSUME TypeOK, Tables, NEW i \in Insts, HandleExit(i)
  PROVE  Tables'
<1> DEFINE p == ipid[i]
           u == iuid[i]
<1> USE DEF TypeOK, Tables, Supervises
<1>1. sup[i] = "exit" /\ p \in Pids /\ u \in Uids /\ p \in inUse
  BY DEF HandleExit, Authoritative, Reschedule, ReleasePid, SupervisorTyped, SupervisedInUse
<1>2. /\ ps' = [ps EXCEPT ![p] = None]
      /\ sup' = [sup EXCEPT ![i] = "none"]
      /\ UNCHANGED <<units, specs>>
  BY DEF HandleExit
<1>3. \A j \in Insts : j # i => /\ ipid'[j] = ipid[j] /\ iuid'[j] = iuid[j]
                                /\ proc'[j] = proc[j] /\ closing'[j] = closing[j]
  BY DEF HandleExit, Authoritative, Reschedule, ReleasePid, Forget, ids, child
<1>4. \A j \in Insts : sup[j] # "none" /\ ipid[j] = p => j = i
  BY <1>1 DEF OneSupervisorPerPid
<1>5. IF units[u] = p THEN sched' = sched \union {p} /\ inUse' = inUse
                      ELSE sched' = sched /\ inUse' = inUse \ {p}
  BY DEF HandleExit, Authoritative, Reschedule, ReleasePid, Schedule, queue
<1>6. proc'[i] = "alive" => proc[i] = "alive" /\ closing'[i]
  BY DEF HandleExit, Authoritative, Reschedule, ReleasePid, Forget, child, LeavingIsClosing
<1>7. units[u] # p => specs[p] = None /\ \A v \in Uids : units[v] # p
  BY <1>1, NoneAssumption DEF UnitsMatchSpecs, SupervisorUid
<1> HIDE DEF p, u
<1>8. SupervisorTyped' /\ LeavingIsClosing'
  BY <1>1, <1>2, <1>3 DEF LeavingIsClosing, SupervisorTyped
<1>9. OneSupervisorPerPid'
  BY <1>1, <1>2, <1>3 DEF OneSupervisorPerPid
<1>10. SupervisedInUse'
  BY <1>1, <1>2, <1>3, <1>4, <1>5 DEF SupervisedInUse
<1>11. UnitsMatchSpecs'
  BY <1>2, <1>5, <1>7 DEF UnitsMatchSpecs
<1>12. ScheduledIsLaunchable'
  BY <1>1, <1>2, <1>3, <1>4, <1>5, NoneAssumption DEF ScheduledIsLaunchable, UnitsMatchSpecs
<1>13. PsIsSupervised'
  BY <1>1, <1>2, <1>3, NoneAssumption DEF PsIsSupervised, p
<1>14. SupervisorUid'
  BY <1>2, <1>3 DEF SupervisorUid
<1>15. UnitsAccountedFor'
  BY <1>1, <1>2, <1>3, <1>5, <1>7 DEF UnitsAccountedFor, p
<1>16. NoOrphanProcess'
  BY <1>1, <1>2, <1>3, <1>4, <1>6 DEF NoOrphanProcess
<1> QED
  BY <1>8, <1>9, <1>10, <1>11, <1>12, <1>13, <1>14, <1>15, <1>16

(* Every step keeps the tables: four actions rewrite them, a relaunch that *)
(* fails reschedules what is scheduled, all others fall under TablesFrame. *)
LEMMA TablesNext == TypeOK /\ Tables /\ [Next]_vars => Tables'
<1> SUFFICES ASSUME TypeOK, Tables, [Next]_vars
             PROVE  Tables'
  OBVIOUS
<1> USE DEF TypeOK, SupPhases
<1>1. ASSUME NEW u \in Uids, Add(u) \/ Remove(u)
      PROVE  Tables'
  BY <1>1, TablesAdd, TablesRemove
<1>2. ASSUME NEW pre \in Limits, NEW on \in Limits, UpdatePreLimit(pre, on)
      PROVE  Tables'
  BY <1>2, TablesFrame DEF UpdatePreLimit, tables, queue, ids, child
<1>3. CASE UpdateLimitsStep
  <2>1. /\ UNCHANGED <<tables, sched, sup, ids, proc>>
        /\ \A i \in Insts : closing[i] => closing'[i]
    BY <1>3 DEF UpdateLimitsStep, ClosePreExcess, UpdateOnLimit, CloseOnExcess,
       UpdateLimitsPanics, CloseAll, queue, child
  <2> QED
    BY <2>1, TablesFrame DEF tables, ids
<1>4. CASE MainLaunch
  BY <1>4, TablesLaunch
<1>5. CASE MainLaunchFails
  BY <1>5, TablesFrame DEF MainLaunchFails, Reschedule, Schedule, tables, ids, child
<1>6. CASE MainWaitPre \/ MainWaitOn \/ MainAwaitSignal \/ MainArmTimer \/ MainRetry
           \/ MainSignalled \/ MainTimerFires
  <2>1. UNCHANGED <<tables, sched, sup, ids, child>>
    BY <1>6 DEF MainWaitPre, MainWaitOn, MainAwaitSignal, MainArmTimer, MainRetry,
       MainSignalled, MainTimerFires, queue
  <2> QED
    BY <2>1, TablesFrame DEF tables, ids, child
<1>7. ASSUME NEW p \in Pids, Expire(p)
      PROVE  Tables'
  BY <1>7, TablesFrame DEF Expire, tables, ids, child
<1>8. ASSUME NEW i \in Insts, SupStep(i)
      PROVE  Tables'
  <2>1. UNCHANGED <<tables, sched, ids, proc>>
    BY <1>8 DEF SupStep, SupPromote, SupStrand, SupLeavePreflight, SupDiedEarly, SupEnters,
       SupEnterFails, SupDone, queue, child
  <2>2. /\ sup[i] # "none"
        /\ \E s \in SupPhases \ {"none"} : sup' = [sup EXCEPT ![i] = s]
    BY <1>8 DEF SupStep, SupPromote, SupStrand, SupLeavePreflight, SupDiedEarly, SupEnters,
       SupEnterFails, SupDone
  <2>3. \A j \in Insts : closing[j] => closing'[j]
    BY <1>8 DEF SupStep, SupPromote, SupStrand, SupLeavePreflight, SupDiedEarly, SupEnters,
       SupEnterFails, SupDone, CloseAll, child
  <2>4. sup'[i] \in {"stranded", "exit"} /\ proc[i] = "alive" =>
          sup[i] \in {"stranded", "exit"} \/ closing'[i]
    BY <1>8 DEF SupStep, SupPromote, SupStrand, SupLeavePreflight, SupDiedEarly, SupEnters,
       SupEnterFails, SupDone, CloseAll
  <2> QED
    BY <2>1, <2>2, <2>3, <2>4, TablesFrame DEF tables, ids
<1>9. ASSUME NEW i \in Insts, HandleExit(i)
      PROVE  Tables'
  BY <1>9, TablesHandleExit
<1>10. ASSUME NEW i \in Insts, ChildReady(i) \/ ChildExits(i)
       PROVE  Tables'
  BY <1>10, TablesFrame DEF ChildReady, ChildExits, Forget, tables, queue, ids, child
<1>11. CASE UNCHANGED vars
  BY <1>11, TablesFrame DEF vars, tables, queue, ids, child
<1> QED
  BY <1>1, <1>2, <1>3, <1>4, <1>5, <1>6, <1>7, <1>8, <1>9, <1>10, <1>11 DEF Next, MainStep

-----------------------------------------------------------------------------
(* The slot pools *)

PreSlots ==
  \A p \in Pids :
    p \in preOwners <=> \E i \in Insts : sup[i] \in PreflightPhases /\ ipid[i] = p
OnSlots ==
  \A p \in Pids :
    p \in onOwners <=> \E i \in Insts : sup[i] \in OnflightPhases /\ ipid[i] = p
Counted == preUsage = Cardinality(preOwners) /\ onUsage = Cardinality(onOwners)

Slots == PreSlots /\ OnSlots /\ Counted

(* The counter of a set of PIDs follows the set.                           *)
LEMMA OwnersCounted ==
  ASSUME NEW S \in SUBSET Pids, NEW p \in Pids
  PROVE  /\ Cardinality(S) \in Nat
         /\ p \notin S => Cardinality(S \union {p}) = Cardinality(S) + 1
         /\ p \in S => Cardinality(S \ {p}) = Cardinality(S) - 1
<1>1. IsFiniteSet(S)
  BY PidsAssumption, FS_Subset
<1>2. Cardinality(S) \in Nat
  BY <1>1, FS_CardinalityType
<1>3. p \notin S => Cardinality(S \union {p}) = Cardinality(S) + 1
  BY <1>1, FS_AddElement
<1>4. p \in S => Cardinality(S \ {p}) = Cardinality(S) - 1
  BY <1>1, FS_RemoveElement
<1> QED
  BY <1>2, <1>3, <1>4

(* Both pools keep counter and ownership table together, whoever calls.    *)
LEMMA PoolsCounted ==
  ASSUME TypeOK, Counted, NEW p \in Pids
  PROVE  /\ Pre!Grant(p) \/ Pre!Release(p) => preUsage' = Cardinality(preOwners')
         /\ On!Grant(p) \/ On!Release(p) => onUsage' = Cardinality(onOwners')
<1> USE DEF TypeOK, Counted
<1>1. Pre!Grant(p) => preUsage' = Cardinality(preOwners')
  BY OwnersCounted DEF Pre!Grant, Pre!DoubleAcquire
<1>2. Pre!Release(p) => preUsage' = Cardinality(preOwners')
  BY OwnersCounted DEF Pre!Release, Pre!ForeignRelease
<1>3. On!Grant(p) => onUsage' = Cardinality(onOwners')
  BY OwnersCounted DEF On!Grant, On!DoubleAcquire
<1>4. On!Release(p) => onUsage' = Cardinality(onOwners')
  BY OwnersCounted DEF On!Release, On!ForeignRelease
<1> QED
  BY <1>1, <1>2, <1>3, <1>4

(* A step that leaves the ownership tables alone and moves no supervisor   *)
(* into or out of a slot-holding phase.                                    *)
LEMMA SlotsFrame ==
  ASSUME TypeOK, Slots,
         UNCHANGED <<preUsage, preOwners, onUsage, onOwners>>,
         \A i \in Insts :
           /\ sup'[i] \in PreflightPhases <=> sup[i] \in PreflightPhases
           /\ sup'[i] \in OnflightPhases <=> sup[i] \in OnflightPhases
           /\ sup[i] \in PreflightPhases \union OnflightPhases => ipid'[i] = ipid[i]
  PROVE  Slots'
<1>1. PreSlots' /\ OnSlots'
  BY DEF Slots, PreSlots, OnSlots
<1>2. Counted'
  BY DEF Slots, Counted
<1> QED
  BY <1>1, <1>2 DEF Slots

(* No slot is owned at first.                                              *)
LEMMA SlotsInit == Init => Slots
<1>1. Cardinality({}) = 0
  BY FS_EmptySet
<1> QED
  BY <1>1 DEF Init, Pre!Init, On!Init, Slots, PreSlots, OnSlots, Counted,
     PreflightPhases, OnflightPhases

(* A supervisor's step: each pool call comes with the phase change that    *)
(* records it, and no other supervisor has the same PID.                   *)
LEMMA SlotsSupStep ==
  ASSUME TypeOK, Tables, Slots, NEW i \in Insts, SupStep(i)
  PROVE  Slots'
<1> DEFINE p == ipid[i]
<1>1. UNCHANGED ipid
  BY DEF SupStep, SupPromote, SupStrand, SupLeavePreflight, SupDiedEarly, SupEnters,
     SupEnterFails, SupDone, ids
<1>2. sup[i] # "none"
  BY DEF SupStep, SupPromote, SupStrand, SupLeavePreflight, SupDiedEarly, SupEnters,
     SupEnterFails, SupDone
<1>3. p \in Pids
  BY <1>2 DEF TypeOK
<1>4. \A j \in Insts : sup[j] # "none" /\ ipid[j] = p => j = i
  BY <1>2 DEF Tables, OneSupervisorPerPid, Supervises
<1> HIDE DEF p
<1> USE DEF Slots, PreSlots, OnSlots, PreflightPhases, OnflightPhases
<1>5. CASE SupPromote(i)
  <2>1. /\ sup[i] = "select" /\ sup' = [sup EXCEPT ![i] = "swap"]
        /\ onOwners' = onOwners \union {p}
        /\ UNCHANGED <<preUsage, preOwners>>
    BY <1>5 DEF SupPromote, On!Grant, prePool, p
  <2>2. PreSlots' /\ OnSlots'
    BY <1>1, <1>3, <2>1 DEF TypeOK, p
  <2>3. Counted'
    BY <1>3, <1>5, <2>1, PoolsCounted DEF SupPromote, Counted, p
  <2> QED
    BY <2>2, <2>3
<1>6. CASE SupStrand(i) \/ SupEnters(i)
  <2>1. UNCHANGED <<preUsage, preOwners, onUsage, onOwners>>
    BY <1>6 DEF SupStrand, SupEnters, prePool, onPool
  <2>2. \/ sup[i] = "select" /\ sup' = [sup EXCEPT ![i] = "stranded"]
        \/ sup[i] = "enter" /\ sup' = [sup EXCEPT ![i] = "active"]
    BY <1>6 DEF SupStrand, SupEnters
  <2> QED
    BY <1>1, <2>1, <2>2, SlotsFrame DEF TypeOK
<1>7. CASE SupLeavePreflight(i) \/ SupDiedEarly(i)
  <2>1. /\ sup[i] \in {"swap", "stranded", "select"}
        /\ sup' = [sup EXCEPT ![i] = IF @ = "swap" THEN "enter" ELSE "exit"]
        /\ preOwners' = preOwners \ {p}
        /\ UNCHANGED <<onUsage, onOwners>>
    BY <1>7 DEF SupLeavePreflight, SupDiedEarly, Pre!Release, onPool, p
  <2>2. PreSlots'
    BY <1>1, <1>3, <1>4, <2>1 DEF TypeOK, p
  <2>3. OnSlots'
    BY <1>1, <2>1 DEF TypeOK
  <2>4. Counted'
    BY <1>3, <1>7, <2>1, PoolsCounted DEF SupLeavePreflight, SupDiedEarly, Counted, p
  <2> QED
    BY <2>2, <2>3, <2>4
<1>8. CASE SupEnterFails(i) \/ SupDone(i)
  <2>1. /\ sup[i] \in {"enter", "active"} /\ sup' = [sup EXCEPT ![i] = "exit"]
        /\ onOwners' = onOwners \ {p}
        /\ UNCHANGED <<preUsage, preOwners>>
    BY <1>8 DEF SupEnterFails, SupDone, On!Release, prePool, p
  <2>2. PreSlots'
    BY <1>1, <2>1 DEF TypeOK
  <2>3. OnSlots'
    BY <1>1, <1>3, <1>4, <2>1 DEF TypeOK, p
  <2>4. Counted'
    BY <1>3, <1>8, <2>1, PoolsCounted DEF SupEnterFails, SupDone, Counted, p
  <2> QED
    BY <2>2, <2>3, <2>4
<1> QED
  BY <1>5, <1>6, <1>7, <1>8 DEF SupStep

(* Every step keeps pools and supervisors in agreement.                    *)
LEMMA SlotsNext == TypeOK /\ Tables /\ Slots /\ [Next]_vars => Slots'
<1> SUFFICES ASSUME TypeOK, Tables, Slots, [Next]_vars
             PROVE  Slots'
  OBVIOUS
<1>1. ASSUME NEW u \in Uids, Add(u) \/ Remove(u)
      PROVE  Slots'
  BY <1>1, SlotsFrame DEF Add, Remove, prePool, onPool, ids
<1>2. ASSUME NEW pre \in Limits, NEW on \in Limits, UpdatePreLimit(pre, on)
      PROVE  Slots'
  BY <1>2, SlotsFrame DEF UpdatePreLimit, Pre!UpdateLimit, prePool, onPool, ids
<1>3. CASE UpdateLimitsStep
  <2>1. UNCHANGED <<preUsage, preOwners, onUsage, onOwners, sup, ipid>>
    BY <1>3 DEF UpdateLimitsStep, ClosePreExcess, UpdateOnLimit, CloseOnExcess,
       UpdateLimitsPanics, On!UpdateLimit, prePool, onPool, ids
  <2> QED
    BY <2>1, SlotsFrame
<1>4. CASE MainLaunch
  <2>1. PICK p \in due, i \in Insts :
          /\ sup[i] = "none"
          /\ Pre!Grant(p)
          /\ ipid' = [ipid EXCEPT ![i] = p]
          /\ sup' = [sup EXCEPT ![i] = "select"]
    BY <1>4 DEF MainLaunch
  <2>2. p \in Pids
    BY DEF TypeOK
  <2>3. UNCHANGED <<onUsage, onOwners>> /\ preOwners' = preOwners \union {p}
    BY <1>4, <2>1 DEF MainLaunch, Pre!Grant, onPool
  <2>4. PreSlots' /\ OnSlots'
    BY <2>1, <2>3 DEF TypeOK, Slots, PreSlots, OnSlots, PreflightPhases, OnflightPhases
  <2>5. Counted'
    BY <2>1, <2>2, <2>3, PoolsCounted DEF Slots, Counted
  <2> QED
    BY <2>4, <2>5 DEF Slots
<1>5. CASE MainWaitPre \/ MainWaitOn \/ MainAwaitSignal \/ MainArmTimer \/ MainRetry
           \/ MainLaunchFails \/ MainSignalled \/ MainTimerFires
  <2>1. UNCHANGED <<preUsage, preOwners, onUsage, onOwners, sup, ipid>>
    BY <1>5 DEF MainWaitPre, MainWaitOn, MainAwaitSignal, MainArmTimer, MainRetry,
       MainLaunchFails, MainSignalled, MainTimerFires, Pre!Park, Pre!Pass, Pre!Refuse,
       Pre!pool, On!Park, On!Pass, On!pool, prePool, onPool, ids
  <2> QED
    BY <2>1, SlotsFrame
<1>6. ASSUME NEW p \in Pids, Expire(p)
      PROVE  Slots'
  BY <1>6, SlotsFrame DEF Expire, prePool, onPool, ids
<1>7. ASSUME NEW i \in Insts, SupStep(i)
      PROVE  Slots'
  BY <1>7, SlotsSupStep
<1>8. ASSUME NEW i \in Insts, HandleExit(i)
      PROVE  Slots'
  BY <1>8, SlotsFrame
     DEF HandleExit, Authoritative, Reschedule, ReleasePid, Forget, TypeOK, prePool, onPool, ids, child, PreflightPhases, OnflightPhases
<1>9. ASSUME NEW i \in Insts, ChildReady(i) \/ ChildExits(i)
      PROVE  Slots'
  BY <1>9, SlotsFrame DEF ChildReady, ChildExits, Forget, TypeOK, prePool, onPool, ids, child,
     PreflightPhases, OnflightPhases
<1>10. CASE UNCHANGED vars
  BY <1>10, SlotsFrame DEF vars, prePool, onPool, ids
<1> QED
  BY <1>1, <1>2, <1>3, <1>4, <1>5, <1>6, <1>7, <1>8, <1>9, <1>10 DEF Next, MainStep

-----------------------------------------------------------------------------
(* Wake-ups of the main loop *)

(* It starts awake.                                                        *)
LEMMA WakeupInit == Init => NoLostWakeup
  BY DEF Init, Pre!Init, On!Init, NoLostWakeup

(* Whoever creates work or capacity wakes the main loop in the same step.  *)
LEMMA WakeupNext == TypeOK /\ NoLostWakeup /\ [Next]_vars => NoLostWakeup'
<1> SUFFICES ASSUME TypeOK, NoLostWakeup, [Next]_vars
             PROVE  NoLostWakeup'
  OBVIOUS
<1> USE DEF TypeOK, NoLostWakeup, Pre!HasSlot, On!HasSlot
<1>1. ASSUME NEW u \in Uids, Add(u)
      PROVE  NoLostWakeup'
  BY <1>1 DEF Add, FreePids, Schedule, Wake, loop, prePool, onPool
<1>2. ASSUME NEW u \in Uids, Remove(u)
      PROVE  NoLostWakeup'
  BY <1>2 DEF Remove, Descheduled, loop, prePool, onPool
<1>3. ASSUME NEW pre \in Limits, NEW on \in Limits, UpdatePreLimit(pre, on)
      PROVE  NoLostWakeup'
  BY <1>3 DEF UpdatePreLimit, Pre!UpdateLimit, queue, loop, prePool, onPool
<1>4. CASE UpdateOnLimit
  <2>1. CASE lim.on # onMax
    BY <1>4, <2>1 DEF UpdateOnLimit, On!UpdateLimit, loop, prePool
  <2>2. CASE lim.on = onMax
    BY <1>4, <2>2 DEF UpdateOnLimit, Wake, loop, prePool, onPool
  <2> QED
    BY <2>1, <2>2
<1>5. CASE ClosePreExcess \/ UpdateLimitsPanics
  BY <1>5 DEF ClosePreExcess, UpdateLimitsPanics, queue, loop, prePool, onPool
<1>6. CASE CloseOnExcess
  BY <1>6 DEF CloseOnExcess, Wake, loop, prePool, onPool
<1>7. CASE MainWaitPre
  BY <1>7 DEF MainWaitPre, Pre!Park, Pre!Pass, Pre!pool, queue, onPool
<1>8. CASE MainWaitOn
  BY <1>8 DEF MainWaitOn, On!Park, On!Pass, On!pool, queue, prePool
<1>9. CASE MainAwaitSignal \/ MainArmTimer
  BY <1>9 DEF MainAwaitSignal, MainArmTimer, queue, prePool, onPool
<1>10. CASE MainRetry
  BY <1>10 DEF MainRetry, Pre!Refuse, Pre!pool, queue, onPool
<1>11. CASE MainLaunch
  BY <1>11 DEF MainLaunch, Pre!Grant, Descheduled, onPool
<1>12. CASE MainLaunchFails
  BY <1>12 DEF MainLaunchFails, Reschedule, Schedule, Wake, prePool, onPool
<1>13. CASE MainSignalled \/ MainTimerFires
  BY <1>13 DEF MainSignalled, MainTimerFires, queue, prePool, onPool
<1>14. ASSUME NEW p \in Pids, Expire(p)
       PROVE  NoLostWakeup'
  BY <1>14 DEF Expire, loop, prePool, onPool
<1>15. ASSUME NEW i \in Insts, SupStep(i)
       PROVE  NoLostWakeup'
  <2>1. UNCHANGED <<pc, armed, sched, due, sig>>
    BY <1>15 DEF SupStep, SupPromote, SupStrand, SupLeavePreflight, SupDiedEarly, SupEnters,
       SupEnterFails, SupDone, loop, queue
  <2>2. \/ UNCHANGED <<preMax, preUsage, preWaiting>>
        \/ preWaiting' = {}
    BY <1>15 DEF SupStep, SupPromote, SupStrand, SupLeavePreflight, SupDiedEarly, SupEnters,
       SupEnterFails, SupDone, Pre!Release, Pre!Signal, prePool
  <2>3. \/ UNCHANGED <<onMax, onUsage, onWaiting>>
        \/ onWaiting' = {}
        \/ On!HasSlot /\ UNCHANGED onWaiting
    BY <1>15 DEF SupStep, SupPromote, SupStrand, SupLeavePreflight, SupDiedEarly, SupEnters,
       SupEnterFails, SupDone, On!Grant, On!Refuse, On!pool, On!Release, On!Signal, onPool
  <2> QED
    BY <2>1, <2>2, <2>3
<1>16. ASSUME NEW i \in Insts, HandleExit(i)
       PROVE  NoLostWakeup'
  BY <1>16 DEF HandleExit, Authoritative, Reschedule, ReleasePid, Schedule, Wake, queue, loop, prePool, onPool
<1>17. ASSUME NEW i \in Insts, ChildReady(i) \/ ChildExits(i)
       PROVE  NoLostWakeup'
  BY <1>17 DEF ChildReady, ChildExits, queue, loop, prePool, onPool
<1>18. CASE UNCHANGED vars
  BY <1>18 DEF vars, queue, loop, prePool, onPool
<1> QED
  BY <1>1, <1>2, <1>3, <1>4, <1>5, <1>6, <1>7, <1>8, <1>9, <1>10, <1>11, <1>12, <1>13,
     <1>14, <1>15, <1>16, <1>17, <1>18 DEF Next, MainStep, UpdateLimitsStep

-----------------------------------------------------------------------------
(* The theorems *)

IInv == TypeOK /\ Tables /\ Slots /\ NoLostWakeup

(* The four parts together are inductive.                                  *)
LEMMA IInvInductive == Spec => []IInv
<1>1. Init => IInv
  BY TypeInit, TablesInit, SlotsInit, WakeupInit DEF IInv
<1>2. IInv /\ [Next]_vars => IInv'
  BY TypeNext, TablesNext, SlotsNext, WakeupNext DEF IInv
<1> QED
  BY <1>1, <1>2, PTL DEF Spec

(* Both ownership tables hold exactly the PIDs of the supervisors that     *)
(* still owe a release, and both counters count them: no slot leaks on any *)
(* path through superviseInstance, whatever UpdateLimits does meanwhile.   *)
THEOREM SlotsNeverLeak == Spec => []SlotsMatchSupervisors
<1>1. IInv => SlotsMatchSupervisors
  <2> SUFFICES ASSUME IInv
               PROVE  SlotsMatchSupervisors
    OBVIOUS
  <2> USE DEF IInv, TypeOK, Slots, PreflightPhases, OnflightPhases
  <2>1. preOwners = {ipid[i] : i \in {j \in Insts : sup[j] \in PreflightPhases}}
    BY DEF PreSlots
  <2>2. onOwners = {ipid[i] : i \in {j \in Insts : sup[j] \in OnflightPhases}}
    BY DEF OnSlots
  <2> QED
    BY <2>1, <2>2 DEF SlotsMatchSupervisors, Counted
<1> QED
  BY IInvInductive, <1>1, PTL

(* No goroutine ever reaches a panic of slotPool.                          *)
THEOREM SlotPoolNeverPanics == Spec => []NoSlotPanic
<1>1. IInv => NoSlotPanic
  <2> SUFFICES ASSUME IInv
               PROVE  NoSlotPanic
    OBVIOUS
  <2> USE DEF IInv, TypeOK, Slots, Supervises, PreflightPhases, OnflightPhases
  <2>1. \A p \in sched : ~Pre!DoubleAcquire(p)
    BY DEF PreSlots, Tables, ScheduledIsLaunchable, Pre!DoubleAcquire
  <2>2. ASSUME NEW i \in Insts
        PROVE  /\ sup[i] \in PreflightPhases => ~Pre!ForeignRelease(ipid[i])
               /\ sup[i] \in OnflightPhases => ~On!ForeignRelease(ipid[i])
    BY DEF PreSlots, OnSlots, Pre!ForeignRelease, On!ForeignRelease
  <2>3. ASSUME NEW i \in Insts, sup[i] = "select"
        PROVE  ~On!DoubleAcquire(ipid[i])
    BY <2>3 DEF OnSlots, Tables, OneSupervisorPerPid, On!DoubleAcquire
  <2> QED
    BY <2>1, <2>2, <2>3 DEF NoSlotPanic
<1> QED
  BY IInvInductive, <1>1, PTL

(* Both: slots are held by those who owe them, and no panic is reached.    *)
THEOREM SlotsNeverMisused == Spec => []SlotsHeldRightly
<1>1. SlotsMatchSupervisors /\ NoSlotPanic => SlotsHeldRightly
  BY Zenon DEF SlotsHeldRightly, SlotsMatchSupervisors, NoSlotPanic
<1> QED
  BY SlotsNeverLeak, SlotPoolNeverPanics, <1>1, PTL

(* The main loop only ever launches a PID that has a spec, is its unit's   *)
(* PID and has no supervisor.                                              *)
THEOREM LaunchesAreSound == Spec => []ScheduledIsLaunchable
<1>1. IInv => ScheduledIsLaunchable
  BY DEF IInv, Tables
<1> QED
  BY IInvInductive, <1>1, PTL

(* A registered unit is always scheduled or supervised.                    *)
THEOREM UnitsNeverForgotten == Spec => []UnitsAccountedFor
<1>1. IInv => UnitsAccountedFor
  BY DEF IInv, Tables
<1> QED
  BY IInvInductive, <1>1, PTL

(* A process that nobody asked to close is supervised, recorded in ps, and *)
(* its PID is still its unit's.                                            *)
THEOREM NoOrphans == Spec => []NoOrphanProcess
<1>1. IInv => NoOrphanProcess
  BY DEF IInv, Tables
<1> QED
  BY IInvInductive, <1>1, PTL

(* The three together: nothing is launched twice, forgotten or orphaned.   *)
THEOREM UnitsInOneHand == Spec => []UnitsSharedOut
<1>1. IInv => UnitsSharedOut
  BY DEF IInv, Tables, UnitsSharedOut
<1> QED
  BY IInvInductive, <1>1, PTL

(* The allocator never hands out a PID that a unit or a supervisor has.    *)
THEOREM PidsNeverShared == Spec => []PidsExclusive
<1>1. IInv => PidsExclusive
  BY DEF IInv, Tables, UnitsMatchSpecs, SupervisedInUse, OneSupervisorPerPid, PidsExclusive
<1> QED
  BY IInvInductive, <1>1, PTL

(* The main loop never sleeps through work it could do.                    *)
THEOREM MainLoopNeverOversleeps == Spec => []NoLostWakeup
<1>1. IInv => NoLostWakeup
  BY DEF IInv
<1> QED
  BY IInvInductive, <1>1, PTL

-----------------------------------------------------------------------------
(* What exceeds a limit *)

\* A supervised process that nobody closed is still where UpdateLimits looks.
StayersInPs == \A i \in Insts : sup[i] # "none" /\ ~closing[i] => ps[ipid[i]] = i

\* Between its parts UpdateLimits counts against the capacity it has just set.
LimitInForce ==
  /\ lim.at = "closePre" => preMax = Pre!Clamp(lim.pre)
  /\ lim.at = "closeOn" => onMax = On!Clamp(lim.on)

Cuts == StayersInPs /\ LimitInForce

\* No supervisor comes, no request to close is taken back.
NobodyStays ==
  \A i \in Insts : sup'[i] # "none" /\ ~closing'[i] =>
    sup[i] # "none" /\ ~closing[i] /\ ipid'[i] = ipid[i]

(* All but a launch leave the supervisors as they are or fewer, and ps too *)
(* except for the PIDs of those who go or are asked to close.              *)
LEMMA StayersFrame ==
  ASSUME TypeOK, Tables, [Next]_vars, ~MainLaunch
  PROVE  /\ NobodyStays
         /\ StayersInPs => StayersInPs'
<1> USE DEF TypeOK, NobodyStays, StayersInPs
<1>1. ASSUME UNCHANGED <<ps, ipid>>,
             \A i \in Insts : /\ sup'[i] # "none" => sup[i] # "none"
                              /\ closing[i] /\ sup'[i] # "none" => closing'[i]
      PROVE  NobodyStays /\ (StayersInPs => StayersInPs')
  BY <1>1
<1>2. ASSUME NEW u \in Uids, Add(u)
      PROVE  NobodyStays /\ (StayersInPs => StayersInPs')
  BY <1>2, <1>1 DEF Add, ids, child
<1>3. ASSUME NEW u \in Uids, Remove(u)
      PROVE  NobodyStays /\ (StayersInPs => StayersInPs')
  <2> DEFINE p == units[u]
  <2>1. /\ p \in Pids /\ ps' = [ps EXCEPT ![p] = None] /\ UNCHANGED <<sup, ipid>>
        /\ \A i \in Insts : closing'[i] = (closing[i] \/ ps[p] = i)
    BY <1>3 DEF Remove, CloseAll, Running, ids
  <2> HIDE DEF p
  <2>2. \A i \in Insts : ~closing'[i] => ~closing[i] /\ ps[p] # i
    BY <2>1
  <2>3. \A q \in Pids : q # p => ps'[q] = ps[q]
    BY <2>1
  <2>4. NobodyStays
    BY <2>1, <2>2
  <2>5. ASSUME StayersInPs, NEW i \in Insts, sup'[i] # "none", ~closing'[i]
        PROVE  ps'[ipid'[i]] = i
    <3>1. sup[i] # "none" /\ ~closing[i] /\ ps[p] # i /\ ipid[i] \in Pids
      BY <2>1, <2>2, <2>5
    <3>2. ps[ipid[i]] = i /\ ipid[i] # p
      BY <2>5, <3>1
    <3> QED
      BY <2>1, <2>3, <3>1, <3>2
  <2> QED
    BY <2>4, <2>5
<1>4. ASSUME NEW pre \in Limits, NEW on \in Limits, UpdatePreLimit(pre, on)
      PROVE  NobodyStays /\ (StayersInPs => StayersInPs')
  BY <1>4, <1>1 DEF UpdatePreLimit, tables, ids, child
<1>5. CASE UpdateLimitsStep
  <2>1. /\ UNCHANGED <<ps, ipid, sup>>
        /\ \A i \in Insts : closing[i] => closing'[i]
    BY <1>5 DEF UpdateLimitsStep, ClosePreExcess, UpdateOnLimit, CloseOnExcess,
       UpdateLimitsPanics, CloseAll, tables, ids, child
  <2> QED
    BY <1>1, <2>1
<1>6. CASE MainWaitPre \/ MainWaitOn \/ MainAwaitSignal \/ MainArmTimer \/ MainRetry
           \/ MainLaunchFails \/ MainSignalled \/ MainTimerFires
  BY <1>6, <1>1 DEF MainWaitPre, MainWaitOn, MainAwaitSignal, MainArmTimer, MainRetry,
     MainLaunchFails, MainSignalled, MainTimerFires, tables, ids, child
<1>7. ASSUME NEW p \in Pids, Expire(p)
      PROVE  NobodyStays /\ (StayersInPs => StayersInPs')
  BY <1>7, <1>1 DEF Expire, tables, ids, child
<1>8. ASSUME NEW i \in Insts, SupStep(i)
      PROVE  NobodyStays /\ (StayersInPs => StayersInPs')
  <2>1. /\ UNCHANGED <<ps, ipid>>
        /\ \A j \in Insts : sup'[j] # "none" => sup[j] # "none"
        /\ \A j \in Insts : closing[j] => closing'[j]
    BY <1>8 DEF SupStep, SupPromote, SupStrand, SupLeavePreflight, SupDiedEarly, SupEnters,
       SupEnterFails, SupDone, CloseAll, tables, ids, child
  <2> QED
    BY <1>1, <2>1
<1>9. ASSUME NEW i \in Insts, HandleExit(i)
      PROVE  NobodyStays /\ (StayersInPs => StayersInPs')
  <2> DEFINE p == ipid[i]
  <2>1. /\ sup[i] # "none" /\ p \in Pids
        /\ ps' = [ps EXCEPT ![p] = None] /\ sup' = [sup EXCEPT ![i] = "none"]
    BY <1>9 DEF HandleExit
  <2>2. \A j \in Insts \ {i} : closing'[j] = closing[j] /\ ipid'[j] = ipid[j]
    BY <1>9 DEF HandleExit, Forget, ids, child
  <2>3. \A j \in Insts \ {i} : sup[j] # "none" => ipid[j] # p
    BY <2>1 DEF Tables, OneSupervisorPerPid, Supervises
  <2> HIDE DEF p
  <2> QED
    BY <2>1, <2>2, <2>3
<1>10. ASSUME NEW i \in Insts, ChildReady(i) \/ ChildExits(i)
       PROVE  NobodyStays /\ (StayersInPs => StayersInPs')
  <2>1. /\ UNCHANGED <<ps, sup>>
        /\ \A j \in Insts : sup[j] # "none" => closing'[j] = closing[j] /\ ipid'[j] = ipid[j]
    BY <1>10 DEF ChildReady, ChildExits, Forget, tables, ids
  <2> QED
    BY <2>1
<1>11. CASE UNCHANGED vars
  BY <1>11, <1>1 DEF vars, tables, ids, child
<1> QED
  BY <1>2, <1>3, <1>4, <1>5, <1>6, <1>7, <1>8, <1>9, <1>10, <1>11 DEF Next, MainStep

(* What a launch adds.                                                     *)
LEMMA LaunchAdds ==
  ASSUME TypeOK, Tables, MainLaunch
  PROVE  \E p \in sched, i \in Insts :
           /\ Pre!Grant(p) /\ UNCHANGED <<onOwners, onMax>>
           /\ ps' = [ps EXCEPT ![p] = i]
           /\ ipid' = [ipid EXCEPT ![i] = p]
           /\ sup' = [sup EXCEPT ![i] = "select"]
           /\ UNCHANGED <<lim, closing>>
           /\ \A j \in Insts : sup[j] # "none" => ipid[j] # p
<1>1. PICK p \in due, i \in Insts :
        /\ Pre!Grant(p)
        /\ ps' = [ps EXCEPT ![p] = i]
        /\ ipid' = [ipid EXCEPT ![i] = p]
        /\ sup' = [sup EXCEPT ![i] = "select"]
  BY DEF MainLaunch
<1>2. UNCHANGED <<onOwners, onMax, lim, closing>>
  BY DEF MainLaunch, onPool
<1>3. p \in sched /\ \A j \in Insts : sup[j] # "none" => ipid[j] # p
  BY DEF TypeOK, Tables, ScheduledIsLaunchable, Supervises
<1> QED
  BY <1>1, <1>2, <1>3

(* UpdateLimits is where UpdateLimits left it, and it owns both capacities.*)
LEMMA CutsInductive == TypeOK /\ Tables /\ Cuts /\ [Next]_vars => Cuts'
<1> SUFFICES ASSUME TypeOK, Tables, Cuts, [Next]_vars
             PROVE  Cuts'
  OBVIOUS
<1>1. StayersInPs'
  <2>1. CASE MainLaunch
    <3>1. PICK p \in sched, i \in Insts :
            /\ ps' = [ps EXCEPT ![p] = i]
            /\ ipid' = [ipid EXCEPT ![i] = p]
            /\ sup' = [sup EXCEPT ![i] = "select"]
            /\ UNCHANGED closing
            /\ \A j \in Insts : sup[j] # "none" => ipid[j] # p
      BY <2>1, LaunchAdds
    <3> QED
      BY <3>1 DEF TypeOK, Cuts, StayersInPs
  <2> QED
    BY <2>1, StayersFrame DEF Cuts
<1>2. LimitInForce'
  <2> USE DEF Cuts, LimitInForce, Idle
  <2>1. ASSUME UNCHANGED <<lim, preMax, onMax>>
        PROVE  LimitInForce'
    BY <2>1 DEF Pre!Clamp, On!Clamp
  <2>2. ASSUME NEW pre \in Limits, NEW on \in Limits, UpdatePreLimit(pre, on)
        PROVE  LimitInForce'
    BY <2>2 DEF UpdatePreLimit, Pre!UpdateLimit, Pre!Clamp, On!Clamp
  <2>3. CASE UpdateLimitsStep
    <3>1. CASE ClosePreExcess
      BY <3>1 DEF ClosePreExcess, TypeOK
    <3>2. CASE UpdateOnLimit
      BY <3>2 DEF UpdateOnLimit, On!UpdateLimit, On!Clamp, TypeOK
    <3>3. CASE CloseOnExcess \/ UpdateLimitsPanics
      BY <3>3 DEF CloseOnExcess, UpdateLimitsPanics
    <3> QED
      BY <2>3, <3>1, <3>2, <3>3 DEF UpdateLimitsStep
  <2>4. CASE MainStep
    BY <2>4, <2>1 DEF MainStep, MainWaitPre, MainWaitOn, MainAwaitSignal, MainArmTimer, MainRetry,
       MainLaunch, MainLaunchFails, MainSignalled, MainTimerFires, prePool, onPool,
       Pre!Grant, Pre!Park, Pre!Pass, Pre!Refuse, Pre!pool, On!Park, On!Pass, On!pool
  <2>5. ASSUME NEW i \in Insts, SupStep(i)
        PROVE  LimitInForce'
    BY <2>5, <2>1 DEF SupStep, SupPromote, SupStrand, SupLeavePreflight, SupDiedEarly, SupEnters,
       SupEnterFails, SupDone, prePool, onPool, On!Grant, On!Refuse, On!pool, On!Release, Pre!Release
  <2>6. ASSUME NEW u \in Uids, Add(u) \/ Remove(u)
        PROVE  LimitInForce'
    BY <2>6, <2>1 DEF Add, Remove, prePool, onPool
  <2>7. ASSUME NEW p \in Pids, Expire(p)
        PROVE  LimitInForce'
    BY <2>7, <2>1 DEF Expire, prePool, onPool
  <2>8. ASSUME NEW i \in Insts, HandleExit(i) \/ ChildReady(i) \/ ChildExits(i)
        PROVE  LimitInForce'
    BY <2>8, <2>1 DEF HandleExit, ChildReady, ChildExits, prePool, onPool
  <2>9. CASE UNCHANGED vars
    BY <2>9, <2>1 DEF vars, prePool, onPool
  <2> QED
    BY <2>2, <2>3, <2>4, <2>5, <2>6, <2>7, <2>8, <2>9 DEF Next
<1> QED
  BY <1>1, <1>2 DEF Cuts

(* Only a launch takes a preflight slot and only a promotion an onflight   *)
(* one, each while there is a free one.                                    *)
LEMMA OwnersGrow ==
  ASSUME TypeOK, Slots, [Next]_vars
  PROVE  /\ MainLaunch \/ preOwners' \subseteq preOwners
         /\ (\E i \in Insts : SupPromote(i)) \/ onOwners' \subseteq onOwners
<1>1. ASSUME UNCHANGED <<preOwners, onOwners>>
      PROVE  preOwners' \subseteq preOwners /\ onOwners' \subseteq onOwners
  BY <1>1
<1>2. ASSUME NEW u \in Uids, Add(u) \/ Remove(u)
      PROVE  UNCHANGED <<preOwners, onOwners>>
  BY <1>2 DEF Add, Remove, prePool, onPool
<1>3. ASSUME NEW pre \in Limits, NEW on \in Limits, UpdatePreLimit(pre, on)
      PROVE  UNCHANGED <<preOwners, onOwners>>
  BY <1>3 DEF UpdatePreLimit, Pre!UpdateLimit, prePool, onPool
<1>4. ASSUME UpdateLimitsStep
      PROVE  UNCHANGED <<preOwners, onOwners>>
  BY <1>4 DEF UpdateLimitsStep, ClosePreExcess, UpdateOnLimit, CloseOnExcess,
     UpdateLimitsPanics, On!UpdateLimit, prePool, onPool
<1>5. ASSUME MainStep
      PROVE  /\ UNCHANGED onOwners
             /\ MainLaunch \/ UNCHANGED preOwners
  BY <1>5 DEF MainStep, MainWaitPre, MainWaitOn, MainAwaitSignal, MainArmTimer, MainRetry,
     MainLaunch, MainLaunchFails, MainSignalled, MainTimerFires, prePool, onPool,
     Pre!Park, Pre!Pass, Pre!Refuse, Pre!pool, On!Park, On!Pass, On!pool
<1>6. ASSUME NEW i \in Insts, SupStep(i)
      PROVE  /\ preOwners' \subseteq preOwners
             /\ SupPromote(i) \/ onOwners' \subseteq onOwners
  BY <1>6 DEF SupStep, SupPromote, SupStrand, SupLeavePreflight, SupDiedEarly, SupEnters,
     SupEnterFails, SupDone, prePool, onPool, On!Refuse, On!pool, On!Release, Pre!Release
<1>7. ASSUME \/ \E p \in Pids : Expire(p)
             \/ \E i \in Insts : HandleExit(i) \/ ChildReady(i) \/ ChildExits(i)
             \/ UNCHANGED vars
      PROVE  UNCHANGED <<preOwners, onOwners>>
  BY <1>7 DEF Expire, HandleExit, ChildReady, ChildExits, vars, prePool, onPool
<1> QED
  BY <1>1, <1>2, <1>3, <1>4, <1>5, <1>6, <1>7 DEF Next

(* Sets of PIDs are finite, so a smaller set has no more of them.          *)
LEMMA FewerPids ==
  ASSUME NEW S \in SUBSET Pids, NEW T \in SUBSET S
  PROVE  Cardinality(T) \in Nat /\ Cardinality(S) \in Nat /\ Cardinality(T) <= Cardinality(S)
<1>1. IsFiniteSet(S) /\ IsFiniteSet(T)
  BY PidsAssumption, FS_Subset
<1> QED
  BY <1>1, FS_Subset, FS_CardinalityType

(* Closing the excess leaves as many owners as the limit allows.           *)
LEMMA ExcessCutsTo ==
  ASSUME NEW owners \in SUBSET Pids, NEW max \in Nat, NEW S \in Excess(owners, max)
  PROVE  Cardinality(owners \ S) <= max
<1> DEFINE surplus == Cardinality(owners) - max
<1>1. S \subseteq owners /\ Cardinality(S) = IF surplus > 0 THEN surplus ELSE 0
  BY DEF Excess
<1>2. IsFiniteSet(owners) /\ IsFiniteSet(S) /\ Cardinality(owners) \in Nat /\ Cardinality(S) \in Nat
  BY <1>1, PidsAssumption, FS_Subset, FS_CardinalityType
<1>3. Cardinality(owners \ S) = Cardinality(owners) - Cardinality(owners \intersect S)
  BY <1>2, FS_Difference
<1>4. owners \intersect S = S
  BY <1>1
<1>5. Cardinality(owners \ S) = Cardinality(owners) - Cardinality(S)
  BY <1>3, <1>4
<1> HIDE DEF surplus
<1>6. Cardinality(S) = IF surplus > 0 THEN surplus ELSE 0
  BY <1>1
<1>7. surplus = Cardinality(owners) - max
  BY DEF surplus
<1> QED
  BY <1>2, <1>5, <1>6, <1>7

(* Those asked to close are the processes of the owners that were picked.  *)
LEMMA PickedDoNotStay ==
  ASSUME TypeOK, StayersInPs, NEW S \in SUBSET Pids, CloseAll(UNION {Running(p) : p \in S}),
         UNCHANGED <<sup, ipid>>,
         NEW p \in S, NEW i \in Insts, Supervises(i, p)'
  PROVE  closing'[i]
<1>1. Supervises(i, p)
  BY DEF Supervises
<1>2. closing'[i] = (closing[i] \/ i \in UNION {Running(q) : q \in S})
  BY DEF CloseAll
<1>3. CASE closing[i]
  BY <1>2, <1>3
<1>4. CASE ~closing[i]
  <2>1. i \in Running(p)
    BY <1>1, <1>4 DEF StayersInPs, Supervises, Running
  <2>2. i \in UNION {Running(q) : q \in S}
    BY <2>1
  <2> QED
    BY <1>2, <2>2
<1> QED
  BY <1>3, <1>4

(* What stays of the owners is not more than before, while nobody comes    *)
(* and no slot is taken.                                                   *)
LEMMA StayingShrinks ==
  ASSUME TypeOK, NobodyStays
  PROVE  /\ preOwners' \subseteq preOwners /\ PreFits => PreFits' \/ preMax' # preMax
         /\ onOwners' \subseteq onOwners /\ OnFits => OnFits' \/ onMax' # onMax
<1>1. \A i \in Insts, p \in Pids :
        Supervises(i, p)' /\ ~closing'[i] => Supervises(i, p) /\ ~closing[i]
  BY DEF NobodyStays, Supervises
<1>2. ASSUME preOwners' \subseteq preOwners, PreFits, preMax' = preMax
      PROVE  PreFits'
  <2>1. Staying(preOwners)' \subseteq Staying(preOwners) /\ Staying(preOwners) \subseteq Pids
    BY <1>1, <1>2 DEF Staying, TypeOK
  <2>2. /\ Cardinality(Staying(preOwners)') \in Nat /\ Cardinality(Staying(preOwners)) \in Nat
        /\ Cardinality(Staying(preOwners)') <= Cardinality(Staying(preOwners))
    BY <2>1, FewerPids
  <2> QED
    BY <1>2, <2>2 DEF PreFits, TypeOK
<1>3. ASSUME onOwners' \subseteq onOwners, OnFits, onMax' = onMax
      PROVE  OnFits'
  <2>1. Staying(onOwners)' \subseteq Staying(onOwners) /\ Staying(onOwners) \subseteq Pids
    BY <1>1, <1>3 DEF Staying, TypeOK
  <2>2. /\ Cardinality(Staying(onOwners)') \in Nat /\ Cardinality(Staying(onOwners)) \in Nat
        /\ Cardinality(Staying(onOwners)') <= Cardinality(Staying(onOwners))
    BY <2>1, FewerPids
  <2> QED
    BY <1>3, <2>2 DEF OnFits, TypeOK
<1> QED
  BY <1>2, <1>3

ExcessStep ==
  /\ (PreFits \/ (lim.at = "closePre" /\ lim'.at = "on")) => (PreFits' \/ preMax' # preMax)
  /\ (OnFits \/ (lim.at = "closeOn" /\ lim.on >= 0 /\ lim'.at = "idle"))
       => (OnFits' \/ onMax' # onMax)

(* A slot is taken only below the capacity; all else can only make room.   *)
LEMMA FitsStay ==
  ASSUME TypeOK, Tables, Slots, Cuts, [Next]_vars
  PROVE  /\ PreFits => PreFits' \/ preMax' # preMax
         /\ OnFits => OnFits' \/ onMax' # onMax
<1>0. TypeOK'
  BY TypeNext
<1>1. CASE MainLaunch
  <2>1. PICK p \in sched, i \in Insts :
          /\ Pre!Grant(p) /\ UNCHANGED <<onOwners, onMax>>
          /\ ipid' = [ipid EXCEPT ![i] = p]
          /\ sup' = [sup EXCEPT ![i] = "select"]
          /\ UNCHANGED closing
          /\ \A j \in Insts : sup[j] # "none" => ipid[j] # p
    BY <1>1, LaunchAdds
  <2>2. PreFits'
    <3>1. p \in Pids /\ preUsage < preMax /\ p \notin preOwners
          /\ preOwners' = preOwners \union {p} /\ preMax' = preMax
      BY <2>1 DEF TypeOK, Pre!Grant, Pre!HasSlot, Pre!DoubleAcquire
    <3>2. preUsage = Cardinality(preOwners)
      BY DEF Slots, Counted
    <3>3. Cardinality(preOwners') = Cardinality(preOwners) + 1 /\ Cardinality(preOwners) \in Nat
      BY <3>1, OwnersCounted DEF TypeOK
    <3>4. preOwners' \subseteq Pids /\ Staying(preOwners)' \subseteq preOwners'
      BY <1>0 DEF Staying, TypeOK
    <3>5. /\ Cardinality(Staying(preOwners)') \in Nat
          /\ Cardinality(Staying(preOwners)') <= Cardinality(preOwners')
      BY <3>4, FewerPids
    <3> QED
      BY <3>1, <3>2, <3>3, <3>5 DEF PreFits, TypeOK
  <2>3. OnFits => OnFits'
    <3>1. p \notin onOwners
      BY <2>1 DEF TypeOK, Slots, OnSlots, OnflightPhases
    <3>2. Staying(onOwners)' \subseteq Staying(onOwners) /\ Staying(onOwners) \subseteq Pids
      BY <2>1, <3>1 DEF Staying, Supervises, TypeOK
    <3>3. /\ Cardinality(Staying(onOwners)') \in Nat /\ Cardinality(Staying(onOwners)) \in Nat
          /\ Cardinality(Staying(onOwners)') <= Cardinality(Staying(onOwners))
      BY <3>2, FewerPids
    <3> QED
      BY <2>1, <3>3 DEF OnFits, TypeOK
  <2> QED
    BY <2>2, <2>3
<1>2. ASSUME NEW i \in Insts, SupPromote(i)
      PROVE  OnFits'
  <2>1. /\ ipid[i] \in Pids /\ onUsage < onMax /\ ipid[i] \notin onOwners
        /\ onOwners' = onOwners \union {ipid[i]} /\ onMax' = onMax
    BY <1>2 DEF SupPromote, On!Grant, On!HasSlot, On!DoubleAcquire, TypeOK
  <2>2. onUsage = Cardinality(onOwners)
    BY DEF Slots, Counted
  <2>3. Cardinality(onOwners') = Cardinality(onOwners) + 1 /\ Cardinality(onOwners) \in Nat
    BY <2>1, OwnersCounted DEF TypeOK
  <2>4. onOwners' \subseteq Pids /\ Staying(onOwners)' \subseteq onOwners'
    BY <1>0 DEF Staying, TypeOK
  <2>5. /\ Cardinality(Staying(onOwners)') \in Nat
        /\ Cardinality(Staying(onOwners)') <= Cardinality(onOwners')
    BY <2>4, FewerPids
  <2> QED
    BY <2>1, <2>2, <2>3, <2>5 DEF OnFits, TypeOK
<1>3. CASE ~MainLaunch
  <2>1. NobodyStays
    BY <1>3, StayersFrame
  <2> QED
    BY <1>2, <1>3, <2>1, OwnersGrow, StayingShrinks
<1> QED
  BY <1>1, <1>3

(* The two parts of UpdateLimits that close processes close enough.        *)
LEMMA CutsFit ==
  ASSUME TypeOK, Cuts, [Next]_vars
  PROVE  /\ lim.at = "closePre" /\ lim'.at = "on" => PreFits'
         /\ lim.at = "closeOn" /\ lim.on >= 0 /\ lim'.at = "idle" => OnFits'
<1>1. ASSUME lim.at \in {"closePre", "closeOn"}, lim' # lim
      PROVE  ClosePreExcess \/ CloseOnExcess \/ UpdateLimitsPanics
  BY <1>1 DEF Next, Add, Remove, UpdatePreLimit, UpdateLimitsStep, UpdateOnLimit, MuFree,
     MainStep, MainWaitPre, MainWaitOn, MainAwaitSignal, MainArmTimer, MainRetry, MainLaunch,
     MainLaunchFails, MainSignalled, MainTimerFires, Expire, SupStep, SupPromote, SupStrand,
     SupLeavePreflight, SupDiedEarly, SupEnters, SupEnterFails, SupDone, HandleExit,
     ChildReady, ChildExits, vars
<1>2. ASSUME lim.at = "closePre", lim'.at = "on"
      PROVE  PreFits'
  <2>1. ClosePreExcess
    BY <1>1, <1>2 DEF CloseOnExcess, UpdateLimitsPanics, Idle
  <2>2. PICK S \in Excess(preOwners, lim.pre) : CloseAll(UNION {Running(p) : p \in S})
    BY <2>1 DEF ClosePreExcess
  <2>3. /\ lim.pre \in Nat /\ preMax = lim.pre /\ preOwners \subseteq Pids
        /\ UNCHANGED <<preOwners, preMax, sup, ipid>>
    BY <1>2, <2>1 DEF ClosePreExcess, Cuts, LimitInForce, Pre!Clamp, TypeOK, prePool, ids
  <2>4. S \in SUBSET Pids
    BY <2>2, <2>3 DEF Excess
  <2>5. Staying(preOwners)' \subseteq preOwners \ S
    BY <2>2, <2>3, <2>4, PickedDoNotStay DEF Staying, Cuts
  <2>6. Cardinality(preOwners \ S) <= lim.pre
    BY <2>2, <2>3, ExcessCutsTo
  <2>7. /\ Cardinality(Staying(preOwners)') \in Nat /\ Cardinality(preOwners \ S) \in Nat
        /\ Cardinality(Staying(preOwners)') <= Cardinality(preOwners \ S)
    BY <2>3, <2>5, FewerPids
  <2> QED
    BY <2>3, <2>6, <2>7 DEF PreFits
<1>3. ASSUME lim.at = "closeOn", lim.on >= 0, lim'.at = "idle"
      PROVE  OnFits'
  <2>1. CloseOnExcess
    BY <1>1, <1>3 DEF ClosePreExcess, UpdateLimitsPanics, TypeOK
  <2>2. PICK S \in Excess(onOwners, lim.on) : CloseAll(UNION {Running(p) : p \in S})
    BY <2>1 DEF CloseOnExcess
  <2>3. /\ lim.on \in Nat /\ onMax = lim.on /\ onOwners \subseteq Pids
        /\ UNCHANGED <<onOwners, onMax, sup, ipid>>
    BY <1>3, <2>1 DEF CloseOnExcess, Cuts, LimitInForce, On!Clamp, TypeOK, onPool, ids
  <2>4. S \in SUBSET Pids
    BY <2>2, <2>3 DEF Excess
  <2>5. Staying(onOwners)' \subseteq onOwners \ S
    BY <2>2, <2>3, <2>4, PickedDoNotStay DEF Staying, Cuts
  <2>6. Cardinality(onOwners \ S) <= lim.on
    BY <2>2, <2>3, ExcessCutsTo
  <2>7. /\ Cardinality(Staying(onOwners)') \in Nat /\ Cardinality(onOwners \ S) \in Nat
        /\ Cardinality(Staying(onOwners)') <= Cardinality(onOwners \ S)
    BY <2>3, <2>5, FewerPids
  <2> QED
    BY <2>3, <2>6, <2>7 DEF OnFits
<1> QED
  BY <1>2, <1>3

(* ExcessIsClosing: once UpdateLimits has been there, no more processes    *)
(* that nobody closed than the limit allows, until it changes again.       *)
THEOREM ExcessAlwaysCloses == Spec => ExcessIsClosing
<1>1. Init => Cuts
  BY DEF Init, Idle, Cuts, StayersInPs, LimitInForce
<1>2. IInv /\ Cuts /\ [Next]_vars => Cuts'
  BY CutsInductive DEF IInv
<1>3. IInv /\ Cuts /\ [Next]_vars => [ExcessStep]_vars
  BY FitsStay, CutsFit DEF IInv, ExcessStep
<1>4. Spec => [][ExcessStep]_vars
  BY IInvInductive, <1>1, <1>2, <1>3, PTL DEF Spec
<1> QED
  BY <1>4 DEF ExcessIsClosing, ExcessStep

-----------------------------------------------------------------------------
(* Refinement *)

\* The units of the abstract supervisor.
Registered == {u \in Uids : units[u] # None}

\* What the refinement needs to know of a process that serves somebody.
ServersKnown ==
  \A i \in Insts : Serving[i] # None =>
    /\ Supervises(i, ipid[i]) /\ ipid[i] \in Pids /\ iuid[i] \in Uids
    /\ ps[ipid[i]] = i /\ units[iuid[i]] = ipid[i]

(* A serving process is supervised, in ps, and serves its PID's unit.      *)
LEMMA ServersAreKnown == TypeOK /\ Tables => ServersKnown
  BY DEF TypeOK, Tables, NoOrphanProcess, SupervisorTyped, ServersKnown, Serving, Supervises

(* A step that leaves the units alone and starts nobody only loses servers.*)
LEMMA LosingServers ==
  ASSUME UNCHANGED units,
         \A i \in Insts : Serving'[i] \in {Serving[i], None}
  PROVE  Abstract!Next
<1> DEFINE S == {i \in Insts : Serving'[i] = None}
<1>1. Serving' = [i \in Insts |-> IF i \in S THEN None ELSE Serving[i]]
  BY DEF Serving
<1>2. UNCHANGED Registered
  BY DEF Registered
<1>3. Abstract!Lose(S)
  BY <1>1, <1>2 DEF Abstract!Lose, Registered
<1> QED
  BY <1>3 DEF Abstract!Next

(* In particular one that keeps every process's unit, revives none and     *)
(* withdraws no Close.                                                     *)
LEMMA NobodyStarts ==
  ASSUME UNCHANGED units,
         \A i \in Insts :
           proc'[i] = "alive" =>
             /\ proc[i] = "alive" /\ iuid'[i] = iuid[i]
             /\ closing[i] => closing'[i]
  PROVE  Abstract!Next
<1>1. \A i \in Insts : Serving'[i] \in {Serving[i], None}
  BY DEF Serving
<1> QED
  BY <1>1, LosingServers

(* Add registers the unit and starts nobody.                               *)
LEMMA AddRegisters ==
  ASSUME TypeOK, NEW u \in Uids, Add(u)
  PROVE  Abstract!Register(u)
<1>1. Registered' = Registered \union {u} /\ u \notin Registered
  BY NoneAssumption DEF Add, FreePids, TypeOK, Registered
<1>2. UNCHANGED Serving
  BY DEF Add, Serving, ids, child
<1> QED
  BY <1>1, <1>2 DEF Abstract!Register, Registered

(* Remove asks exactly the unit's process to close.                        *)
LEMMA RemoveUnregisters ==
  ASSUME TypeOK, Tables, NEW u \in Uids, Remove(u)
  PROVE  Abstract!Unregister(u)
<1> DEFINE p == units[u]
<1>1. p \in Pids /\ specs[p] = u
  BY DEF Remove, TypeOK, Tables, UnitsMatchSpecs
<1>2. Registered' = Registered \ {u} /\ u \in Registered
  BY DEF Remove, TypeOK, Registered
<1>3. ASSUME NEW i \in Insts
      PROVE  Serving'[i] = IF Serving[i] = u THEN None ELSE Serving[i]
  <2>1. /\ closing'[i] <=> closing[i] \/ ps[p] = i
        /\ proc'[i] = proc[i] /\ iuid'[i] = iuid[i]
    BY DEF Remove, CloseAll, Running, TypeOK, ids
  <2>2. CASE Serving[i] = None
    BY <2>1, <2>2 DEF Serving
  <2>3. CASE Serving[i] # None
    <3>1. /\ Serving[i] = iuid[i] /\ iuid[i] \in Uids
          /\ ps[ipid[i]] = i /\ units[iuid[i]] = ipid[i]
      BY <2>3, ServersAreKnown DEF ServersKnown, Serving
    <3>2. ps[p] = i => ipid[i] = p
      BY <1>1, NoneAssumption DEF Tables, PsIsSupervised, Supervises, TypeOK
    <3>3. ipid[i] = p => iuid[i] = u
      BY <1>1, <3>1, NoneAssumption DEF Tables, UnitsMatchSpecs
    <3>4. ps[p] = i <=> iuid[i] = u
      BY <3>1, <3>2, <3>3
    <3> QED
      BY <2>1, <2>3, <3>1, <3>4 DEF Serving
  <2> QED
    BY <2>2, <2>3
<1>4. Serving' = [i \in Insts |-> IF Serving[i] = u THEN None ELSE Serving[i]]
  BY <1>3 DEF Serving
<1> QED
  BY <1>2, <1>4 DEF Abstract!Unregister, Registered

(* A launch serves a registered unit that nobody serves.                   *)
LEMMA MainLaunchLaunches ==
  ASSUME TypeOK, Tables, MainLaunch
  PROVE  Abstract!Next
<1>1. PICK p \in due, i \in Insts :
        /\ proc[i] = "none" /\ sup[i] = "none"
        /\ ipid' = [ipid EXCEPT ![i] = p]
        /\ iuid' = [iuid EXCEPT ![i] = specs[p]]
        /\ proc' = [proc EXCEPT ![i] = "alive"]
  BY DEF MainLaunch
<1>2. UNCHANGED <<units, closing>>
  BY DEF MainLaunch
<1> DEFINE u == specs[p]
<1>3. /\ p \in Pids /\ u \in Uids /\ units[u] = p
      /\ \A j \in Insts : ~Supervises(j, p)
  BY DEF TypeOK, Tables, ScheduledIsLaunchable
<1>4. Serving[i] = None
  BY <1>1 DEF Serving
<1>5. \A j \in Insts : j # i => Serving'[j] = Serving[j]
  BY <1>1, <1>2 DEF Serving, TypeOK
<1>6. CASE closing[i]
  <2>1. Serving'[i] = None
    BY <1>2, <1>6 DEF Serving
  <2> QED
    BY <1>2, <1>5, <2>1, LosingServers
<1>7. CASE ~closing[i]
  <2>1. Serving'[i] = u
    BY <1>1, <1>2, <1>7 DEF Serving, TypeOK
  <2>2. Serving' = [Serving EXCEPT ![i] = u]
    BY <1>5, <2>1 DEF Serving
  <2>3. \A j \in Insts : Serving[j] # u
    BY <1>3, NoneAssumption, ServersAreKnown DEF ServersKnown, Serving
  <2>4. u \in Registered /\ UNCHANGED Registered
    BY <1>2, <1>3, NoneAssumption DEF Registered
  <2>5. Abstract!Launch(i, u)
    BY <1>4, <2>2, <2>3, <2>4 DEF Abstract!Launch, Registered
  <2> QED
    BY <1>3, <2>5 DEF Abstract!Next
<1> QED
  BY <1>6, <1>7

(* Every step of the manager is one of the abstract supervisor.            *)
LEMMA StepsImplement ==
  ASSUME TypeOK, Tables, [Next]_vars
  PROVE  Abstract!Next
<1> USE DEF TypeOK
<1>1. ASSUME NEW u \in Uids, Add(u) \/ Remove(u)
      PROVE  Abstract!Next
  BY <1>1, AddRegisters, RemoveUnregisters DEF Abstract!Next
<1>2. ASSUME NEW pre \in Limits, NEW on \in Limits, UpdatePreLimit(pre, on)
      PROVE  Abstract!Next
  BY <1>2, NobodyStarts DEF UpdatePreLimit, tables, ids, child
<1>3. CASE UpdateLimitsStep
  <2>1. /\ UNCHANGED <<tables, ids, proc>>
        /\ \A i \in Insts : closing[i] => closing'[i]
    BY <1>3 DEF UpdateLimitsStep, ClosePreExcess, UpdateOnLimit, CloseOnExcess,
       UpdateLimitsPanics, CloseAll, child
  <2> QED
    BY <2>1, NobodyStarts DEF tables, ids
<1>4. CASE MainLaunch
  BY <1>4, MainLaunchLaunches
<1>5. CASE MainWaitPre \/ MainWaitOn \/ MainAwaitSignal \/ MainArmTimer \/ MainRetry
           \/ MainLaunchFails \/ MainSignalled \/ MainTimerFires
  <2>1. UNCHANGED <<tables, ids, child>>
    BY <1>5 DEF MainWaitPre, MainWaitOn, MainAwaitSignal, MainArmTimer, MainRetry,
       MainLaunchFails, MainSignalled, MainTimerFires
  <2> QED
    BY <2>1, NobodyStarts DEF tables, ids, child
<1>6. ASSUME NEW p \in Pids, Expire(p)
      PROVE  Abstract!Next
  BY <1>6, NobodyStarts DEF Expire, tables, ids, child
<1>7. ASSUME NEW i \in Insts, SupStep(i)
      PROVE  Abstract!Next
  <2>1. UNCHANGED <<tables, ids, proc>>
    BY <1>7 DEF SupStep, SupPromote, SupStrand, SupLeavePreflight, SupDiedEarly, SupEnters,
       SupEnterFails, SupDone, child
  <2>2. \A j \in Insts : closing[j] => closing'[j]
    BY <1>7 DEF SupStep, SupPromote, SupStrand, SupLeavePreflight, SupDiedEarly, SupEnters,
       SupEnterFails, SupDone, CloseAll, child
  <2> QED
    BY <2>1, <2>2, NobodyStarts DEF tables, ids
<1>8. ASSUME NEW i \in Insts, HandleExit(i) \/ ChildReady(i) \/ ChildExits(i)
      PROVE  Abstract!Next
  <2>1. /\ UNCHANGED units
        /\ \A j \in Insts : proc'[j] = "alive" =>
             proc[j] = "alive" /\ iuid'[j] = iuid[j] /\ closing'[j] = closing[j]
    BY <1>8 DEF HandleExit, ChildReady, ChildExits, Forget, tables, ids, child
  <2> QED
    BY <2>1, NobodyStarts
<1>9. CASE UNCHANGED vars
  BY <1>9, NobodyStarts DEF vars, tables, ids, child
<1> QED
  BY <1>1, <1>2, <1>3, <1>4, <1>5, <1>6, <1>7, <1>8, <1>9 DEF Next, MainStep

(* PM2 implements the abstract supervisor: whatever the callers, the main  *)
(* loop and the superviseInstance goroutines do in whatever order, every   *)
(* process nobody asked to close serves a registered unit, alone, and      *)
(* Remove asks exactly the unit's process to close.                        *)
THEOREM SupervisorImplemented == Spec => ImplementsSupervisor
<1>1. Init => Abstract!Init
  BY DEF Init, Abstract!Init, Serving
<1>2. IInv /\ [Next]_vars => [Abstract!Next]_(Abstract!vars)
  BY StepsImplement DEF IInv
<1> QED
  BY IInvInductive, <1>1, <1>2, PTL DEF Spec, ImplementsSupervisor, Abstract!Spec

=============================================================================

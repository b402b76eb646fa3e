-------------------------- MODULE MCInfrastructure --------------------------
(***************************************************************************)
(* The parts of src/internal/infrastructure below the managers, and the    *)
(* cache of the host's addresses, for TLC in one run.  A behaviour is      *)
(* about one of them, chosen at the start; they share no state, and the    *)
(* others stay as they are made.                                           *)
(***************************************************************************)
EXTENDS SlotPoolClients, ObjectStore, DataStore, Process, Scheduler, LogBuffer, LocalAddr

VARIABLE part

Parts == {"pool", "objects", "data", "launches", "logs", "addrs", "child"}

MCLimits == {-1, 0, 1, 2, 3}  \* -1 is an argument the HTTP layer lets through

MCInit ==
  /\ part \in Parts
  /\ ClientsInit /\ (part # "pool" => maxCap = 1)
  /\ ObjectsInit /\ DataInit /\ SchedulerInit /\ LogsInit
  /\ AddrsInit /\ (part # "addrs" => ~bare)
  /\ ChildInit

Others(own) ==
  /\ part = own
  /\ UNCHANGED part
  /\ own # "pool" => UNCHANGED vars
  /\ own # "objects" => UNCHANGED objectVars
  /\ own # "data" => UNCHANGED dataVars
  /\ own # "launches" => UNCHANGED schedVars
  /\ own # "logs" => UNCHANGED logVars
  /\ own # "addrs" => UNCHANGED addrVars
  /\ own # "child" => UNCHANGED childVars

MCNext ==
  \/ Others("pool") /\ Next
  \/ Others("objects") /\ ObjectsNext
  \/ Others("data") /\ DataNext
  \/ Others("launches") /\ SchedulerNext
  \/ Others("logs") /\ LogsNext
  \/ Others("addrs") /\ AddrsNext
  \/ Others("child") /\ ChildNext

MCSpec ==
  /\ MCInit
  /\ [][MCNext]_<<part, vars, objectVars, dataVars, schedVars, logVars, addrVars,
            childVars>>
  /\ \A g \in Sleepers : WF_vars(part = "pool" /\ LoopStep(g))
  /\ AddrsFairness /\ ChildFairness

=============================================================================

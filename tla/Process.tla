------------------------------ MODULE Process ------------------------------
(***************************************************************************)
(* process.go: one supervised child process.  Its goroutines are           *)
(*   - the manager, which calls Start, Enter and Close;                    *)
(*   - two readers, which drain stdout and stderr until end of file or a   *)
(*     scanner failure;                                                    *)
(*   - supervise, which waits for both readers, then reaps the child while *)
(*     it holds p.mu;                                                      *)
(*   - a watcher, started when both pipes have ended;                      *)
(*   - the goroutine behind closeOnce, which sends SIGTERM, then SIGKILL.  *)
(* The child is a process group: a leader, which the server waits for, and *)
(* possibly descendants that inherited its pipes.                          *)
(*                                                                         *)
(* Abstracted: log lines, exit codes, and time - a timeout may fire at any *)
(* moment once it is armed, and does fire in the end.                      *)
(*                                                                         *)
(* Operators named after a mistake (SupDoesNotWait, ...) are faulty        *)
(* variants of the one that follows; no specification uses them, they show *)
(* which property notices the mistake.                                     *)
(***************************************************************************)

VARIABLES
  started,  \* "no", "yes" or "failed"
  leader,   \* "none", "running", "zombie" (exited, not waited for), "reaped"
  heirs,    \* a descendant in the child's group is alive
  held,     \* pipes whose write end somebody in the group still holds
  reading,  \* pipes whose reader goroutine still runs
  sup,      \* where supervise is
  watcher,  \* "none", "armed", "gone"
  closer,   \* where the goroutine of Close is, "none" until Close is called
  killed,   \* SIGKILL was sent to the group
  stdin,    \* p.stdin is open
  ready, done,  \* the two one-shot channels
  entered   \* what the last Enter returned: "none", "ok" or "error"

childVars == <<started, leader, heirs, held, reading, sup, watcher, closer, killed,
               stdin, ready, done, entered>>

group == <<leader, heirs, held>>
channels == <<ready, done>>

Pipes == {"stdout", "stderr"}
SupAt == {"none", "first", "grace", "second", "lock", "wait", "cleanup", "gone"}
CloserAt == {"none", "check", "term", "grace", "kill", "gone"}

ChildTypeOK ==
  /\ started \in {"no", "yes", "failed"}
  /\ leader \in {"none", "running", "zombie", "reaped"}
  /\ heirs \in BOOLEAN
  /\ held \subseteq Pipes /\ reading \subseteq Pipes
  /\ sup \in SupAt
  /\ watcher \in {"none", "armed", "gone"}
  /\ closer \in CloserAt
  /\ killed \in BOOLEAN /\ stdin \in BOOLEAN
  /\ ready \in BOOLEAN /\ done \in BOOLEAN
  /\ entered \in {"none", "ok", "error"}

ChildInit ==
  /\ started = "no" /\ leader = "none" /\ heirs = FALSE
  /\ held = {} /\ reading = {}
  /\ sup = "none" /\ watcher = "none" /\ closer = "none"
  /\ killed = FALSE /\ stdin = TRUE
  /\ ready = FALSE /\ done = FALSE /\ entered = "none"

\* p.mu is held by supervise from the reaping of the child to its last step.
MuFree == sup \notin {"wait", "cleanup"}

-----------------------------------------------------------------------------
(* The manager *)

StartFails ==
  /\ started = "no"
  /\ started' = "failed"
  /\ UNCHANGED <<group, reading, sup, watcher, closer, killed, stdin, channels, entered>>

Start ==
  /\ started = "no"
  /\ started' = "yes"
  /\ leader' = "running"
  /\ held' = Pipes /\ reading' = Pipes
  /\ sup' = "first"
  /\ UNCHANGED <<heirs, watcher, closer, killed, stdin, channels, entered>>

\* Enter is called once, after Ready.  TryLock never blocks; the write fails
\* when nobody is left to read it, and may fail before.
Enter ==
  /\ ready /\ entered = "none"
  /\ \/ entered' = "ok" /\ MuFree /\ ~done /\ stdin /\ leader = "running"
     \/ entered' = "error"
  /\ UNCHANGED <<started, group, reading, sup, watcher, closer, killed, stdin, channels>>

\* closeOnce: only the first call starts the goroutine.
CallClose ==
  /\ started = "yes"
  /\ closer' = IF closer = "none" THEN "check" ELSE closer
  /\ UNCHANGED <<started, group, reading, sup, watcher, killed, stdin, channels, entered>>

-----------------------------------------------------------------------------
(* The goroutine of Close *)

\* p.done is looked at once, before the first signal.
CloserChecks ==
  /\ closer = "check"
  /\ closer' = IF done THEN "gone" ELSE "term"
  /\ UNCHANGED <<started, group, reading, sup, watcher, killed, stdin, channels, entered>>

\* kill(-pid, SIGTERM); the group may ignore it, or exit at any later step.
CloserTerms ==
  /\ closer = "term"
  /\ closer' = "grace"
  /\ UNCHANGED <<started, group, reading, sup, watcher, killed, stdin, channels, entered>>

CloserSeesDone ==
  /\ closer = "grace" /\ done
  /\ closer' = "gone"
  /\ UNCHANGED <<started, group, reading, sup, watcher, killed, stdin, channels, entered>>

\* The three seconds are over, whether or not done has fired as well.
CloserGivesUp ==
  /\ closer = "grace"
  /\ closer' = "gone"
  /\ UNCHANGED <<started, group, reading, sup, watcher, killed, stdin, channels, entered>>
CloserTimesOut ==
  /\ closer = "grace"
  /\ closer' = "kill"
  /\ UNCHANGED <<started, group, reading, sup, watcher, killed, stdin, channels, entered>>

CloserKills ==
  /\ closer = "kill"
  /\ closer' = "gone"
  /\ killed' = TRUE
  /\ UNCHANGED <<started, group, reading, sup, watcher, stdin, channels, entered>>

CloserStep == CloserChecks \/ CloserTerms \/ CloserSeesDone \/ CloserKills

-----------------------------------------------------------------------------
(* Readers *)

\* handleStdout finds the readiness line.
ReadReadiness ==
  /\ "stdout" \in reading /\ ~ready
  /\ ready' = TRUE
  /\ UNCHANGED <<started, group, reading, sup, watcher, closer, killed, stdin, done, entered>>

\* End of file, once nobody holds the write end.
ReaderEnds(p) ==
  /\ p \in reading \ held
  /\ reading' = reading \ {p}
  /\ UNCHANGED <<started, group, sup, watcher, closer, killed, stdin, channels, entered>>

\* A line beyond 1 MiB, or a read error, stops the scanner early.
ReaderFails(p) ==
  /\ p \in reading \intersect held
  /\ reading' = reading \ {p}
  /\ UNCHANGED <<started, group, sup, watcher, closer, killed, stdin, channels, entered>>

-----------------------------------------------------------------------------
(* supervise and its watcher *)

SupFirstPipe ==
  /\ sup = "first" /\ reading # Pipes
  /\ sup' = "grace"
  /\ UNCHANGED <<started, group, reading, watcher, closer, killed, stdin, channels, entered>>

\* Both pipes are done: someone has to look after a child that lives on.
SupOnePipe ==
  /\ sup = "grace" /\ reading # Pipes
  /\ sup' = "lock"
  /\ watcher' = "armed"
  /\ UNCHANGED <<started, group, reading, closer, killed, stdin, channels, entered>>
SupBothPipes ==
  /\ sup = "grace" /\ reading = {}
  /\ sup' = "lock"
  /\ watcher' = "armed"
  /\ UNCHANGED <<started, group, reading, closer, killed, stdin, channels, entered>>

\* 50 ms without the second pipe: p.Close(), then wait for that pipe.
SupGraceNoClose ==
  /\ sup = "grace"
  /\ sup' = "second"
  /\ UNCHANGED <<started, group, reading, watcher, closer, killed, stdin, channels, entered>>
SupGraceOver ==
  /\ sup = "grace"
  /\ sup' = "second"
  /\ closer' = IF closer = "none" THEN "check" ELSE closer
  /\ UNCHANGED <<started, group, reading, watcher, killed, stdin, channels, entered>>

SupSecondPipe ==
  /\ sup = "second" /\ reading = {}
  /\ sup' = "lock"
  /\ UNCHANGED <<started, group, reading, watcher, closer, killed, stdin, channels, entered>>

\* p.mu is free here: Enter holds it for a step at most.
SupLocks ==
  /\ sup = "lock"
  /\ sup' = "wait"
  /\ UNCHANGED <<started, group, reading, watcher, closer, killed, stdin, channels, entered>>

SupDoesNotWait ==
  /\ sup = "wait"
  /\ sup' = "cleanup"
  /\ UNCHANGED <<started, group, reading, watcher, closer, killed, stdin, channels, entered>>
SupReaps ==
  /\ sup = "wait" /\ leader = "zombie"
  /\ sup' = "cleanup"
  /\ leader' = "reaped"
  /\ UNCHANGED <<started, heirs, held, reading, watcher, closer, killed, stdin, channels, entered>>

SupFiresDone ==
  /\ sup = "cleanup"
  /\ sup' = "gone"
  /\ stdin' = FALSE /\ done' = TRUE
  /\ UNCHANGED <<started, group, reading, watcher, closer, killed, ready, entered>>

SupStep == SupFirstPipe \/ SupBothPipes \/ SupSecondPipe \/ SupLocks \/ SupReaps \/ SupFiresDone

WatcherSeesDone ==
  /\ watcher = "armed" /\ done
  /\ watcher' = "gone"
  /\ UNCHANGED <<started, group, reading, sup, closer, killed, stdin, channels, entered>>

\* 250 ms later: p.Close().
WatcherCloses ==
  /\ watcher = "armed"
  /\ watcher' = "gone"
  /\ closer' = IF closer = "none" THEN "check" ELSE closer
  /\ UNCHANGED <<started, group, reading, sup, killed, stdin, channels, entered>>

-----------------------------------------------------------------------------
(* The child's process group *)

Alive == leader = "running" \/ heirs

\* A descendant inherits whatever pipes are still open.
LeaderForks ==
  /\ leader = "running" /\ ~heirs /\ ~killed
  /\ heirs' = TRUE
  /\ UNCHANGED <<started, leader, held, reading, sup, watcher, closer, killed, stdin,
                 channels, entered>>

GroupClosesPipe(p) ==
  /\ Alive /\ p \in held
  /\ held' = held \ {p}
  /\ UNCHANGED <<started, leader, heirs, reading, sup, watcher, closer, killed, stdin,
                 channels, entered>>

LeaderExits ==
  /\ leader = "running"
  /\ leader' = "zombie"
  /\ held' = IF heirs THEN held ELSE {}
  /\ UNCHANGED <<started, heirs, reading, sup, watcher, closer, killed, stdin, channels, entered>>

HeirsExit ==
  /\ heirs
  /\ heirs' = FALSE
  /\ held' = IF leader = "running" THEN held ELSE {}
  /\ UNCHANGED <<started, leader, reading, sup, watcher, closer, killed, stdin, channels, entered>>

-----------------------------------------------------------------------------
ChildNext ==
  \/ StartFails \/ Start \/ Enter \/ CallClose
  \/ CloserStep \/ CloserTimesOut
  \/ ReadReadiness \/ \E p \in Pipes : ReaderEnds(p) \/ ReaderFails(p)
  \/ SupStep \/ SupGraceOver
  \/ WatcherSeesDone \/ WatcherCloses
  \/ LeaderForks \/ LeaderExits \/ HeirsExit \/ \E p \in Pipes : GroupClosesPipe(p)

ChildSpec == ChildInit /\ [][ChildNext]_childVars

\* Goroutines run on and timers fire; SIGKILL cannot be ignored.  Nothing is
\* assumed of a group that was not killed.
ChildFairness ==
  /\ WF_childVars(CloserStep) /\ WF_childVars(CloserTimesOut)
  /\ \A p \in Pipes : WF_childVars(ReaderEnds(p))
  /\ WF_childVars(SupStep) /\ WF_childVars(SupGraceOver)
  /\ WF_childVars(WatcherSeesDone) /\ WF_childVars(WatcherCloses)
  /\ WF_childVars(killed /\ LeaderExits) /\ WF_childVars(killed /\ HeirsExit)

ChildFairSpec == ChildSpec /\ ChildFairness

-----------------------------------------------------------------------------
(* Properties *)

(* Done means done: when the channel closes the child is reaped, nobody    *)
(* reads its pipes any more and stdin is closed - "Closed after the        *)
(* process is fully reaped" (process.go:47).                               *)
DoneMeansReaped == done => leader = "reaped" /\ reading = {} /\ ~stdin

(* Wait is only called once both pipes are drained: os/exec closes the     *)
(* pipes in Wait, so a reader still at work would lose output.             *)
ReapAfterDrain == sup \in {"wait", "cleanup", "gone"} => reading = {}

(* The end of a child is in order: output drained, child reaped, stdin     *)
(* closed, and only then done.                                             *)
EndsInOrder == DoneMeansReaped /\ ReapAfterDrain

(* Losing one pipe, for whatever reason, is fatal in the end: "Second pipe *)
(* failed to close within grace", "Pipes closed but process not fully      *)
(* terminated" (process.go:180, 186).                                      *)
LostPipeEnds == (started = "yes" /\ reading # Pipes) ~> done

Contract == INSTANCE ProcessContract WITH
  status <- IF done THEN "done" ELSE IF started = "yes" THEN "running"
            ELSE IF started = "failed" THEN "failed" ELSE "new",
  ready <- ready,
  closing <- closer # "none"

(* The implementation keeps the contract the managers rely on, liveness    *)
(* included: process.go implements ProcessContract.                        *)
ContractHolds == Contract!FairSpec

(* What the documentation says and the code does not keep (README,         *)
(* section 6).                                                             *)

(* "Close() is idempotent and concurrency-safe" (process.go:301): no       *)
(* signal is sent to the group of a child that was already reaped, whose   *)
(* number the kernel may have given to somebody else.                      *)
NoSignalAfterReap == closer \in {"term", "kill"} => leader # "reaped"

(* Close() "closes stdin to interrupt blocking reads in the child"         *)
(* (process.go:297) before it waits for the child to go.                   *)
CloseClosesStdin == closer \in {"grace", "kill"} => ~stdin

=============================================================================

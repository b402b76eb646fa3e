--------------------------- MODULE ProcessContract ---------------------------
(***************************************************************************)
(* What process.go promises the managers about one child process: it is    *)
(* started at most once, may become ready while it runs, ends once and for *)
(* good, and ends if it is asked to.  ProcessManager2 is built on exactly  *)
(* these steps; Process implements them.                                   *)
(***************************************************************************)
VARIABLES status,  \* "new", "failed", "running" or "done" (Done() has fired)
          ready,   \* Ready() has fired
          closing  \* Close() has been called

vars == <<status, ready, closing>>

Init == status = "new" /\ ready = FALSE /\ closing = FALSE

StartFails == status = "new" /\ status' = "failed" /\ UNCHANGED <<ready, closing>>
StartSucceeds == status = "new" /\ status' = "running" /\ UNCHANGED <<ready, closing>>

BecomesReady ==
  /\ status = "running"
  /\ ready' = TRUE
  /\ UNCHANGED <<status, closing>>

\* By a manager, or by the supervision of the pipes.
Close ==
  /\ status \in {"running", "done"}
  /\ closing' = TRUE
  /\ UNCHANGED <<status, ready>>

Ends ==
  /\ status = "running"
  /\ status' = "done"
  /\ UNCHANGED <<ready, closing>>

Next == StartFails \/ StartSucceeds \/ BecomesReady \/ Close \/ Ends

Spec == Init /\ [][Next]_vars

\* Nothing promises that a process ends by itself; Close ends it.
FairSpec == Spec /\ WF_vars(closing /\ Ends)

=============================================================================

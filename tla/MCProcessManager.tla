------------------------- MODULE MCProcessManager -------------------------
(* Instances of ProcessManager for TLC. *)
EXTENDS ProcessManager
=============================================================================

------------------------- MODULE MCProcessManager2 -------------------------
(* Instances of ProcessManager2 for TLC. *)
EXTENDS ProcessManager2, TLC

Symmetry == Permutations(Uids) \union Permutations(Pids) \union Permutations(Insts)

SomeLimits == -1..2
=============================================================================

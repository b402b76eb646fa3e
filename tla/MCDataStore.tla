---------------------------- MODULE MCDataStore ----------------------------
(* Instances of DataStore for TLC. *)
EXTENDS DataStore
=============================================================================

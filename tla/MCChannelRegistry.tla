------------------------- MODULE MCChannelRegistry -------------------------
(* Instances of ChannelRegistry for TLC. *)
EXTENDS ChannelRegistry, TLC

OnePlan == {[channels |-> 2, outputs |-> <<>>]}
=============================================================================

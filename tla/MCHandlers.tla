----------------------------- MODULE MCHandlers -----------------------------
(***************************************************************************)
(* Requests that overlap, for TLC in one run: the PATCHes of a client's    *)
(* channels in the steps of ChannelRegistry, or the bulk and client        *)
(* requests of ChannelHandlers.  A behaviour is about one of them, chosen  *)
(* at the start; they look at the same services, each at its own state.    *)
(***************************************************************************)
EXTENDS ChannelRegistry, ChannelHandlers

VARIABLE part

TwoPlans == {[channels |-> n, outputs |-> [r \in Refs |-> n]] : n \in {1, 2}}

MCInit ==
  /\ part \in {"registry", "handlers"}
  /\ Init /\ HandlersInit
  /\ part = "registry" => objects = <<>>

MCNext ==
  \/ part = "registry" /\ Next /\ UNCHANGED <<part, handlerVars>>
  \/ part = "handlers" /\ HandlersNext /\ UNCHANGED <<part, vars>>

MCSpec == MCInit /\ [][MCNext]_<<part, vars, handlerVars>>

=============================================================================

----------------------------- MODULE MCServices -----------------------------
(***************************************************************************)
(* What the HTTP handlers work with, for TLC in one run: the summary of    *)
(* all channels, the reports of the remuxers, the requests about a channel *)
(* and the command it is run with.  A behaviour is about one of them,      *)
(* chosen at the start; the others stay as they are made.                  *)
(***************************************************************************)
EXTENDS SummaryCache, ChannelRequests, Remux, RemuxCommand

VARIABLE part

Parts == {"summary", "requests", "remux", "command"}

MCStarts == {<<>>, <<"1", ":", "/", "/">>}
\* One percent-encoded character is enough: in a URL they are all alike.
MCUrlChars == {"1", ":", "/", "?", "@", "[", "]", "%2F"}

-----------------------------------------------------------------------------
(* Requests about a channel: two fields at a time, two outputs at a time.  *)

MCFields == ClientFields \union {"restart_sec"}
MCOutFields == {"ref", "url", "enabled"}

Texts == {"omitted", "null", "v", "bad"}
Bools == {"omitted", "null", "true", "false"}
TwoRefs == {"onprem_mr01", "own"}

FieldWs == {w \in [MCFields -> Texts \union Bools] :
  /\ \A f \in MCFields : w[f] \in IF f = "enabled" THEN Bools ELSE Texts
  /\ Cardinality({f \in MCFields : w[f] # "omitted"}) <= 2}
FullWs == {w \in [MCFields -> {"null", "v", "true", "false"}] :
  \A f \in MCFields : w[f] \in IF f = "enabled" THEN {"true", "false"}
                               ELSE IF f \in Nullable THEN {"null", "v"} ELSE {"v"}}

OutWs == [ref : TwoRefs \union {"omitted", "null"}, url : Texts, enabled : Bools]
SmallOutWs == {w \in OutWs : Cardinality({f \in MCOutFields : w[f] # "omitted"}) <= 1}
FullOutWs == [ref : TwoRefs, url : {"null", "v"}, enabled : {"true", "false"}]

UpTo(S, n) == UNION {[1..k -> S] : k \in 0..n}
ByRef(S) == UNION {[R -> S] : R \in SUBSET TwoRefs}

Nothing == [f \in MCFields |-> "omitted"]
Ids == {"omitted", "null", "v"}
MCCreates == [id : {"omitted"}, fields : FieldWs, outputs : {<<>>}] \union
             [id : {"omitted"}, fields : {Nothing}, outputs : UpTo(OutWs, 1)] \union
             [id : Ids, fields : {Nothing}, outputs : {<<>>}]
Everything == [f \in MCFields |-> IF f = "enabled" THEN "true" ELSE "v"]
MCReplaces == [id : {"omitted"}, fields : FullWs, outputs : {<<>>}] \union
              [id : {"omitted"}, fields : {Everything}, outputs : UpTo(FullOutWs, 2)] \union
              [id : Ids, fields : {Everything}, outputs : {<<>>}]
MCPatches ==
  [id : {"omitted"}, fields : FieldWs, form : {"omitted"}, outputs : {<<>>}] \union
  [id : {"omitted"}, fields : {Nothing}, form : {"array"}, outputs : UpTo(FullOutWs, 2)] \union
  [id : {"omitted"}, fields : {Nothing}, form : {"object"}, outputs : ByRef(SmallOutWs)] \union
  [id : Ids, fields : {Everything}, form : {"omitted"}, outputs : {<<>>}]

-----------------------------------------------------------------------------
MCInit ==
  /\ part \in Parts
  /\ Init /\ RequestsInit /\ CommandInit
  /\ part # "summary" => ~allowStale
  /\ part # "command" => inputURL = <<>>
  /\ IF part = "remux" THEN RemuxInit
     ELSE /\ keys = [k \in Keys |-> Nil]
          /\ step = "idle" /\ wanted = {} /\ online = <<>> /\ summary = <<>>
          /\ writes = 0 /\ held = {}

Others(own) ==
  /\ part = own
  /\ UNCHANGED part
  /\ own # "summary" => UNCHANGED vars
  /\ own # "requests" => UNCHANGED stored
  /\ own # "remux" => UNCHANGED remuxVars
  /\ own # "command" => UNCHANGED commandVars

MCNext ==
  \/ Others("summary") /\ Next
  \/ Others("requests") /\ RequestsNext
  \/ Others("remux") /\ RemuxNext
  \/ Others("command") /\ CommandNext

MCSpec ==
  /\ MCInit
  /\ [][MCNext]_<<part, vars, stored, remuxVars, commandVars>>
  /\ \A r \in Requests : WF_vars(part = "summary" /\ Step(r))

=============================================================================

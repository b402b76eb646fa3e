-------------------------- MODULE ChannelRequests --------------------------
(***************************************************************************)
(* What POST, PUT and PATCH make of a channel (http/dto/channel_*.go), what *)
(* they refuse (domain/channel/model.go), and what a reader is shown       *)
(* (domain/channel/transformers.go).  One channel, one request at a time:  *)
(* races between requests are in ChannelRegistry.                          *)
(*                                                                         *)
(* A request says of every field that it is "omitted", "null", or a value  *)
(* (dto.W).  A value is "v", or "bad" if Validate rejects its content; a   *)
(* bool is "true" or "false".  The fields of `input` are listed beside     *)
(* those of the channel, and null for `input`, or for an output, is null   *)
(* for each of its fields: all of these are refused alike.  `id` is the    *)
(* key that a channel is shown with and no request has a field for.        *)
(*                                                                         *)
(* Operators named after a mistake (MissingDirectly, ...) are faulty       *)
(* variants of the one that follows; no specification uses them.           *)
(***************************************************************************)
EXTENDS Naturals, Sequences, FiniteSets, TLC

CONSTANTS
  Fields, OutFields,  \* the fields an instance looks at
  Creates, Replaces, Patches  \* requests that are made

Nullable == {"b2b_client_id", "name", "url", "username", "password", "avioflags",
             "fflags", "localaddr", "rtsp_transport"}
Scalars == {"enabled", "restart_sec", "probesize", "analyzeduration", "max_delay",
            "timeout"}
OutNullable == {"url", "localaddr"}
OutScalars == {"ref", "pkt_size", "stream_mapping", "enabled"}

ASSUME FieldsAssumption ==
  /\ Fields \subseteq Nullable \union Scalars
  /\ {"name", "url", "username", "password", "enabled"} \subseteq Fields
  /\ OutFields \subseteq OutNullable \union OutScalars
  /\ {"ref", "url", "enabled"} \subseteq OutFields

\* What a request can say of a field.  "nil" is what a channel has for null.
Words == STRING \ {"nil"}

ASSUME RequestsAssumption ==
  /\ Creates \union Replaces \subseteq
       [id : Words, fields : [Fields -> Words], outputs : Seq([OutFields -> Words])]
  /\ \A req \in Patches :
       /\ req.id \in Words /\ req.fields \in [Fields -> Words]
       /\ req.form \in {"omitted", "null", "array", "object"}
       /\ req.form = "array" => req.outputs \in Seq([OutFields -> Words])
       /\ req.form = "object" =>
            \A r \in DOMAIN req.outputs : req.outputs[r] \in [OutFields -> Words]

VARIABLE stored  \* the channel, or Absent

Absent == [fields |-> <<>>, outputs |-> <<>>]

RequestsInit == stored = Absent

Admins == "admin"
Clients == "b2b_client"

\* What a client may set, and the outputs it may switch.
ClientFields == {"name", "url", "username", "password", "enabled"}
ClientRefs == {"onprem_mr01", "onprem_mz01", "pubcloud_sky320"}

Value(w) == IF w = "null" THEN "nil" ELSE w

\* A body with a key that the request has no field for is refused (bind).
BindsAnyKey(req) == req.id \in Words
Binds(req) == req.id = "omitted"

\* "Disallows explicit null assignment to non-nullable fields."
NullsAllowed(fs, nullable) == \A f \in DOMAIN fs : fs[f] = "null" => f \in nullable
Complete(fs) == \A f \in DOMAIN fs : fs[f] # "omitted"

-----------------------------------------------------------------------------
(* Validate *)

DepRules == [f \in {"url", "username", "password", "enabled"} |->
               CASE f = "url" -> {"name"}
                 [] f = "username" -> {"url"}
                 [] f = "password" -> {"username"}
                 [] f = "enabled" -> {"url"}]

IsSet(fs, f) == IF f = "enabled" THEN fs[f] = "true" ELSE fs[f] # "nil"

Deps(f) == IF f \in DOMAIN DepRules THEN DepRules[f] ELSE {}

\* What the depth-first search of crossDependencyCheck reaches from a field:
\* its dependencies, theirs, and so on.
visit == [f \in DOMAIN DepRules |->
            {d \in Fields : \A S \in SUBSET Fields :
               (Deps(f) \subseteq S /\ \A e \in S : Deps(e) \subseteq S) => d \in S}]

MissingDirectly(fs) ==
  {d \in UNION {Deps(f) : f \in {g \in Fields : IsSet(fs, g)}} : ~IsSet(fs, d)}
Missing(fs) ==
  {d \in UNION {visit[f] : f \in {g \in DOMAIN DepRules : IsSet(fs, g)}} : ~IsSet(fs, d)}

RefsDiffer(outs) == \A j, k \in DOMAIN outs : outs[j]["ref"] = outs[k]["ref"] => j = k

Validate(ch) ==
  /\ \A f \in Fields : ch.fields[f] # "bad"
  /\ \A k \in DOMAIN ch.outputs :
       /\ \A f \in OutFields : ch.outputs[k][f] # "bad"
       /\ ch.outputs[k]["enabled"] = "true" => ch.outputs[k]["url"] # "nil"
  /\ RefsDiffer(ch.outputs)
  /\ Missing(ch.fields) = {}

-----------------------------------------------------------------------------
(* POST and PUT *)

Default(f) == CASE f = "enabled" -> "false"
                [] f \in Nullable \ {"fflags"} -> "nil"
                [] OTHER -> "v"
OutDefault(f, k) == CASE f = "ref" -> ToString(k - 1)
                      [] f = "enabled" -> "true"
                      [] f \in OutNullable -> "nil"
                      [] OTHER -> "v"

WithDefaults(req) ==
  [fields |-> [f \in Fields |->
     IF req.fields[f] = "omitted" THEN Default(f) ELSE Value(req.fields[f])],
   outputs |-> [k \in DOMAIN req.outputs |-> [f \in OutFields |->
     IF req.outputs[k][f] = "omitted" THEN OutDefault(f, k)
                                      ELSE Value(req.outputs[k][f])]]]

NullsAllowedIn(req) ==
  /\ NullsAllowed(req.fields, Nullable)
  /\ \A k \in DOMAIN req.outputs : NullsAllowed(req.outputs[k], OutNullable)

\* Refused requests change nothing and are no steps.
CreateChannel(req) ==
  /\ stored = Absent
  /\ Binds(req)
  /\ NullsAllowedIn(req)
  /\ Validate(WithDefaults(req))
  /\ stored' = WithDefaults(req)

Replacement(req) ==
  [fields |-> [f \in Fields |-> Value(req.fields[f])],
   outputs |-> [k \in DOMAIN req.outputs |->
                  [f \in OutFields |-> Value(req.outputs[k][f])]]]

ReplaceAllowed(req) ==
  /\ Binds(req)
  /\ Complete(req.fields) /\ \A k \in DOMAIN req.outputs : Complete(req.outputs[k])
  /\ NullsAllowedIn(req)
  /\ Validate(Replacement(req))

ReplaceChannel(req) ==
  /\ stored # Absent
  /\ ReplaceAllowed(req)
  /\ stored' = Replacement(req)

-----------------------------------------------------------------------------
(* PATCH: req.form says what `outputs` is: "omitted", "null", "array" or    *)
(* "object"                                                                *)

Merged(old, w) == [f \in DOMAIN old |-> IF w[f] = "omitted" THEN old[f] ELSE Value(w[f])]

\* OutputsByRef, taken before the first output is merged.
IndexOfRef(outs, r) == CHOOSE k \in DOMAIN outs : outs[k]["ref"] = r
Refs(outs) == {outs[k]["ref"] : k \in DOMAIN outs}

\* Go ranges over the map in any order.
Orders(S) == {o \in [1..Cardinality(S) -> S] : \A j, k \in DOMAIN o : o[j] = o[k] => j = k}

MergeByCurrentRef(outs, items, order) ==
  LET fold[n \in 0..Len(order)] ==
        IF n = 0 THEN outs
        ELSE LET sofar == fold[n - 1]
                 k == IF order[n] \in Refs(sofar) THEN IndexOfRef(sofar, order[n])
                                                  ELSE IndexOfRef(outs, order[n])
             IN  [sofar EXCEPT ![k] = Merged(@, items[order[n]])]
  IN  fold[Len(order)]
MergeOutputs(outs, items, order) ==
  LET fold[n \in 0..Len(order)] ==
        IF n = 0 THEN outs
        ELSE [fold[n - 1] EXCEPT ![IndexOfRef(outs, order[n])] =
                Merged(@, items[order[n]])]
  IN  fold[Len(order)]

PatchedOutputs(ch, req) ==
  CASE req.form = "omitted" -> {ch.outputs}
    [] req.form = "array" ->
         {[k \in DOMAIN req.outputs |-> [f \in OutFields |-> Value(req.outputs[k][f])]]}
    [] req.form = "object" ->
         {MergeOutputs(ch.outputs, req.outputs, o) : o \in Orders(DOMAIN req.outputs)}

\* Field by field who may set what; an array is not asked about.
MayPatch(ch, req, kind) ==
  /\ Binds(req)
  /\ NullsAllowed(req.fields, Nullable)
  /\ kind = Clients => \A f \in Fields \ ClientFields : req.fields[f] = "omitted"
  /\ req.form # "null"
  /\ req.form # "omitted" =>
       \A k \in DOMAIN req.outputs : NullsAllowed(req.outputs[k], OutNullable)
  /\ req.form = "array" => \A k \in DOMAIN req.outputs : Complete(req.outputs[k])
  /\ req.form = "object" => \A r \in DOMAIN req.outputs :
       /\ r \in Refs(ch.outputs)
       /\ kind = Clients => /\ r \in ClientRefs
                            /\ \A f \in OutFields \ {"enabled"} :
                                 req.outputs[r][f] = "omitted"

\* patchAndUpdate works on a deep clone, and validates before it stores.
ModifyInPlace(req, kind) ==
  /\ stored # Absent
  /\ MayPatch(stored, req, kind)
  /\ \E outs \in PatchedOutputs(stored, req) :
       stored' = [fields |-> Merged(stored.fields, req.fields), outputs |-> outs]
ModifyChannel(req, kind) ==
  /\ stored # Absent
  /\ MayPatch(stored, req, kind)
  /\ \E outs \in PatchedOutputs(stored, req) :
       LET ch == [fields |-> Merged(stored.fields, req.fields), outputs |-> outs]
       IN  Validate(ch) /\ stored' = ch

DeleteChannel ==
  /\ stored # Absent
  /\ stored' = Absent

RequestsNext ==
  \/ \E req \in Creates : CreateChannel(req)
  \/ \E req \in Replaces : ReplaceChannel(req)
  \/ \E req \in Patches, kind \in {Admins, Clients} : ModifyChannel(req, kind)
  \/ DeleteChannel

RequestsSpec == RequestsInit /\ [][RequestsNext]_stored

-----------------------------------------------------------------------------
(* What a reader sees, as the request that repeats it *)

OutSilent == [f \in OutFields |-> "omitted"]

Written(fs) == [f \in DOMAIN fs |-> IF fs[f] = "nil" THEN "null" ELSE fs[f]]

AdminView(ch) ==
  [id |-> "v", fields |-> Written(ch.fields), form |-> "array",
   outputs |-> [k \in DOMAIN ch.outputs |-> Written(ch.outputs[k])]]

\* Without any output the client's map is nil, which is written as null.
ClientViewUnfiltered(ch) ==
  [id |-> "v",
   fields |-> [f \in Fields |->
                 IF f \in ClientFields THEN Written(ch.fields)[f] ELSE "omitted"],
   form |-> "object",
   outputs |-> [r \in Refs(ch.outputs) |->
     [OutSilent EXCEPT !["enabled"] = ch.outputs[IndexOfRef(ch.outputs, r)]["enabled"]]]]
ClientView(ch) ==
  [id |-> "v",
   fields |-> [f \in Fields |->
                 IF f \in ClientFields THEN Written(ch.fields)[f] ELSE "omitted"],
   form |-> IF ch.outputs = <<>> THEN "null" ELSE "object",
   outputs |-> [r \in Refs(ch.outputs) \intersect ClientRefs |->
     [OutSilent EXCEPT !["enabled"] = ch.outputs[IndexOfRef(ch.outputs, r)]["enabled"]]]]

-----------------------------------------------------------------------------
(* Properties *)

(* Every field of a stored channel has a value of its type: what a request *)
(* omits was filled in or left as it was.                                  *)
RequestsTypeOK ==
  stored # Absent =>
    /\ stored.fields \in [Fields -> {"nil", "v", "true", "false"}]
    /\ \A f \in Fields : stored.fields[f] = "nil" => f \in Nullable
    /\ \A k \in DOMAIN stored.outputs :
         \A f \in OutFields : stored.outputs[k][f] \notin {"omitted", "null", "bad"}

(* The rules of the API (zmux-b2b-api-spec-v1.0.2.yaml, "Cross-field        *)
(* Dependency Rules"), and what the managers and MergePatch rely on, hold  *)
(* of every stored channel whatever sequence of requests led to it.        *)
StoredIsConsistent ==
  stored # Absent =>
    LET has(f) == stored.fields[f] # "nil" IN
    /\ stored.fields["enabled"] = "true" => has("name") /\ has("url")
    /\ has("url") => has("name")
    /\ has("username") => has("url")
    /\ has("password") => has("username")
    /\ Cardinality(Refs(stored.outputs)) = Len(stored.outputs)
    /\ \A k \in DOMAIN stored.outputs :
         stored.outputs[k]["enabled"] = "true" => stored.outputs[k]["url"] # "nil"

(* The answer 422 names all that is missing and nothing else: setting      *)
(* exactly the fields it lists repairs the channel.                        *)
MissingIsComplete ==
  stored # Absent => \A req \in Patches :
    LET fs == Merged(stored.fields, req.fields)
        Repaired(S) == [f \in Fields |-> IF f \in S THEN "v" ELSE fs[f]]
    IN  \A S \in SUBSET Missing(fs) : (Missing(Repaired(S)) = {}) <=> (S = Missing(fs))

(* Both: no request leads to a channel against the rules, and what is      *)
(* refused for them is told all it takes.                                  *)
RulesEnforced == StoredIsConsistent /\ MissingIsComplete

(* A PATCH of outputs by reference changes all of them at once, by the     *)
(* references they had: refs may be exchanged, and the order in which Go   *)
(* ranges over the map does not show.                                      *)
MergeIsSimultaneous ==
  stored # Absent => \A req \in Patches :
    (req.form = "object" /\ DOMAIN req.outputs \subseteq Refs(stored.outputs)) =>
      PatchedOutputs(stored, req) =
        {[k \in DOMAIN stored.outputs |->
            LET old == stored.outputs[k] IN
            IF old["ref"] \in DOMAIN req.outputs THEN Merged(old, req.outputs[old["ref"]])
                                                 ELSE old]}

WithoutId(view) == [view EXCEPT !.id = "omitted"]

(* The id, which the API marks readOnly, is all that has to be taken out   *)
(* of what a GET returned.  With it the body is refused; without it it can *)
(* be sent back - by an admin as PUT or PATCH, by a client as PATCH - and  *)
(* changes nothing.  The fields and outputs shown to a client and those it *)
(* may set are listed in different places.  (A client's view of a channel  *)
(* without outputs is refused all the same: null.)                         *)
ReadsCanBeWrittenBack ==
  stored # Absent =>
    LET shown == AdminView(stored)
        sent == WithoutId(shown)
        shownClient == ClientView(stored)
        sentClient == WithoutId(shownClient)
    IN  /\ ~ReplaceAllowed(shown) /\ ~MayPatch(stored, shown, Admins)
        /\ ~MayPatch(stored, shownClient, Clients)
        /\ ReplaceAllowed(sent) /\ Replacement(sent) = stored
        /\ MayPatch(stored, sent, Admins)
        /\ Merged(stored.fields, sent.fields) = stored.fields
        /\ PatchedOutputs(stored, sent) = {stored.outputs}
        /\ stored.outputs # <<>> =>
             /\ MayPatch(stored, sentClient, Clients)
             /\ Merged(stored.fields, sentClient.fields) = stored.fields
             /\ PatchedOutputs(stored, sentClient) = {stored.outputs}

=============================================================================

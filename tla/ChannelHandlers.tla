-------------------------- MODULE ChannelHandlers --------------------------
(***************************************************************************)
(* The handlers of /api/channels over the two services: bulk deletes and   *)
(* updates of an admin, which go through their ids one by one, and the     *)
(* reads and updates of a client, whose access is looked up under one lock *)
(* and whose channel is fetched under another.  (ChannelRegistry has the   *)
(* steps of one update in detail, this module those of a request.)         *)
(*                                                                         *)
(* A channel is its owner.  The objects and the index of owners change one *)
(* after the other, under ChannelService.mu, so one write is under way at  *)
(* a time.  An id is asked for by one of its spellings.                    *)
(*                                                                         *)
(* Operators named after a mistake (SelectAnybodys, ...) are faulty        *)
(* variants of the one that follows; no specification uses them.           *)
(***************************************************************************)
EXTENDS Naturals, Sequences, FiniteSets

CONSTANTS Handlers,   \* requests, each served once
          Tenants,    \* B2B clients
          Asking,     \* the clients that send requests, a subset of Tenants
          Admin, Unowned,
          Stock,      \* ids of channels, which are positive integers
          Spellings,  \* ways to write an id in a query: 5, 05, +5
          MaxAsked    \* bound on the ids of a request

VARIABLES objects,  \* ChannelService.objs: id -> owner
          owners,   \* channelB2BClientID, and by it each client's list of ids
          writer,   \* who holds ChannelService.mu between two calls, or Nobody
          req       \* handler -> its request and how far it is

handlerVars == <<objects, owners, writer, req>>

SeqOps == INSTANCE SequencesExt

Nobody == "nobody"
Keep == "keep"  \* a patch that does not name an owner
Unserved == [at |-> "unserved", by |-> Nobody]

Own(t) == {id \in DOMAIN owners : owners[id] = t}
Assigned(f, ids) == [id \in {i \in ids : f[i] # Unowned} |-> f[id]]

\* The channels that were there when the server booted.
HandlersInit ==
  /\ objects \in UNION {[S -> Tenants \union {Unowned}] : S \in SUBSET Stock}
  /\ owners = Assigned(objects, DOMAIN objects)
  /\ writer = Nobody
  /\ req = [h \in Handlers |-> Unserved]

Becomes(h, r) == req' = [req EXCEPT ![h] = r]
Reads(h, r) == Becomes(h, r) /\ UNCHANGED <<objects, owners, writer>>

-----------------------------------------------------------------------------
(* A request comes in *)

\* Where a query has a token, which is <<id, spelling>>, for the first time.
Firsts(tokens) == {k \in DOMAIN tokens : \A j \in 1 .. k - 1 : tokens[j] # tokens[k]}

CollectAll(tokens) == [k \in DOMAIN tokens |-> tokens[k][1]]
CollectRequestedIDs(tokens) ==
  LET Nth(n) == CHOOSE k \in Firsts(tokens) : Cardinality(Firsts(tokens) \intersect 1 .. k) = n
  IN  [n \in 1 .. Cardinality(Firsts(tokens)) |-> tokens[Nth(n)][1]]

\* mine: the ids that were the caller's own at some moment of the request.
Serve(h, by, kind, asked, to) ==
  /\ req[h] = Unserved
  /\ Reads(h, [by |-> by, kind |-> kind,
               at |-> IF kind \in {"deleteMany", "modifyMany"} THEN "loop" ELSE "begun",
               left |-> asked, to |-> to, clone |-> Unowned,
               done |-> {}, missing |-> {}, failed |-> {}, picked |-> {},
               mine |-> Own(by)])

Is(h, kinds, at) == req[h].at = at /\ req[h].kind \in kinds
Item(h) == Head(req[h].left)

-----------------------------------------------------------------------------
(* Reads of a client *)

\* RequireChannelIDAccess
CheckAccess(h) ==
  /\ Is(h, {"get", "patch"}, "begun")
  /\ Reads(h, [req[h] EXCEPT !.at = IF Item(h) \notin Own(req[h].by) THEN "answered"
                                   ELSE IF req[h].kind = "patch" THEN "loop" ELSE "allowed"])

GetChannel(h) ==
  /\ Is(h, {"get"}, "allowed")
  /\ Reads(h, [req[h] EXCEPT !.at = "answered", !.done = {Item(h)} \intersect DOMAIN objects])

\* LookupByChannelID for one id after the other.
SelectAnybodys(h) ==
  /\ Is(h, {"list"}, "begun") /\ req[h].left # <<>>
  /\ Reads(h, [req[h] EXCEPT !.left = Tail(@),
                             !.picked = @ \union ({Item(h)} \intersect DOMAIN owners)])
Select(h) ==
  /\ Is(h, {"list"}, "begun") /\ req[h].left # <<>>
  /\ Reads(h, [req[h] EXCEPT !.left = Tail(@),
                             !.picked = @ \union ({Item(h)} \intersect Own(req[h].by))])

\* The ids of the client's own view.
SelectOwn(h) ==
  /\ Is(h, {"all"}, "begun")
  /\ Reads(h, [req[h] EXCEPT !.at = "selected", !.picked = Own(req[h].by)])

\* GetMany panics on an id that is gone; the client gets no answer.
FetchMany(h) ==
  /\ \/ Is(h, {"list"}, "begun") /\ req[h].left = <<>>
     \/ Is(h, {"all"}, "selected")
  /\ Reads(h, [req[h] EXCEPT !.at = IF req[h].picked \subseteq DOMAIN objects THEN "answered"
                                                                         ELSE "panicked",
                             !.done = req[h].picked \intersect DOMAIN objects])

\* The summary may be older, and list channels that are gone by now.
GetSummary(h) ==
  /\ Is(h, {"status"}, "begun")
  /\ \E summary \in SUBSET Stock :
       /\ DOMAIN objects \subseteq summary
       /\ Reads(h, [req[h] EXCEPT !.at = "selected", !.picked = summary])

Status(h) ==
  /\ Is(h, {"status"}, "selected")
  /\ Reads(h, [req[h] EXCEPT !.at = "answered",
                             !.done = req[h].picked \intersect Own(req[h].by)])

-----------------------------------------------------------------------------
(* Writes: one item of a bulk request after the other, or a client's PATCH *)

Turn(h, kinds) == Is(h, kinds, "loop") /\ req[h].left # <<>>

\* The result of the item is noted; a bulk request goes on with the next.
Note(h, field) ==
  [req[h] EXCEPT !.left = Tail(@), ![field] = @ \union {Item(h)}, !.at = "loop"]

LoadClone(h) ==
  /\ Turn(h, {"modifyMany", "patch"})
  /\ Reads(h, IF Item(h) \in DOMAIN objects
                THEN [req[h] EXCEPT !.at = "cloned", !.clone = objects[Item(h)]]
                ELSE Note(h, "missing"))

\* Where ChannelService.Delete or Update is called.
Calls(h) == (Turn(h, {"deleteMany"}) \/ req[h].at = "cloned") /\ writer = Nobody

\* The channel is gone, a quota is used up, or Redis fails.
WriteFails(h) ==
  /\ Calls(h)
  /\ Reads(h, Note(h, IF Item(h) \in DOMAIN objects THEN "failed" ELSE "missing"))

WriteObject(h) ==
  /\ Calls(h) /\ Item(h) \in DOMAIN objects
  /\ objects' = IF req[h].kind = "deleteMany"
                  THEN [id \in DOMAIN objects \ {Item(h)} |-> objects[id]]
                  ELSE [objects EXCEPT ![Item(h)] = IF req[h].to = Keep THEN req[h].clone
                                                                        ELSE req[h].to]
  /\ writer' = h
  /\ Becomes(h, [req[h] EXCEPT !.at = "stored"])
  /\ UNCHANGED owners

Unregister(h) ==
  /\ req[h].at = "stored"
  /\ owners' = [id \in DOMAIN owners \ {Item(h)} |-> owners[id]]
  /\ Becomes(h, [req[h] EXCEPT !.at = "unregistered"])
  /\ UNCHANGED <<objects, writer>>

Register(h) ==
  LET owned == DOMAIN owners \union ({Item(h)} \intersect DOMAIN objects)
  IN /\ req[h].at = "unregistered"
     /\ owners' = Assigned(objects, owned)
     /\ writer' = Nobody
     /\ req' = [g \in Handlers |->
          LET r == IF g = h THEN Note(h, "done") ELSE req[g]
          IN  IF r.at # "unserved" /\ Item(h) \in owned /\ objects[Item(h)] = r.by
                THEN [r EXCEPT !.mine = @ \union {Item(h)}] ELSE r]
     /\ UNCHANGED objects

\* After the last item, or the only one.
AnswerWrite(h) ==
  /\ req[h].at = "loop" /\ req[h].left = <<>>
  /\ Reads(h, [req[h] EXCEPT !.at = "answered"])

-----------------------------------------------------------------------------
Tokens == Stock \X Spellings
Queries == SeqOps!SeqOf(Tokens, MaxAsked) \ {<<>>}

HandlersNext ==
  \E h \in Handlers :
    \/ \E q \in Queries :
         \/ Serve(h, Admin, "deleteMany", CollectRequestedIDs(q), Keep)
         \/ \E to \in Tenants \union {Unowned, Keep} :
              Serve(h, Admin, "modifyMany", CollectRequestedIDs(q), to)
         \/ \E t \in Asking : Serve(h, t, "list", CollectRequestedIDs(q), Keep)
    \/ \E t \in Asking, id \in Stock, kind \in {"get", "patch"} :
         Serve(h, t, kind, <<id>>, Keep)
    \/ \E t \in Asking, kind \in {"all", "status"} : Serve(h, t, kind, <<>>, Keep)
    \/ CheckAccess(h) \/ GetChannel(h)
    \/ Select(h) \/ SelectOwn(h) \/ FetchMany(h) \/ GetSummary(h) \/ Status(h)
    \/ LoadClone(h) \/ WriteFails(h) \/ WriteObject(h)
    \/ Unregister(h) \/ Register(h) \/ AnswerWrite(h)

HandlersSpec == HandlersInit /\ [][HandlersNext]_handlerVars

-----------------------------------------------------------------------------
Answered(h) == req[h].at = "answered"

(* What a client is shown, or changes, was its own at some moment of the   *)
(* request, however channels are moved and deleted between its checks and  *)
(* its fetches ("ensures a B2B client is bound to the requested channel    *)
(* ID", authz.go:65).                                                      *)
ClientsTouchOwn ==
  \A h \in Handlers : Answered(h) /\ req[h].by \in Tenants => req[h].done \subseteq req[h].mine

(* The answer to a bulk request is true: each id is either done or failed, *)
(* what is reported deleted is gone, and by this request and no other, and *)
(* what is reported missing is not there.                                  *)
BulkAnswersTruthful ==
  \A h \in Handlers : Answered(h) /\ req[h].by = Admin =>
    /\ req[h].done \intersect (req[h].failed \union req[h].missing) = {}
    /\ req[h].missing \intersect DOMAIN objects = {}
    /\ req[h].kind = "deleteMany" =>
         /\ req[h].done \intersect DOMAIN objects = {}
         /\ \A g \in Handlers \ {h} : Answered(g) /\ req[g].kind = "deleteMany" =>
              req[g].done \intersect req[h].done = {}

=============================================================================

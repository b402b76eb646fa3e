------------------------------- MODULE Remux -------------------------------
(***************************************************************************)
(* service/remux.go and the refresh of service/channel_summary.go: what    *)
(* the remux processes report of themselves in Redis, joined with the list *)
(* of channels in two reads.  The remuxers write and remove their keys at  *)
(* any moment, also between the two reads.                                 *)
(*                                                                         *)
(* A status is online, offline, or a value that does not parse; an ifmt or *)
(* metrics blob is passed on unread.  Each blob names the key it is from.  *)
(*                                                                         *)
(* Operators named after a mistake (PairByRequest, ...) are faulty         *)
(* variants of the one that follows; no specification uses them.           *)
(***************************************************************************)
EXTENDS Naturals, Sequences, FiniteSets

CONSTANTS RemuxIds,   \* ids of channels
          MaxWrites   \* bound on the writes of the remuxers

ASSUME RemuxIdsAssumption == IsFiniteSet(RemuxIds)

SeqOps == INSTANCE SequencesExt

Kinds == {"status", "ifmt", "metrics"}
Keys == Kinds \X RemuxIds
Nil == <<>>
Online == <<"online">>
Garbage == <<"garbled">>
Reports(key) == IF key[1] = "status" THEN {Online, <<"offline">>, Garbage} ELSE {key}

VARIABLES keys,     \* Redis: key -> value or Nil
          step,     \* of the refresh: idle, statuses, blobs or done
          wanted,   \* enabledIDs of this refresh
          online,   \* onlineIDs, in the order in which a map was walked
          summary,  \* summariesByID, or <<>> after an error
          writes,   \* how many writes there were during this refresh
          held      \* history: <<key, value>> of any moment of this refresh

remuxVars == <<keys, step, wanted, online, summary, writes, held>>

\* Redis outlives the server and may hold anything when it boots.
RemuxInit ==
  /\ \E status \in [RemuxIds -> Reports(<<"status", 0>>) \union {Nil}],
        there \in SUBSET ({"ifmt", "metrics"} \X RemuxIds) :
       keys = [k \in Keys |-> IF k[1] = "status" THEN status[k[2]]
                              ELSE IF k \in there THEN k ELSE Nil]
  /\ step = "idle" /\ wanted = {} /\ online = <<>> /\ summary = <<>>
  /\ writes = 0 /\ held = {}

Current == {<<k, keys[k]>> : k \in Keys}

-----------------------------------------------------------------------------
\* refresh: GetList, and the channels that are enabled in it.
ListEnabled ==
  /\ step = "idle"
  /\ step' = "statuses"
  /\ wanted' \in SUBSET RemuxIds
  /\ held' = Current
  /\ UNCHANGED <<keys, online, summary, writes>>

Garbled == \E id \in wanted : keys[<<"status", id>>] = Garbage
WithStatus == {id \in wanted : keys[<<"status", id>>] # Nil}
IsOnline(id) == keys[<<"status", id>>] = Online

\* GetStatusesByID: a missing status leaves the channel out, a garbled one
\* fails the whole refresh.
GetStatuses ==
  /\ step = "statuses"
  /\ ~Garbled
  /\ summary' = [id \in WithStatus |-> [status |-> keys[<<"status", id>>], ifmt |-> Nil, metrics |-> Nil]]
  /\ online' \in SeqOps!SetToSeqs({id \in WithStatus : IsOnline(id)})
  /\ step' = IF online' = <<>> THEN "done" ELSE "blobs"
  /\ UNCHANGED <<keys, wanted, writes, held>>

RefreshAborts ==
  /\ \/ step = "statuses" /\ Garbled
     \/ step \in {"statuses", "blobs"}  \* Redis fails, or the time is up
  /\ step' = "idle"
  /\ online' = <<>> /\ summary' = <<>> /\ wanted' = {} /\ held' = {} /\ writes' = 0
  /\ UNCHANGED keys

\* The answer of the second MGET: ifmt and metrics of each online id in turn.
Blobs == [k \in 1 .. 2 * Len(online) |->
            keys[<<IF k % 2 = 1 THEN "ifmt" ELSE "metrics", online[(k + 1) \div 2]>>]]

\* The answers are paired with the ids in the order they were asked for.
PairByRequest(vals) ==
  LET asked == SeqOps!SetToSortSeq({online[i] : i \in DOMAIN online}, <)
  IN  [id \in DOMAIN summary |->
         IF \E i \in DOMAIN online : asked[i] = id
           THEN LET i == CHOOSE j \in DOMAIN asked : asked[j] = id
                IN  [summary[id] EXCEPT !.ifmt = vals[2 * i - 1], !.metrics = vals[2 * i]]
           ELSE summary[id]]
Pair(vals) ==
  [id \in DOMAIN summary |->
     IF \E i \in DOMAIN online : online[i] = id
       THEN LET i == CHOOSE j \in DOMAIN online : online[j] = id
            IN  [summary[id] EXCEPT !.ifmt = vals[2 * i - 1], !.metrics = vals[2 * i]]
       ELSE summary[id]]

GetBlobs ==
  /\ step = "blobs"
  /\ summary' = Pair(Blobs)
  /\ step' = "done"
  /\ UNCHANGED <<keys, wanted, online, writes, held>>

\* The join with the channels is handed out; the next refresh starts anew.
HandOut ==
  /\ step = "done"
  /\ step' = "idle"
  /\ online' = <<>> /\ summary' = <<>> /\ wanted' = {} /\ held' = {} /\ writes' = 0
  /\ UNCHANGED keys

-----------------------------------------------------------------------------
(* A remuxer writes or loses a key.  What is written between two refreshes *)
(* makes no difference: the keys may hold anything from the start.         *)
Write(key, value) ==
  /\ step # "idle" /\ writes < MaxWrites
  /\ keys[key] # value
  /\ keys' = [keys EXCEPT ![key] = value]
  /\ held' = held \union {<<key, value>>}
  /\ writes' = writes + 1
  /\ UNCHANGED <<step, wanted, online, summary>>

RemuxNext ==
  \/ ListEnabled \/ GetStatuses \/ RefreshAborts \/ GetBlobs \/ HandOut
  \/ \E key \in Keys : \E value \in Reports(key) \union {Nil} : Write(key, value)

RemuxSpec == RemuxInit /\ [][RemuxNext]_remuxVars

-----------------------------------------------------------------------------
(* Whatever is written between the two reads and in whatever order the map *)
(* was walked: a channel is shown with its own blobs and never another's,  *)
(* with values that its keys held during this very refresh, with blobs     *)
(* only beside an online status, and not at all if it was disabled ("For   *)
(* non-online remuxers, Ifmt and Metrics will always be nil",              *)
(* remux.go:110).                                                          *)
SummariesBelong ==
  step = "done" =>
    /\ DOMAIN summary \subseteq wanted
    /\ \A id \in DOMAIN summary :
         /\ <<<<"status", id>>, summary[id].status>> \in held
         /\ \A kind \in {"ifmt", "metrics"} :
              IF summary[id].status = Online THEN <<<<kind, id>>, summary[id][kind]>> \in held
                                             ELSE summary[id][kind] = Nil

=============================================================================

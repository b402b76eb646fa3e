---------------------------- MODULE SummaryCache ----------------------------
(***************************************************************************)
(* service/channel_summary.go: one snapshot of all channels, served while  *)
(* it is younger than its TTL, refreshed by one request for all that wait  *)
(* (golang.org/x/sync/singleflight), dropped by ?force=1.                  *)
(*                                                                         *)
(* What a refresh reads is abstracted to the number of changes it has      *)
(* seen, and that number is the clock as well.  The TTL runs out and a     *)
(* refresh fails at any moment.                                            *)
(*                                                                         *)
(* Operators named after a mistake (LeadAlways, ...) are faulty variants   *)
(* of the one that follows; no specification uses them.                    *)
(***************************************************************************)
EXTENDS Naturals

CONSTANTS Requests,   \* requests that may be in the handler at once
          MaxChanges, \* bound on the changes of a behaviour
          None

ASSUME MaxChangesAssumption == MaxChanges \in Nat
ASSUME NoneAssumption == None \notin Requests

VARIABLES
  allowStale,    \* opts.AllowStaleOnError
  cache, fresh,  \* the snapshot (or None); now is before s.expires
  flight,        \* the request whose call runs in s.sg, or None
  pc,            \* per request: where it is in the handler
  lead,          \* per request: whose result it waits for
  ans,           \* per request: the snapshot it reads or the error it gets
  changes,       \* how many changes there were
  served,        \* history: newest snapshot any request returned with
  floor, base    \* history, per request: `served` when it arrived; the
                 \* changes when there was no fresh snapshot and no flight

store == <<cache, fresh>>
history == <<served, floor, base>>
vars == <<allowStale, store, flight, pc, lead, ans, changes, history>>

Answer(kind, stamp, data) == [kind |-> kind, stamp |-> stamp, data |-> data]
NoAnswer == Answer("none", 0, 0)
Snapshots == {Answer("ok", s, d) : s, d \in 0..MaxChanges}

Init ==
  /\ allowStale \in BOOLEAN
  /\ cache = NoAnswer /\ fresh = FALSE
  /\ flight = None
  /\ pc = [r \in Requests |-> "idle"]
  /\ lead = [r \in Requests |-> None]
  /\ ans = [r \in Requests |-> NoAnswer]
  /\ changes = 0 /\ served = 0
  /\ floor = [r \in Requests |-> 0] /\ base = [r \in Requests |-> 0]

Goto(r, from, to) == pc[r] = from /\ pc' = [pc EXCEPT ![r] = to]

\* Line 89 and 101: something is cached and has not expired.
HasFreshUnexpiring == cache # NoAnswer
HasFresh == cache # NoAnswer /\ fresh

\* A request from here on can only get what is read from here on.
Quiet == flight = None /\ ~fresh

-----------------------------------------------------------------------------
(* The handler, and the fast path of Get *)

Arrive(r) ==
  /\ \E to \in {"invalidate", "get"} : Goto(r, "idle", to)
  /\ floor' = [floor EXCEPT ![r] = served]
  /\ base' = [base EXCEPT ![r] = IF Quiet THEN changes ELSE 0]
  /\ UNCHANGED <<allowStale, store, flight, lead, ans, changes, served>>

Invalidate(r) ==
  /\ Goto(r, "invalidate", "get")
  /\ cache' = NoAnswer /\ fresh' = FALSE
  /\ base' = [base EXCEPT ![r] = IF flight = None THEN changes ELSE base[r]]
  /\ UNCHANGED <<allowStale, flight, lead, ans, changes, served, floor>>

FastHit(r) ==
  /\ HasFresh
  /\ Goto(r, "get", "answered")
  /\ ans' = [ans EXCEPT ![r] = cache]
  /\ UNCHANGED <<allowStale, store, flight, lead, changes, history>>

FastMiss(r) ==
  /\ ~HasFresh
  /\ Goto(r, "get", "slow")
  /\ UNCHANGED <<allowStale, store, flight, lead, ans, changes, history>>

Return(r) ==
  /\ Goto(r, "answered", "idle")
  /\ served' = IF ans[r].kind = "ok" /\ ans[r].data > served THEN ans[r].data ELSE served
  /\ ans' = [ans EXCEPT ![r] = NoAnswer]
  /\ floor' = [floor EXCEPT ![r] = 0] /\ base' = [base EXCEPT ![r] = 0]
  /\ UNCHANGED <<allowStale, store, flight, lead, changes>>

-----------------------------------------------------------------------------
(* The flight *)

LeadAlways(r) ==
  /\ Goto(r, "slow", "check")
  /\ flight' = r
  /\ lead' = [lead EXCEPT ![r] = r]
  /\ UNCHANGED <<allowStale, store, ans, changes, history>>
Lead(r) ==
  /\ flight = None
  /\ Goto(r, "slow", "check")
  /\ flight' = r
  /\ lead' = [lead EXCEPT ![r] = r]
  /\ UNCHANGED <<allowStale, store, ans, changes, history>>

Join(r) ==
  /\ flight # None
  /\ Goto(r, "slow", "wait")
  /\ lead' = [lead EXCEPT ![r] = flight]
  /\ UNCHANGED <<allowStale, store, flight, ans, changes, history>>

CheckHit(r) ==
  /\ HasFresh
  /\ Goto(r, "check", "end")
  /\ ans' = [ans EXCEPT ![r] = cache]
  /\ UNCHANGED <<allowStale, store, flight, lead, changes, history>>

\* start := s.now()
CheckMiss(r) ==
  /\ ~HasFresh
  /\ Goto(r, "check", "list")
  /\ ans' = [ans EXCEPT ![r] = Answer("ok", changes, 0)]
  /\ UNCHANGED <<allowStale, store, flight, lead, changes, history>>

\* refresh lists the channels and then waits for Redis.
ListChannels(r) ==
  /\ Goto(r, "list", "fetch")
  /\ ans' = [ans EXCEPT ![r].data = changes]
  /\ UNCHANGED <<allowStale, store, flight, lead, changes, history>>

\* Redis fails or is late, or the leader's client goes away: the flight runs
\* under the leader's context, and all who wait for it get its error.
RefreshFails(r) ==
  /\ Goto(r, "fetch", "end")
  /\ ans' = [ans EXCEPT ![r] =
               IF allowStale /\ cache # NoAnswer THEN cache ELSE Answer("failed", 0, 0)]
  /\ UNCHANGED <<allowStale, store, flight, lead, changes, history>>

PublishStampedLate(r) ==
  /\ Goto(r, "fetch", "end")
  /\ cache' = Answer("ok", changes, ans[r].data)
  /\ ans' = [ans EXCEPT ![r].stamp = changes]
  /\ fresh' = TRUE
  /\ UNCHANGED <<allowStale, flight, lead, changes, history>>
Publish(r) ==
  /\ Goto(r, "fetch", "end")
  /\ cache' = ans[r]
  /\ fresh' = TRUE
  /\ UNCHANGED <<allowStale, flight, lead, ans, changes, history>>

\* All who wait get the leader's result; the next request leads a new flight.
FlightEndsForLeader(r) ==
  /\ Goto(r, "end", "answered")
  /\ lead' = [lead EXCEPT ![r] = None]
  /\ flight' = None
  /\ UNCHANGED <<allowStale, store, ans, changes, history>>
FlightEnds(r) ==
  LET crew == {q \in Requests : lead[q] = r} IN
  /\ pc[r] = "end"
  /\ pc' = [q \in Requests |-> IF q \in crew THEN "answered" ELSE pc[q]]
  /\ ans' = [q \in Requests |-> IF q \in crew THEN ans[r] ELSE ans[q]]
  /\ lead' = [q \in Requests |-> IF q \in crew THEN None ELSE lead[q]]
  /\ flight' = None
  /\ UNCHANGED <<allowStale, store, changes, history>>

-----------------------------------------------------------------------------
(* The surroundings *)

Change ==
  /\ changes < MaxChanges
  /\ changes' = changes + 1
  /\ UNCHANGED <<allowStale, store, flight, pc, lead, ans, history>>

Expire ==
  /\ fresh
  /\ fresh' = FALSE
  /\ UNCHANGED <<allowStale, cache, flight, pc, lead, ans, changes, history>>

Step(r) ==
  \/ Invalidate(r) \/ FastHit(r) \/ FastMiss(r) \/ Return(r)
  \/ Lead(r) \/ Join(r) \/ CheckHit(r) \/ CheckMiss(r) \/ ListChannels(r)
  \/ RefreshFails(r) \/ Publish(r) \/ FlightEnds(r)

Next ==
  \/ \E r \in Requests : Arrive(r) \/ Step(r)
  \/ Change \/ Expire

Spec == Init /\ [][Next]_vars

\* A request that has arrived runs on; RefreshTimeout bounds what it waits for.
FairSpec == Spec /\ \A r \in Requests : WF_vars(Step(r))

-----------------------------------------------------------------------------
(* Properties *)

(* Types, and who waits for whom: a waiting request waits for the leader   *)
(* of the flight that is in s.sg, or it would never be answered.           *)
TypeOK ==
  /\ allowStale \in BOOLEAN /\ fresh \in BOOLEAN
  /\ cache \in Snapshots \union {NoAnswer} /\ fresh => cache # NoAnswer
  /\ pc \in [Requests -> {"idle", "invalidate", "get", "slow", "check", "list",
                          "fetch", "end", "wait", "answered"}]
  /\ \A r \in Requests :
       /\ ans[r] \in Snapshots \union
            {Answer(k, 0, 0) : k \in {"none", "failed"}}
       /\ lead[r] = IF pc[r] \in {"check", "list", "fetch", "end", "wait"}
                      THEN flight ELSE None
  /\ flight # None => pc[flight] \in {"check", "list", "fetch", "end"}
  /\ changes \in 0..MaxChanges

Answered(r) == pc[r] = "answered" /\ ans[r].kind = "ok"

(* A poller never sees the channels go back in time: what a request gets   *)
(* is not older than what any request had got before it arrived, across    *)
(* flights, invalidations, expiries and failed refreshes.                  *)
ReadsAreMonotonic == \A r \in Requests : Answered(r) => ans[r].data >= floor[r]

(* X-Summary-Generated-At promises too little, never too much: every       *)
(* change before that moment is in the snapshot.                           *)
StampIsCovered == \A r \in Requests : Answered(r) => ans[r].stamp <= ans[r].data

(* Both: no answer is older than an earlier one, or than its own stamp.    *)
SummariesAreCurrent == ReadsAreMonotonic /\ StampIsCovered

(* A request that arrives, or invalidates, while no refresh is under way   *)
(* and nothing fresh is cached is answered from data read after that,      *)
(* unless stale data is allowed.  (A forced request that meets a refresh   *)
(* under way may join it, and get what was read before its invalidation.)  *)
ExpiredIsNotServed ==
  \A r \in Requests : Answered(r) /\ ~allowStale => ans[r].data >= base[r]

(* Everybody who waits for a flight is answered, when it fails as well.    *)
EveryRequestAnswered == \A r \in Requests : (pc[r] # "idle") ~> (pc[r] = "answered")

=============================================================================

----------------------------- MODULE LocalAddr -----------------------------
(***************************************************************************)
(* service/localaddr.go: the host's addresses, served from a cache while   *)
(* it is younger than its TTL.  The read lock covers a look at the cache;  *)
(* the write lock is held from the second look at it through the reading   *)
(* of the interfaces, which may fail, to the publication.                  *)
(*                                                                         *)
(* What is read is abstracted to the number of changes it has seen, and    *)
(* whether it is empty: an empty list is a nil slice, which is not taken   *)
(* for a cached one.                                                       *)
(*                                                                         *)
(* Operators named after a mistake (InvalidateUnlocked, ...) are faulty    *)
(* variants of the one that follows; no specification uses them.           *)
(***************************************************************************)
EXTENDS Naturals

CONSTANTS Callers,     \* requests that may be in GetLocalAddrs at once
          MaxReplugs,  \* bound on the changes of the interfaces
          Nobody

ASSUME NobodyAssumption == Nobody \notin Callers

VARIABLES
  addrs, fresh,   \* the cached list (or nil); now is before s.expires
  holder,         \* who holds the write lock
  at, got,        \* per caller: where it is, and what it was answered
  replugs, bare,  \* the interfaces: how often they changed; they have no address
  seen, least     \* history: the newest list any caller returned with, and the
                  \* oldest that may be served to each caller

addrVars == <<addrs, fresh, holder, at, got, replugs, bare, seen, least>>

NoList == [kind |-> "nil", data |-> 0]
List(kind, data) == [kind |-> kind, data |-> data]

AddrsInit ==
  /\ addrs = NoList /\ fresh = FALSE
  /\ holder = Nobody
  /\ at = [c \in Callers |-> "idle"]
  /\ got = [c \in Callers |-> NoList]
  /\ replugs = 0 /\ bare \in BOOLEAN
  /\ seen = [returned |-> 0, dropped |-> 0]
  /\ least = [c \in Callers |-> 0]

Larger(m, n) == IF m > n THEN m ELSE n
Move(c, from, to) == at[c] = from /\ at' = [at EXCEPT ![c] = to]

HasFresh == addrs # NoList /\ fresh

-----------------------------------------------------------------------------
(* GetLocalAddrs *)

\* A caller is owed what earlier ones were given, what was plugged before
\* the last Invalidate, and, if it finds nothing fresh and nobody at work,
\* what is plugged now.
Call(c) ==
  /\ Move(c, "idle", "look")
  /\ least' = [least EXCEPT ![c] =
       IF holder = Nobody /\ ~HasFresh THEN replugs ELSE Larger(seen.returned, seen.dropped)]
  /\ UNCHANGED <<addrs, fresh, holder, got, replugs, bare, seen>>

Hit(c) ==
  /\ holder = Nobody /\ HasFresh
  /\ Move(c, "look", "answered")
  /\ got' = [got EXCEPT ![c] = addrs]
  /\ UNCHANGED <<addrs, fresh, holder, replugs, bare, seen, least>>

Miss(c) ==
  /\ holder = Nobody /\ ~HasFresh
  /\ Move(c, "look", "lock")
  /\ UNCHANGED <<addrs, fresh, holder, got, replugs, bare, seen, least>>

\* The lock is taken; another caller has refreshed meanwhile.
LockHit(c) ==
  /\ holder = Nobody /\ HasFresh
  /\ Move(c, "lock", "answered")
  /\ got' = [got EXCEPT ![c] = addrs]
  /\ UNCHANGED <<addrs, fresh, holder, replugs, bare, seen, least>>

\* The client of this caller is gone.
LockCancelled(c) ==
  /\ holder = Nobody /\ ~HasFresh
  /\ Move(c, "lock", "answered")
  /\ got' = [got EXCEPT ![c] = List("failed", 0)]
  /\ UNCHANGED <<addrs, fresh, holder, replugs, bare, seen, least>>

LockMiss(c) ==
  /\ holder = Nobody /\ ~HasFresh
  /\ Move(c, "lock", "list")
  /\ holder' = c
  /\ UNCHANGED <<addrs, fresh, got, replugs, bare, seen, least>>

ListInterfaces(c) ==
  /\ Move(c, "list", "publish")
  /\ got' = [got EXCEPT ![c] = List(IF bare THEN "empty" ELSE "some", replugs)]
  /\ UNCHANGED <<addrs, fresh, holder, replugs, bare, seen, least>>

ListFailsLocked(c) ==
  /\ Move(c, "list", "answered")
  /\ got' = [got EXCEPT ![c] = List("failed", 0)]
  /\ UNCHANGED <<addrs, fresh, holder, replugs, bare, seen, least>>
ListFails(c) ==
  /\ Move(c, "list", "answered")
  /\ got' = [got EXCEPT ![c] = List("failed", 0)]
  /\ holder' = Nobody
  /\ UNCHANGED <<addrs, fresh, replugs, bare, seen, least>>

PublishAddrs(c) ==
  /\ Move(c, "publish", "answered")
  /\ addrs' = IF got[c].kind = "empty" THEN NoList ELSE got[c]
  /\ fresh' = TRUE
  /\ holder' = Nobody
  /\ UNCHANGED <<got, replugs, bare, seen, least>>

Leave(c) ==
  /\ Move(c, "answered", "idle")
  /\ seen' = IF got[c].kind = "failed" THEN seen
             ELSE [seen EXCEPT !.returned = Larger(@, got[c].data)]
  /\ got' = [got EXCEPT ![c] = NoList]
  /\ least' = [least EXCEPT ![c] = 0]
  /\ UNCHANGED <<addrs, fresh, holder, replugs, bare>>

-----------------------------------------------------------------------------
(* Invalidate, which nothing in the program calls yet, and the surroundings *)

InvalidateUnlocked ==
  /\ addrs' = NoList /\ fresh' = FALSE
  /\ seen' = [seen EXCEPT !.dropped = replugs]
  /\ UNCHANGED <<holder, at, got, replugs, bare, least>>
InvalidateAddrs ==
  /\ holder = Nobody
  /\ addrs' = NoList /\ fresh' = FALSE
  /\ seen' = [seen EXCEPT !.dropped = replugs]
  /\ UNCHANGED <<holder, at, got, replugs, bare, least>>

Replug ==
  /\ replugs < MaxReplugs
  /\ replugs' = replugs + 1
  /\ bare' \in BOOLEAN
  /\ UNCHANGED <<addrs, fresh, holder, at, got, seen, least>>

AddrsExpire ==
  /\ fresh
  /\ fresh' = FALSE
  /\ UNCHANGED <<addrs, holder, at, got, replugs, bare, seen, least>>

Looks(c) == Hit(c) \/ Miss(c)
Locks(c) == LockHit(c) \/ LockCancelled(c) \/ LockMiss(c)
Runs(c) == ListInterfaces(c) \/ ListFails(c) \/ PublishAddrs(c) \/ Leave(c)

AddrsNext ==
  \/ \E c \in Callers : Call(c) \/ Looks(c) \/ Locks(c) \/ Runs(c)
  \/ InvalidateAddrs \/ Replug \/ AddrsExpire

AddrsSpec == AddrsInit /\ [][AddrsNext]_addrVars

\* sync.RWMutex: a waiting writer stops new readers, writers are served in
\* turn, and readers that waited for a writer go before the next one.
AddrsFairness ==
  \A c \in Callers : WF_addrVars(Runs(c)) /\ SF_addrVars(Locks(c)) /\ SF_addrVars(Looks(c))

-----------------------------------------------------------------------------
(* Nobody is given a list older than one that was given out before it      *)
(* called, than the last Invalidate ("so the next call refetches           *)
(* immediately", localaddr.go:79), or than its own call if that found      *)
(* nothing fresh: no refresh that began earlier publishes over it.         *)
AddrsAreCurrent ==
  \A c \in Callers : at[c] = "answered" /\ got[c].kind # "failed" => got[c].data >= least[c]

(* Every call returns, whichever of its steps fails.                       *)
AddrsAnswered == \A c \in Callers : (at[c] # "idle") ~> (at[c] = "answered")

=============================================================================

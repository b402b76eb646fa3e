# Verification of zmux-server

zmux-server is the control plane of a media multiplexer.  It keeps *channels*
(one `remux` child process each, which reads an input and writes several
outputs) and *B2B clients* (tenants with quotas, to which channels may belong)
in Redis, exposes them over HTTP, and supervises the processes.

This directory holds TLA+ modules translated from the Go sources, the TLC
configurations that check them on small instances, and TLAPS proofs.  Paths
below are relative to `src/internal/` unless they start with `src/`.

## 1. Inventory

| Component | State | Operations | What is hard |
|---|---|---|---|
| slot pool (`infrastructure/processmgr/slot_pool.go`) | capacity, usage counter, ownership table, sleepers of a `sync.Cond` | acquire, tryAcquire, waitSlot, release, updateLimit | lost wake-ups, counter and table drifting apart, panics that end the server |
| B2B process manager, "PM2" (`process_manager2.go`) | units, specs, ps, PID allocator, scheduler, wake-up channel, two slot pools | Add, Remove, UpdateLimits, mainloop, superviseInstance, handleExit | supervisors use the pools outside `m.mu`; removal, re-adding, limits and process death interleave |
| process manager, "PM1" (`process_manager.go`) | the same without pools | Add, Remove, mainloop, exit handler | the same, without promotion |
| process (`process.go`) | pipes, ready and done channels, `p.mu`, closeOnce | Start, supervise, readers, Enter, Close | pipe teardown races with exit; SIGTERM/SIGKILL escalation |
| PID allocator, scheduler heap, log buffer (`pid_allocator.go`, `scheduler.go`, `log_buffer.go`, `log_manager.go`) | cursor and in-use set; heap whose entries know their place, and a table; rings of 500 lines | alloc/release; push/next/pop/remove; append/read | wrap-around, exhaustion, index bookkeeping |
| ChannelService (`service/channel.go`) | Redis channels, DataStore memory, PM1 registrations | Create, Update, Delete, Get*, boot reconcile | checks of the client and its quota are not atomic with the write; failing Redis |
| B2BClientService (`service/b2b_client.go`) | Redis clients, token index, per-client usage counters, PM2 per client | Create, Update, Delete, RegisterChannel, UnregisterChannel, boot | counters kept by hand next to the objects they count |
| DataStore (`infrastructure/datastore`) | records and id counter in Redis; in memory the sorted ids and the place of each | Create, Update, Delete, GetOne/Many/List with healing, reconcile | answers of Redis that get lost, ids Redis has lost, a lost counter, places that move |
| ObjectStore (`infrastructure/objectstore`) | a map, two sorted slices, the place of each id | Upsert, Delete, GetOne/Many/List | three forms of the same data |
| summary and address caches (`service/channel_summary.go`, `service/localaddr.go`) | list, expiry; singleflight or write lock | Get, Invalidate | a refresh that started before an invalidation; failures while a lock or a flight is held |
| remux status repository (`service/remux.go`) | none; reads what `remux` reports in Redis | GetStatusesByID, then ifmt and metrics | two reads that must be paired, while remuxers write |
| command builder, URL helpers (`src/pkg/avurl`, `src/pkg/hostutil`, `src/pkg/remuxcmd`) | none | split, join, validate, embed credentials, build arguments | round trips, reserved characters, flags that apply to what stands before them |
| HTTP layer (`http/handler`, `http/dto`, `http/middleware`, `src/cmd/zmux-server`) | sessions | create, replace, modify, delete, list, singly and in bulk; access checks | PATCH is read-modify-write without a lock; access is checked under one lock and served under another |

Calls: handlers call ChannelService and B2BClientService; ChannelService calls
B2BClientService for the channels that belong to a client and PM1 for the
others; B2BClientService owns one PM2 per client; PM1 and PM2 launch processes
and are told by each process, through channels, that it is ready or done.
`main.go` boots B2BClientService, then ChannelService, which registers what
Redis holds; systemd restarts the server when it dies.

What makes each component correct:

- slot pool: counter = ownership table, no grant above the capacity in force,
  no sleeper forgotten while a slot is free;
- PM1, PM2: every registered unit is scheduled or supervised; nothing is
  launched twice or for a removed unit; slots and PIDs are returned exactly
  once; the main loop never oversleeps; lowered limits take effect;
- process: drained, then reaped, then reported, once and for good; Close ends it;
- ChannelService, B2BClientService: counters, indices and managers are functions
  of the stored channels, in every order of channel operations, client
  operations, failed writes and restarts; quotas hold; memory is what a restart
  would load;
- DataStore, ObjectStore: a map with an ordered listing, whatever was lost;
- scheduler: a queue by time with one launch per unit; log ring: the newest lines;
- caches: no answer older than what its caller is owed, and an answer for everybody;
- status repository: a channel is shown its own reports, of this refresh;
- helpers: split and join are inverse, credentials do not move the target of a
  URL, the command says what the channel says;
- handlers: a client is shown and changes only what is its own; answers are true.

## 2. Modules

| Module | Models | Remarks |
|---|---|---|
| `SlotPool` | `slot_pool.go` | critical sections as operators; the sleepers in `cond.Wait` are state; no specification of its own |
| `SlotPoolClients` | its callers | any mix of `tryAcquire`, `acquire`, `waitSlot`, `release`, `updateLimit` |
| `Supervisor` | what PM1 and PM2 both promise | abstract: registered units, and which process serves which unit |
| `ProcessManager2` | `process_manager2.go` over two `SlotPool` instances | main loop, supervisors, callers; the child is what `ProcessContract` promises; implements `Supervisor` |
| `PIDAllocator` | `pid_allocator.go` | cursor, wrap-around, skipping, exhaustion; operators for `ProcessManager` |
| `ProcessManager` | `process_manager.go` (PM1) over `PIDAllocator` | main loop, launches and retries, exit handlers, callers; implements `Supervisor` |
| `ProcessContract` | what the managers may assume of a child | the abstract specification of `process.go` |
| `Process` | `process.go` and a child process group | implements `ProcessContract` |
| `ChannelRegistry` | `service/channel.go` × `service/b2b_client.go` over the Redis records, the managers' unit sets and the handlers that hold copies | crash, boot and failing writes included |
| `ChannelHandlers` | the handlers in `http/handler/channels.go` and the access check in `http/middleware/authz.go`, side by side over the two services | bulk requests item by item; a request between two of its locks |
| `ChannelRequests` | `http/dto/channel_*.go`, the validation in `domain/channel/model.go`, the views in `transformers.go` | one channel, one request at a time |
| `KeyedStore` | what both stores promise | abstract: a map, its listing, and what is hidden until a restart |
| `SortedIndex` | what both stores do by hand to a sorted slice and the places in it | operators only |
| `ObjectStore` | `objectstore.go` over `SortedIndex` | map, slices and places; implements `KeyedStore` |
| `DataStore` | `datastore.go` over `SortedIndex`, and the Redis keys of its prefix | writes in doubt, healing, reconcile; implements `KeyedStore` |
| `TimedQueue` | what the scheduler promises | abstract: one launch per unit, the soonest at the head |
| `Scheduler` | `scheduler.go` with `container/heap` | heap, entries and table; implements `TimedQueue` |
| `LogBuffer` | `log_buffer.go`, `log_manager.go` | |
| `LocalAddr` | `service/localaddr.go` | both locks, failures, Invalidate |
| `SummaryCache` | `service/channel_summary.go` and its handler | TTL, singleflight, forced reads, failing refreshes |
| `Remux` | `service/remux.go` and the join in `channel_summary.go` | remuxers write at any moment |
| `RemuxCommand` | `src/pkg/avurl`, `src/pkg/hostutil`, `src/pkg/remuxcmd`, `domain/channel/validate.go` | texts as short sequences of characters that differ in meaning |
| `MC*` | | instances for TLC; `MCInfrastructure`, `MCServices` and `MCHandlers` put modules side by side (section 3) |
| `*_proofs` | | theorems and their proofs |

### How state and actions correspond to the code

`PROJECT.json` maps every definition to its lines.  The choices behind it:

- **One action per critical section.**  A body that runs under one mutex is one
  step.  Where a body enters another lock it is split there: `UpdateLimits`
  holds `m.mu` throughout but calls into the pools, which the supervisors use
  without `m.mu`, so it is five actions with `lim` as its program counter;
  `ChannelService.Create/Update/Delete` hold their mutex to the end and enter
  `B2BClientService.mu` and Redis several times, so `op` is theirs.
- **SlotPool.**  `Grant` is `tryAcquire` returning true and `acquire` past its
  loop; `Refuse` is `tryAcquire` returning false; `Park`/`Pass` are the loop
  around `cond.Wait`; `Signal` lets the runtime choose the sleeper.
- **ProcessManager2.**  `pc` is where the main loop is (the two `waitSlot` calls,
  the locked section, the two selects); `sup[i]` is where `superviseInstance`
  is.  A scheduled PID is due or not; the heap order among due PIDs is left
  open.  The timer is armed for one PID and stays right until the next push,
  which leaves a signal (`Expire`).  `Insts` are process objects, reused once
  they are dead and unsupervised.
- **ProcessManager.**  The scheduler is the sequence of its PIDs in the order of
  their times, of which the first `due` are due: a time passes for a prefix
  (`Expire`), and a push lands behind that prefix, because its time is now or
  later.  Only an event whose cooldown is over at once, put right behind the
  prefix, may extend it.  The allocator is the real one, cursor included.
- **Supervisor.**  `serves[i]` is the unit of a live process nobody has asked to
  close.  `Serving` in both managers is the mapping; `Remove` has to be
  `Unregister`, which asks exactly the unit's process to close.
- **Process.**  The child is a group: a leader, whose exit `Wait` observes, and
  descendants that may keep its pipes open.  Timers (50 ms, 250 ms, 3 s) may
  fire at any moment after they are armed.
- **ChannelRegistry.**  A channel is its owner, whether it is enabled, its
  outputs and whether `--interactive` goes into its argument list.  `chanRecs` and
  `clientRecs` are Redis, everything else is memory and is lost by `Crash`.
  `DataStore.index` has the keys of `objs`, and `procmngrs` those of the client
  objects, in every critical section; each pair is one variable.  A Redis write
  is `"ok"`, `"refused"`, or `"unknown"`: applied, but reported as an error.
  `attached[c][id]` counts how often an id is in the client's slice.
- **SummaryCache.**  A snapshot is the number of changes it has seen, and that
  number is the clock too: a stamp is honest if it does not exceed the data.
  `flight` is the key in the singleflight group, `lead[r]` the call a request
  waits for.  The flight runs under its leader's context, so a failure may be
  the leader's client going away; every waiter gets it.
- **ChannelRequests.**  A field of a request is omitted, null or a value
  (`dto.W`); a value is accepted by the content rules (`"v"`) or not (`"bad"`).
  `id` is a key of what a reader is shown and of no request: a body that names it
  is refused (`Binds`), as `bind` disallows unknown fields.  Below the top level
  `W` decodes without that rule, and unknown keys are ignored there.
  What the dependency search reaches (`visit`) is the least set closed under the
  rules.  The outputs of a PATCH are merged in every order in which Go may range
  over a map (`Orders`).
- **ChannelHandlers.**  A channel is its owner, because that is what access
  depends on.  A request is a record with a program counter; between two of its
  steps others run.  The two maps a write changes one after the other (objects,
  then the index of owners) are two steps under `writer`, which is
  `ChannelService.mu`.  `mine` is history: the ids that were the caller's own at
  some moment of the request.
  A single-channel request carries the id of its path; a bulk request a list of
  tokens, of which `Firsts` keeps one per spelling.
- **ObjectStore, DataStore.**  Places start at 1.  Both hold one lock through an
  operation, so each is a step.  A write in Redis is done, refused, or done
  while the caller is told it failed; a record created in the last way is
  `hidden` in `KeyedStore` until a restart.  `named` is history: what a call was
  about.  The loops of `GetMany` and `GetList` that heal the index are recursive
  functions over the ids asked for and over the places, back to front.
- **Scheduler.**  `SiftUp`, `SiftDown` and `HeapRemove` are `container/heap`'s
  algorithms, which move entries by `Swap` only: `Rise` and `Sink` are one level of
  `up` and `down`, repeated at most as often as there are places.  The refinement
  reads off the table what is due and off the heap what comes first.
- **LogBuffer.**  Lines are numbered, so an answer says which lines it has.
- **LocalAddr.**  A list is the number of changes it has seen and whether it is
  empty: an empty one is a nil slice, which the code takes for no list.  `least`
  is history: the oldest list a caller may be given.
- **Remux.**  A blob is named after the key it was read from; `held` is history:
  every value a key had during the refresh.
- **RemuxCommand.**  `inputURL` grows by one character a step and `outputList`
  by one output, so the reachable states are all short URLs and all short lists.
  A percent-encoded character is one character of a text (`Encoded`), whether the
  caller wrote it or `Escape` did, so escaping is not injective, as in the code.
- **Type invariants.**  Every module with variables of its own has `TypeOK`.  It is
  proved where there are proofs and part of a checked property where it says
  more than types (`PidsInOneHand`); elsewhere it documents the variables.
- **History variables** (no code): `panicked`, `inDoubt`, `peak` in
  `ChannelRegistry`; the first two delimit what is claimed, the third is the
  highest quota a client ever had.  `served`, `floor`, `base` in `SummaryCache`:
  the newest data anybody got, the same when a request arrived, and the changes
  there were when nothing usable was cached or under way.

Some modules also hold operators named after a mistake (`GrantUncounted`,
`ForgetRestart`, `DetachWithNewRecord`, ...).  They are faulty variants of the
operator below them, used by no specification; `mutants` in `PROJECT.json` says
which property fails when one takes the place of the real one.

## 3. Runs

| Run | Instance | Shows |
|---|---|---|
| `pm2_safety` | 2 channels, 2 PIDs, 2 processes, capacities 1 and 2, limits −1..2 | slots = supervisors that owe a release, and no pool panic; units are shared out between queue and supervisors, none forgotten, none orphaned; PIDs exclusive; no lost wake-up; what exceeds a limit is closing once `UpdateLimits` has been there; `Supervisor` is implemented |
| `pm2_liveness` | 1 channel, 2 PIDs, 2 processes, limits 0 and 1, fair | usage returns to a lowered limit; the PID of a unit removed while running is released |
| `pm2_stranded` | violation | a process becomes ready without an onflight slot |
| `pm2_pid_leak` | violation | `Remove` of a scheduled unit never returns its PID |
| `pm1_full` | 2 channels, 2 processes, 3 PIDs, fair | queue, tables and exit handlers share out the units; a PID is in use exactly as long as anybody knows it; `Supervisor` is implemented; a unit runs again until it is removed |
| `registry_safety` | 2 channels, 2 clients, all write outcomes, 1 listing handler | counters, indices and managers are functions of the channels; one supervisor per channel; memory is what Redis holds; ids are never reused |
| `registry_orphan` | violation | a client is deleted between the check and the registration of a channel; the server cannot boot any more |
| `concurrent_requests` | registry part: 2 channels, 1 client, 1 output, two quotas, 1 PATCH handler; handlers part: 2 channels, 2 clients of which one sends requests, 2 requests of up to 2 ids | stale PATCH clones do not break quotas; a client touches only its own; bulk answers are true |
| `bulk_spellings` | violation; 2 channels, 2 spellings of an id | one id in two spellings is handled twice by a bulk request, and reported done and failed |
| `infrastructure` | pool: 4 owners, 2 of which may block in `acquire`, 1 `waitSlot` caller, limits −1..3; objects: 4 ids, 2 values; data: 3 records, 2 values, all write outcomes; launches: 6 units, 2 times; logs: 2 channels, rings of 3, 8 lines; addresses: 2 callers, 2 changes; child: everything | see below |
| `services` | summary: 3 requests, 1 change, fair; requests: 6 fields, 2 outputs, up to 2 fields of a request at a time; remux: 2 ids, 1 write per refresh; command: URLs of up to 9 characters, 2 outputs | see below |
| `datastore_scan` | violation; 2 records, SCAN repeats keys | an id that SCAN returned twice is listed twice |

Three runs put modules that share no state side by side: `part` says which one a
behaviour is about and never changes, so the reachable states are the sum of the
parts and not their product.

`infrastructure`: `CapacityKept` (what a pool counts is who owns it, and it never
grants above the capacity in force), `NoSleepWithFreeSlot` (while one kind of
caller uses a pool, nobody sleeps on beside a free slot), `ObjectStoreIsKeyed` and
`DataStoreIsKeyed` (both implement `KeyedStore`), `OnlyNamedRecordsChange` (no call of
the data store changes a record it is not about, nor forgets one that Redis has),
`SchedulerIsQueue` (the heap implements `TimedQueue`), `ReadIsNewest`,
`AddrsAreCurrent` and `AddrsAnswered`, `EndsInOrder`, `LostPipeEnds` and `ContractHolds`
(`Process` implements `ProcessContract`, liveness included).

`services`: `SummariesAreCurrent` (reads never go back in time, stamps are honest),
`ExpiredIsNotServed`, `EveryRequestAnswered`; `RulesEnforced` (what is stored obeys the
API's rules, and a 422 names exactly what is missing), `MergeIsSimultaneous`,
`ReadsCanBeWrittenBack` (the id is all that has to be taken out of what a GET returned
before PUT and PATCH accept it and change nothing); `SummariesBelong`; `UrlsSurvive`
(join undoes split; embedded credentials move nothing else and are read out again, as
they were if they hold nothing percent-encoded), `CommandSaysChannel`.

**Bounds.**  Two channels and two PIDs are the smallest instance in which a
channel is removed and added again while its old process dies *and* another
channel competes for the slot; two processes are the smallest in which a
dead-but-supervised and a live process share a PID's history.  Capacities 1 and
2 against limits −1..2 cover equal, lower, higher, zero and refused.  PM1 has
three PIDs, so that the cursor wraps and skips while two are in use and one has
leaked.  `Insts` bounds the processes of both managers: with none left the main
loop is late, nothing else.  In the registry, two clients allow a move, two
channels the difference between a set and a counter, and ids are bounded by
`MaxChannels` and `MaxClients`, which bound creations over the whole behaviour
(ids are never reused).  `Process` has no bound: one descendant stands for any
number, as only "somebody holds the pipe" matters.

Four ids in the object store leave room for an insertion or deletion with two ids
behind it, so that places move by more than the one next to them.  Three records
in the data store allow two to be healed in one pass with a third behind them.
Six units make a heap of three levels, in which a removal from the middle may
sift up as well as down.  Eight lines wrap a ring of three twice, and channel ids
only separate the rings.  Two changes of the interfaces separate what was read
before, between and after two refreshes; a third caller would repeat a second
that waits for the lock.

In the summary, `MaxChanges` = 1 separates "before" from "after", and three requests
are a leader, one that joins, and one that comes later or forces.  The rules in
`ChannelRequests` relate two fields each, hence two fields per request; chains of
requests are unbounded.  Two ids are what a wrong pairing of reports needs; one
write per refresh may fall between its two reads, and the keys may hold anything
at the start.  A URL begins with `1://` or with nothing, and five more characters
are enough for an `@`, a bracketed host and a port behind it; `UrlChars` has one of
the percent-encoded characters, which a URL does not tell apart (`Credentials` and
the theorem have all).  Two outputs are
what it takes for the flags of one to reach the other.  In the handlers part two
requests are a reader or updater and one that interferes; a bulk request of two
ids is caught between them.  `Asking` leaves the second client without requests
of its own: channels are moved to it and from it.

Symmetry is used for safety only.

**Deadlock** is checked in `pm2_safety`.  It is off where the system may stop: a
finished or never started child; a pool whose owners and callers have nothing to
do; rings, ids, changes and URLs at their bounds; handlers that have served their
request; PM1 and PM2 when leaked PIDs have exhausted the small PID space; a
server whose `reconcile` panics.

**Fairness.**  A runnable goroutine runs on (`WF` of its steps).  Steps that need a
mutex others may keep taking get `SF`: `sync.Mutex` hands over to a waiter
after one millisecond of starvation, and a `sync.RWMutex` (`AddrsFairness`) admits
no new readers while a writer waits, nor the next writer before the readers that
waited.  Timers and restart delays run out, and a group that got SIGKILL exits.
Nothing is assumed of HTTP callers, of readiness or of a process nobody killed:
no liveness property depends on them.  PM1's `UnitRunsAgain` needs one assumption
about the environment, stated as `SF` of `MainLaunch(p)`: a launch that is tried
again and again succeeds in the end.  In the summary a request that has arrived
runs on, because `RefreshTimeout` bounds what it waits for.

## 4. Theorems

All are proved for every value of the constants.

- `ProcessManager2_proofs`: `TypeCorrect`, then `SlotsNeverLeak` and
  `SlotPoolNeverPanics` (together `SlotsNeverMisused`), `LaunchesAreSound`,
  `UnitsNeverForgotten` and `NoOrphans` (together `UnitsInOneHand`),
  `PidsNeverShared`, `MainLoopNeverOversleeps`, from the inductive invariant
  `IInv == TypeOK /\ Tables /\ Slots /\ NoLostWakeup`.
  - `Tables` relates units, specs, ps, the allocator, the queue and the
    supervisors.  It is needed because no table alone says who answers for a
    PID: that a scheduled PID is unsupervised holds because an authoritative PID
    is scheduled *or* supervised, and a PID is released only when it is neither.
  - `Slots` says which supervisor owes which release.  It needs `Tables` (two
    supervisors never share a PID) to know that a release removes exactly one
    owner.
  - `NoLostWakeup` is inductive with `TypeOK`.
  - `ExcessAlwaysCloses`, an action property, needs two more facts (`Cuts`): the
    process of an owner that nobody closed is still the one `ps` has for its PID,
    so closing the owners that were picked reaches it; and between its parts
    `UpdateLimits` counts against the capacity it has just set.  Apart from a
    launch or a promotion, which need a free slot, no step adds to those that stay.
  - `SupervisorImplemented`, that PM2 implements `Supervisor`, follows from
    `Tables` step by step: a step that starts nobody is `Lose` (of nobody, if
    nothing changes); `Remove` closes exactly the process that serves the unit,
    because a serving process is in `ps` under its unit's PID; a launch is of a
    registered unit, and whoever served it would supervise the scheduled PID.

  Assumptions: `PidsAssumption` (finitely many PIDs), `NoneAssumption`,
  `LimitsAssumption`, all in the module; any limits, negative ones included.
- `ProcessManager_proofs`: `HandsKept`, with the inductive invariant
  `Typed /\ Hands`, and from it `UnitsStaySharedOut`, `PidsStayInOneHand` and
  `SupervisorImplemented`.  `Hands` says who answers for a PID: it is scheduled,
  or a process with an exit handler has it, and the tables agree with whichever
  it is (`ScheduledWaits`, `OneHandler`, `Accounted`, `ProcessesFound`).  That the
  allocator hands out no PID that is still known (`FreeIsUnknown`) rests on all of
  these, and they rest on it, which is why they are proved together.
- `ChannelRegistry_proofs`: `RegistryTypeCorrect`; `BooksExact`, `RunOnce` and
  `MemoryIsStored` from the inductive invariant of `BooksKept`;
  `IDsNeverReturn`; `QuotasKept`.
  - Between two critical sections of an update the tables disagree on purpose.
    The invariant says for each `op.step` what is still owed: `Progress` relates
    the operation to the records it read and wrote, and `Registered` is the table
    the books have to agree with at that moment.  Counters are cardinalities of
    sets of channels (`EnabledIn`, `UsingIn`), so a step that moves a channel is a
    lemma about one element more or less.
  - `MemoryIsStored` needs `inDoubt`: a write without an answer breaks it until a
    restart.
  - `QuotasKept` has the hypothesis `"unknown" \notin WriteResults`, and is false
    without it: with a quota of one, a creation whose answer is lost leaves a
    record that memory does not count, a second creation is within the quota, and
    a restart loads both (`CreateClient`, `Create`, `StoreInsert` unknown, `Create`,
    `StoreInsert`, `Crash`, `Boot`).
- `ChannelHandlers_proofs`: `RequestsAreSound`, the inductive invariant `Inv` of
  what a request holds at each of its positions; `ClientsOnlyTouchOwn` from it, as
  `mine` grows with every change of the index of owners; `BulkAnswersAreTrue`, with
  the invariant `Answers` that a bulk request notes no id twice and that two bulk
  deletes never both delete one.  `Names` says that the names of admins, tenants
  and of "no owner" differ.  `BulkAnswersAreTrue` assumes `OneSpelling`, that an id
  is asked for in one spelling; `bulk_spellings` shows that it is needed.
- `Infrastructure_proofs`:
  - `UsageIsOwnersTheorem`, `GrantWithinLimitTheorem`, and both together,
    `CapacityIsKept`, of the slot pool.  `UsageIsOwners` is inductive with the types
    (`PoolInv`); finiteness of the owners comes from `IdsAssumption`.
  - `DoneIsFinal`, `DrainedBeforeReap` and both together, `EndsInOrderAlways`, of a
    process, from `Supervision`, which says what the position of `supervise` implies
    for the pipes, the leader and the channels; `KeepsContract`: every step of
    `Process` is a step of `ProcessContract` or leaves its state alone.
  - `ReadsAreNewest`, from the invariant `Rings`: the places before `head` hold the
    last lines written, counted back round the ring (`CapAssumption`: the
    capacity is positive; the code has 500).
  - `AddrsStayCurrent`, from `AddrsKnown`, where the write lock is what makes
    refreshes one at a time (`OneRefreshes`): a list that is fresh, or was read
    and is not yet published, `Satisfies` all earlier answers, the last `Invalidate`
    and all who wait.  The assumption is `NobodyAssumption`.
- `Stores_proofs`:
  - `Indexes(s, p)` is what both stores keep: ids in ascending order, and the place
    of each.  `IndexGains` and `IndexLoses` say that inserting where `SearchIndex`
    finds, or cutting one out, and writing the places behind anew keeps it, and
    exactly which id it adds or takes away; both stores' proofs rest on these.
  - `FormsStayInStep`: the three forms of the object store agree (`FormsAgree` is
    inductive).  `ObjectStoreImplementsMap`: each operation is one of `KeyedStore`.
  - `DataInv` is the invariant of the data store: the index is in order, and no id
    in it or in Redis exceeds the counter.  A pass that heals is a recursive
    function, of which `AskingExists` and `SweepExists` say that it is defined; that
    it takes out only what Redis has lost is proved step by step.  For `GetList`
    that needs one fact more (`Swept`): the places it has yet to look at are as they
    were before the pass.
  - `OthersUntouched`, `RecordsListedOnce` and `DataStoreImplementsMap` from it.  The
    last needs that `GetList`'s answer is the map in ascending order
    (`IndexListsTheMap`).  All three assume `~ScanRepeats`, that a SCAN returns every
    key once; `datastore_scan` shows that without it the second is false.
- `Scheduler_proofs`: `SchedulerImplementsQueue`.  Two invariants: the table has the
  place of every entry and the heap no other entries, which every `Swap` keeps; and
  no entry is due before the one above it.  While an entry rises or sinks the
  second holds but for that entry, which `RisesIn` and `SinksIn`
  say exactly; that it has stopped within as many levels as there are places makes
  the heap ordered again.  `TimesAssumption`: times are numbers.
- `Services_proofs`:
  - `RulesAreEnforced`: what is stored is complete and consistent
    (`StoredIsValid`), and the least closed sets of `visit` are computed for the
    rules of the code (`VisitReaches`).
  - `MergesAreSimultaneous`: after the first m references of any order exactly the
    outputs that had one of them are merged (`MergesAtOnce`, by a least
    counterexample, as the merge is a recursive function).
  - `ReadsGoBack`: what a GET shows is refused with its id (`IdsAreRefused`) and
    goes back without it.  `StoredIsWorded` says in which words the fields are stored.  Its
    hypothesis `Numbered` is that no numeral is one of the three words for a
    missing value; TLA+ leaves open which string `ToString` makes of a number.
    `RequestsAssumption` types the requests.
  - `SummariesStayCurrent` and `ExpiredIsNeverServed`.  Both
    speak of answers; the invariant `SummariesHold` has to say what the data on
    its way to an answer is newer than.  `Covers(d)` is "nobody was given anything
    newer than d", `Settles(d)` "nobody is owed anything newer than d"; what is
    cached, fetched or about to be handed out covers, and settles while it is
    fresh.  That survives because one flight fetches at a time (`Flights`), so a
    later publication is never of an earlier reading; that nobody waits without a
    flight is part of it.
  - `SummariesShowTheirOwn`, from `RemuxHolds`: whatever the keys hold was held
    since the refresh began, and between its two reads the ids asked for are
    exactly those found online.  `RemuxIdsAssumption`: finitely many channels.
  - `TextsSurvive`: `UrlsSurvive` for URLs of any length (`StartsAssumption`: they
    start with characters).  The invariant is only that `inputURL` is a text; the
    work is in the lemmas.  `SplitIsURL` and `URLIsSplit` say that avurlSplit finds a
    protocol without ":", slashes, an authority without "/" and "?", and a path, and
    that whatever is joined of such parts is split into them again; so putting a
    user in front of the authority moves nothing, as escaping leaves no "/" or "?"
    in it (`EscapedAndBack`) and the last "@" is still the one that was written
    (`AuthorityWithUser`).  `EmbedKeeps` says it of all credentials, not only of
    `Credentials`, those that hold percent-encoded characters included: decoding
    undoes escaping up to decoding (`EscapedAndBack`), and exactly where there is
    nothing to decode (`PlainIsRead`).
  - `CommandsAreRead`: what remux reads behind each mark of the command is what the
    channel says, for any number of outputs.  The command is a recursive function of
    how many outputs are written (`ArgvExists`), and `SaysSoFar` its loop invariant:
    an enabled output adds one section at the end and leaves the earlier ones alone
    (`SectionAdded`), and counting marks and counting enabled outputs stay in step
    (`CountedBefore`).  No text the channel holds is a word of the command
    (`AcceptedIsSaid` for the URL), so no value is taken for a flag or a mark.
    `ChannelIsSaid` says it of any texts, not only of those the property names.

**Only model-checked:**

- every liveness property (`UsageReturnsToLimit`, `RemovedRunningPidReleased`,
  `UnitRunsAgain`, `NoSleepWithFreeSlot`, `LostPipeEnds`, `AddrsAnswered`,
  `EveryRequestAnswered`) and the fairness part of `ContractHolds`: out of the
  prover's reach, like `ENABLED`.  Every other property of a passing run is stated
  by a theorem.

## 5. Not modelled, and why

- Log texts, environment and exit codes are data no property is about.
- Cookies, passwords and tokens (`service/auth.go`, `service/user_session.go`, their handlers and
  middleware) have no concurrent state.
- The B2B client handlers, `me.go`, `urlparse.go` and `main.go` call one service method
  each, shape a response or wire things up; a wrong field there is a question for a test.
- `LimitConcurrentRequests` (`http/middleware`) is written but not wired into the
  server.
- Of URLs and the command: dotted quads and the length limits of host names
  (arithmetic on characters the model does not have), the shell-quoted form of
  the command and the printing of error chains (nothing the server runs depends
  on them), the content rules of names and output URLs (one refused value, `"bad"`,
  stands for them).
- `remux` itself, the kernel and Redis are external: the child group in `Process`,
  the outcomes of a write in `ChannelRegistry` and `DataStore`, and the values a
  report may have in `Remux` are all that is assumed of them.

## 6. Where code and documentation disagree

Five disagreements have a run (`pm2_stranded`, `pm2_pid_leak`, `registry_orphan`,
`bulk_spellings`, `datastore_scan`; quoted under `findings`).  The properties below
are stated in the modules as well and TLC refutes each in seconds; no run is kept
for them.  To see one, add the property to a configuration with the instance
named here.

| Property | Instance | What happens |
|---|---|---|
| `NoSleepWithFreeSlot` without its premise `[]WaitSlotAlone` (`SlotPoolClients`) | `Infrastructure.cfg` | `release` wakes the `waitSlot` caller, which takes nothing; `acquire` sleeps on beside a free slot.  Latent: `acquire` has no caller |
| `ExitHandlerAfterDone` (`ProcessManager2`) | `PM2PidLeak.cfg` | after a failed promotion or `Enter` the exit handler runs while the process still dies (`process_manager2.go:326-338`, against line 39) |
| `LimitsSliceInBounds` (`ProcessManager2`) | `PM2Safety.cfg` | the excess is computed from the unclamped limit (`process_manager2.go:174-176`, against `slot_pool.go:101`) |
| `NoSignalAfterReap` (`Process`) | `Infrastructure.cfg` | `Close` tests done once and signals later (`process.go:311-337`) |
| `CloseClosesStdin` (`Process`) | `Infrastructure.cfg` | `Close` never closes stdin (against `process.go:297`) |
| `DisabledDoesNotRun` (`ChannelRegistry`) | one channel, one client | `RegisterChannel` ignores `Enabled` (`b2b_client.go:190`) |
| `PlainUnitsNeedNoEnter` | one `Patchers` element | a PATCH that detaches a channel leaves it interactive under PM1, which never presses ENTER (`model.go:248`) |
| `PatchKeepsOtherFields` (temporal) | two `Patchers`, one output | the second PATCH writes back the first one's old value (`channels.go:345`) |
| `CredentialsAreRaw` (`RemuxCommand`) | `Services.cfg` | escaping leaves `%` alone, so `%2F` and `/` in a user name make one URL (`src/pkg/avurl/av_url.go:96-114`, against "Raw characters (plain-text, NOT percent-encoded)" in `src/api/zmux-b2b-api-spec-v1.0.2.yaml:680`) |
| `ListingsNeverPanic` | one `Readers` element | `GetMany` meets a channel deleted in between (`channel.go:208`) |

Where a checked property is narrower than one might expect, this is why:

- `ExcessIsClosing` claims nothing after a negative limit: the pool has clamped it
  to zero when the panic ends `UpdateLimits`, so a later limit of 0 equals the
  capacity, is skipped, and what exceeds it is never closed.
- `ExpiredIsNotServed` starts from a moment without a refresh under way: a
  `?force=1` request ("bypass cache", `http/handler/channels.go:656`) that meets a
  refresh begun before its invalidation joins it, or reads what it publishes
  afterwards (`channel_summary.go:131`).
- `EveryRequestAnswered` counts an error as an answer: the flight runs under its
  leader's context (`channel_summary.go:109`), so one client that goes away
  fails all who wait with it.
- `ReadsCanBeWrittenBack` is about what a GET returned without its `id`: every view
  has one (`transformers.go:20` and 48), no request has a field for it, and unknown
  fields are refused (`http/handler/channels.go:646`), in line with the API
  (`readOnly`, `additionalProperties: false`).  It excludes a client's view of a
  channel without outputs: `outputs` is null there (`transformers.go:6`), which
  PATCH refuses, where the API describes an object.
- `RulesEnforced` speaks of requests that are accepted; a POST whose output is
  `{}` is not: `enabled` defaults to true there and needs a url, although
  `http/dto/channel_create.go:43` calls every field of an output optional.
- `ClientsTouchOwn` says "at some moment of the request".  A client's PATCH that
  cloned its channel before an admin moved it writes the old owner back.
- `AddrsAreCurrent` compares with an earlier answer, the last `Invalidate` or the
  moment of a call that found nothing fresh.  A host without any address is never
  served from the cache, because an empty list is a nil slice
  (`localaddr.go:91`): every call reads the interfaces.
- `QuotaHolds` is checked and proved only where every write has a definite outcome;
  a lost answer breaks it (section 4).
- `UrlsSurvive` promises of credentials with percent-encoded characters only that
  they move nothing and are read as what they decode to: escaping leaves the
  percent sign alone, so a literal `%2F` cannot be told from an escaped `/`
  (`CredentialsAreRaw`, above).
- `DueWorkReachesLock` (`ProcessManager2`) is stated and holds on the instance of
  `pm2_liveness`, but takes longer than the other properties together.

Seen while reading, about data the modules leave out:

- `/me` reports the quota and usage of enabled channels as those of online ones
  (`me.go:84-90`).
- `GET /channels?id=` of a channel that does not exist ends in the panic of
  `GetMany` (`service/channel.go:208`) instead of an error.
- reconcile takes `+5` and `007` for ids, where its comment asks for strictly numeric
  suffixes; `datastore.go:95` calls the step read-only, although it may raise the id
  counter.
- The summary copies a channel (`*ch`) that `RegisterChannel` may be setting
  `Interactive` of: a data race without an effect on what is shown.
- `URLParse` has no route.
- A client's PATCH may give `outputs` as an array: the outputs are then replaced as
  they are given, with every field and any ref, and no field is asked about
  (`http/dto/channel_modify.go:94-110`, against "Enforce field-level authorization
  based on principal kind" at line 50).  `MayPatch` does as the code does; the API
  describes only the object.

## 7. Plan

Done: the pools, both managers, the process, the registry and its handlers, the
stores, the scheduler, the rings, both caches, the reports, the request rules,
URLs and commands; and every safety property that a passing run checks is proved.
What could follow is more of the boundary, in this order:

1. `RemuxCommand`: a URL with credentials in the command.  `EmbedKeeps` and
   `ChannelIsSaid` each have half of it; that an escaped user never spells a word
   of the command is missing.
2. `DataStore` and `ChannelRegistry` composed, so that a record in doubt is the same
   one in both; today each has its own picture of what Redis holds.
3. The B2B client handlers, once one of them does more than call a service method.

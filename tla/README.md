# Overcast: a TLA+ verification development

Overcast is a local emulator of cloud services, one Go process that keeps its
records in a pluggable store, drives resource state machines with timers, and
tells its parts and its web UI what happened through an event bus. Most of its
services are request handlers over records. What is hard to get right is
underneath them (the persistent stores, the lifecycle scheduler, the event bus
and the stream it feeds) and in the few services with goroutines or protocols of
their own: the Lambda instance pool, the delivery of event source mappings, and
SQS. This project models those seven, checks them with TLC on small instances
and proves their safety properties with TLAPS for every instance; liveness is
model-checked.

## 1. Inventory

| Component | State it keeps | Operations | What is hard |
|---|---|---|---|
| Hybrid store (`internal/state/hybrid.go`) | memory layer, overlay of unflushed writes (`pendingOps`, `dirty`, tombstones), the batch of a flush in progress, pending log and SQLite on disk | `Set`, `Delete`, `DeletePrefix`, `Get`, `List`, `Scan`, `ScanPage`, `Close`; goroutines: seeder, flush loop | crash between any two steps; a batch committed in chunks; failed flushes put back in front of newer writes; compaction against appends; a seed racing with writes; reads in two unlocked halves |
| WAL store (`internal/state/wal.go`) | memory store, log, dirty flag | the same, `Close`; goroutine: periodic sync | memory and log updated in two critical sections; compaction and its failures; fsync failures; power loss |
| Memory store (`memory.go`) | a map under one mutex | the same | nothing: every operation is one critical section |
| SQLite store, migrations, maintenance (`sqlite.go`, `migrate.go`, `maintenance.go`) | tables | statements in transactions | left to the engine; its table appears as `sqlite` in `HybridStore` |
| Namespaces and tiers (`namespaced.go`, `tier.go`, `profile.go`) | none | routing | pure |
| Lifecycle scheduler (`internal/lifecycle`) | entry per key, entries in flight, WaitGroup, stopped flag | `After`, `Cancel`, `Settle`, `AdvanceAndSettle`, `Stop` | a timer that has fired but not claimed its entry, against `Cancel`, `Stop` and a replacement; who closes `done`, who calls `wg.Done` |
| Event bus and history (`internal/events`) | subscriber lists, sequence number, bounded history, work queue, pool | `Subscribe`, cancel functions, `SnapshotAndSubscribeAll`, `Publish`, `Stop` | no gap and no duplicate at the snapshot boundary; stale indices in cancel functions; a bounded queue whose consumers are also producers; draining at `Stop` |
| Event stream (`internal/router/events.go`) | per connection: a bounded channel and a resume tracker | SSE replay, live tail, resume point | deliveries that overtake each other or are dropped; a resume point that must not pass what is still to come; a client that comes back to another run |
| Lambda instance pool (`services/lambda/runtime_pool*.go`) | warm instances, slots granted, memory ledger, reservations, cold starts under way | `Acquire`, `Release`, `ProactiveInit`, `EvictFunction`, `InvalidateFunction`, provisioned concurrency, sweep, `Stop` | every call spans several critical sections with a cold start of seconds in between, during which the function may be deleted or changed; books that must balance on every error path; queues woken by whoever frees something |
| Event source mapping delivery (`esm_delivery.go`, `handler_esm.go`) | a registry of delivery goroutines, the mapping records | create, update, delete; `Start`, `Stop`, `ReloadAll`, `StopAll`; pollers, stream workers, invocations | the registry and the record are updated by different goroutines in different steps; deferred clean-up; shutdown against a parked reload |
| SQS (`services/sqs`) | message table, deduplication ids, a sequence counter | send, receive, delete, change visibility, purge, dead-letter moves, redrive | no lock spans two calls of the store: receives overlap and write back copies; moves between queues in two steps; retries of sends |
| Other services (`internal/services/*`) | records in the store | API handlers, pollers | not modelled (section 6) |
| Router, middleware, DNS, SMTP, host bridge, debugger, traces, CLI, web UI | per request or per connection | | I/O, parsing, presentation; not modelled |

How they interact: services call the store through the `Store` interface and
never see which backend answers; services schedule state transitions with the
scheduler, whose functions read and write the store; services publish events on
the bus, whose handlers (object notifications, stream pipes, event source
mappings, container watchers, the SSE endpoint) run on the bus's workers and may
call services, and so publish, again. At shutdown the services are stopped
first, then the bus, then the store is closed.

`PROJECT.json` lists all components with their status, and the hazards, each at
its line, with the properties that cover it.

## 2. Modules

| Module | Models |
|---|---|
| `StoreOps` | the write operations of `state.Store` on a map; a key is a (namespace, key) pair, a prefix the set of keys it covers |
| `PersistentKV` | abstract specification: what a persistent store promises its callers |
| `HybridStore` | writes, replay, seed, flush, compaction, failures, `Close`, crash and restart of the hybrid store |
| `HybridReads` | `HybridStore` with readers that copy the overlay, let go of the mutex and then query SQLite |
| `WALStore` | the WAL store in its three sync modes, with kill and power loss |
| `Scheduler` | the lifecycle scheduler and the timer callbacks, one action per critical section |
| `EventBus` | the bus, its pool and its history; `MCEventBus` gives its function-valued constants their values |
| `EventStream` | one SSE client and its connections, on top of what `EventBus` promises a subscriber |
| `LambdaPool` | the instance pool with its admission control; `MCLambdaPool` gives it two functions and a view |
| `ESMDelivery` | the delivery manager, its goroutines and the API calls on a mapping |
| `SQS` | a queue and its dead-letter queue; `MCSQS` adds the symmetry |
| `HybridStoreProofs` (with `HybridReads`), `WALStoreProofs`, `SchedulerProofs`, `EventBusProofs`, `EventStreamProofs`, `LambdaPoolProofs`, `ESMDeliveryProofs`, `SQSProofs` | theorems and proofs |

Apart from the `MC` modules the specifications are instantiated by their `.cfg`
files directly. How they fit together: `HybridStore` is what `SQS` and
`ESMDelivery` take for granted of a store call (one step, may fail, survives a
crash); `EventStream` takes from `EventBus` that a subscription gets every event
after its snapshot exactly once and in no order (`NoGapNoDup`); `ESMDelivery` is
the life of the pollers whose receives and deletes `SQS` has as actions. Definitions with the comment "Mutant:" are plausible
wrong versions of the definition that follows them; no specification uses them.
`PROJECT.json` pairs each property with a mutant that must violate it.

### HybridStore

The unit of interleaving is the critical section of `s.mu`, one disk operation,
or one SQL transaction step. A caller's `Set` is `Write` (append to the pending
log and publish in the overlay, under the mutex) and, for a TierHot key,
`WriteMem` (the memory layer, after the unlock). `DeletePrefix` is one op that
covers a set of keys and leaves a tombstone. The constructor replays the log
entry by entry (`ReplayEntry`, `OpenLog`); the seeder opens the database
(`SeedReady`), takes its snapshot of dirty keys (`SeedStart`), and checks each row
under the mutex and stores it after the unlock (`SeedCheckRow`, `SeedStoreRow`).
A flush steals the overlay (`FlushSteal`), executes and commits chunks
(`FlushExec`, `FlushCommit`), replaces the log with what arrived meanwhile
(`FlushCompact`) and drops the batch (`FlushEnd`); it can fail in a chunk or in
compaction, when the batch goes back in front (`FlushRestore`). `Crash` may
happen between any two steps and keeps only `log`, `torn` and `sqlite`.

Two faults are kept out of `Spec` and in specifications of their own, because
the code does not survive them: torn and short writes (`TornSpec`) and a reopen
that fails after the rename (`ReopenFailSpec`); section 4 says what happens.

Abstractions: sizes become operation counts (`ChunkMax`, `LogCap`); a chunk may
close early, for its byte limit; retries of a flush are new flushes; a refused
write changes nothing and is a stutter; reads before SQLite is ready are not
distinguished from later ones; rows that cannot be decoded do not occur; an
append is one step outside `TornSpec`. `FlushChunkFail` takes a failed chunk to be
rolled back. A `Commit` that reports an error (`hybrid.go:1882`) and took effect
all the same leaves what `FlushCommit` leaves when the next chunk
(`FlushChunkFail`) or, after the last one, the compaction (`FlushCompactFail`)
fails: the rows are there and the whole batch is put back.

### WALStore

`WriteMem` (memory), `AppendEntry` and its failures (log), and the compaction
check are the three critical sections of a mutation. `SyncTick` is a tick of the
sync goroutine, `CloseBegin` and `CloseEnd` the two halves of `Close`. `Crash`
keeps the log, `PowerLoss` keeps at least the synced part of it. The history
variable `diverged` holds the keys whose log lines are missing or may be out of
order: written by two callers at once, or by an append that returned an error.
Memory keeps such a write and a restart may not bring it back; a compaction,
which writes memory out, repairs it. A process that opens a log an earlier one
left unsynced does not mark it dirty; the repository's own
`wal_dirty_internal_test.go` pins that down, and `openLen` accounts for it.
Torn lines are not modelled here; the code has the shape of the hybrid log's
(`wal.go:111`, `hybrid.go:463`), where `TornSpec` shows the consequence.

### Scheduler

An entry's callback is `Fire`, `Claim`, `Unlist`, `CloseDone`, `WgDone`: the
timer's function with each of its critical sections and of the steps of its
deferred function. `After`, `Cancel` and `Stop` all finish entries through
`Release`. Zero-delay `After` on a real clock has its own path
(`AfterInline`, `InlineRun`). Time is abstract: an armed timer may fire at any
moment. `AdvanceAndSettle` and the mock clock's registry, which only tests use,
are not modelled; neither are keys' service names.

### EventBus

`Publish` is its critical section (number, history, copy of the subscribers),
`StartWorkers` and one `Send` per handler, which blocks while the queue is full.
A worker receives (`Receive`), runs a handler, which may publish
(`HandlerPublish`), and returns (`HandlerReturn`); after `StopBegin` it leaves
its main loop at any time (`SeeStop`) and exits when the queue is empty
(`Exit`). `Cancel` does what the closure does: it removes what is *now* at the
index captured at subscription. The history variable `victims` holds the
subscriptions removed by somebody else's cancel function. Timestamps, ARNs,
request ids and redaction of payloads are data and are left out.

### EventStream

Events are their numbers. `Publish` numbers an event, puts it into the bounded
history and hands it to the workers (`inflight`); `Deliver` is a worker running
the subscriber's callback, in any order, and drops the event when the channel is
full. `Connect` is the atomic snapshot and subscription with the resume point
parsed from the client's token; `Replay`, `GoLive` and `Live` are the three
stages of `eventsHandler`, each through `Write`, which runs the resume tracker
(`Saw`, `Reach`, `AdvanceTo`). A filtered event moves the tracker and writes no
frame. `Receive` is the browser: it remembers the id of the last frame.
`Disconnect` loses what is on the wire; `Restart` starts another run with its
numbers at zero. The history forgets any event of its choice when it is full,
which covers its two-tier eviction. `given` records what a full tracker gave up.

### LambdaPool

A call is a goroutine, and a step one critical section of `p.mu`. An invocation
goes through `AdmitGrant` or `AdmitQueue` (the function's slots), `TakeWarm`,
`AdmitContainer` with `ReclaimIdle` and `ContainerQueue` (containers and memory),
`BeginColdStart`, `FinishColdStart` and its abandoned variants, runs, and ends in
`Release`, which keeps or retires the instance. `Replenish` and its goroutine
fill a reservation, `ProactiveInit` starts ahead of traffic; `EvictFunction`,
`InvalidateFunction`, `HandleContainerDied`, `Sweep`, the two calls on provisioned
concurrency and `Stop` come from outside. Instances taken out of the maps wait in
their call's `drop` until `CloseInstance` has closed each of them: the code closes
after the unlock, and others run in between. Wake-ups are modelled as the code
does them: `signalSlotFreed` closes a channel, so everybody who queues looks
again, and a path that frees something without the signal would leave them
queued. Timeouts are a queued call giving up at any time.

Whether a function is pinned to one container depends on the debug target, which
appears and disappears while the pool runs: each look (`PerFunction` in a new
call, `Room` in a replenish) finds any answer in `PinsOf`. `admit` computes its
limit once, before it loops, so a queued call keeps it in `limit`: one that queued
under a limit of one stays queued after the target is gone. `CloseInstance`
releases the books and destroys the container in one step; the code destroys it
right after the unlock (`runtime_pool.go:697` and `:699`), and no action and no
property looks at the difference: the limits are those of the books, as the code
counts.

The `VIEW` of `MCLambdaPool` identifies states that differ in the names of calls
and containers, or in what finished calls leave behind: the actions use names
only to pick the next unused one, and no invariant mentions a name.

### ESMDelivery

An API request reads the record, writes it, and then calls `Start` or `Stop`, one
step each. A delivery goroutine is a poller or a stream worker: `Tick`, `Receive`,
`Batch`, `Flush`, `Retry`, and `Exit` with its deferred `delete(m.stop, uuid)`,
which removes whatever entry is there. Invocations report through `ResultGet` and
`ResultPut`, the two halves of `updateLastResult`. `ReloadAll` waits for the store
(`ReloadList`) and then starts what the scan showed, or gives up (`ReloadFails`)
because the store could not be seeded, its context ended or the scan failed; `StopAll` is its critical section,
`BaseCancel` and the bounded wait. Nothing repeats a reload that failed: the
mappings it should have started stay unserved until a request asks for them, and
`OnIsServed` promises no more. A process starts with any records an earlier
one may have left. The history variable `raced` holds the mappings on which two
requests, or a request and a result or the reload, overlapped.

### SQS

Each call of the message backend is a step: `SendMessage` (`isDuplicate`),
`Record`, `SendPut`; `SendRaw`, an entry of a batch or an internal send, which knows
no groups and no ids and may be delayed; `Receive` (which asks for blocked groups
on a FIFO queue), `Fetch`, and one `Each` per candidate, which writes the marked
copy back or turns to `MovePut` and `MoveDelete`. A poller's receive asks for no
groups and moves at `>=` where the HTTP handler moves at `>`; both are in `Dead`.
`StartMove` is a redrive, with the same two steps per message. `DeleteGet`/`Delete` and
`ChangeGet`/`ChangePut` are the two halves of the calls with a receipt handle.
A row holds the queue, body, group, sequence number, handle, count and whether it
is hidden; time is a hidden row that becomes visible. Every store call may fail
(`Fails`). Two of the failures go unnoticed (`Slip`): `isDuplicate` takes an error for
"not a duplicate" and `recordDedup` drops it, so either lets a retry store a second
copy; the history variable `slips` counts them per id, and `DedupSound` says that
an id is stored no oftener than they and one entry of the table account for.
`Rarely` bounds the failures and what else is not everyday: raw sends, the end of a
deduplication window, purges, changes of a timeout and crashes. `Crash` keeps the
tables and loses the calls and the counter.

## 3. Runs

| Run | Checks | Instance |
|---|---|---|
| `hybrid_durability` | `Durable`, `OnlyCappedWritesAreLost`, `ReadsCurrent`, refinement `ImplementsPersistentKV` | two TierCached keys, two values, a prefix over both, three writes, chunks of one op, a log cap of one, one failure, one restart |
| `hybrid_hot` | `HotReadsCurrent`, `ReadYourWrites`, liveness `EventuallyPersisted` | one TierHot key, one value, two writers, three writes, one failure, one restart |
| `hybrid_reads` | `ReadIsCurrentPerKey` | two-step reads against writes and flushes |
| `wal_store` | `RecoversMemory`, `CleanLogIsSynced`, liveness `EventuallySynced` | all three sync modes, two writers, two keys and a prefix, log limit of two, three writes, one failed file operation, one restart |
| `scheduler` | `DoneClosedOnce`, `ReleasedNeverRuns`, `NoOrphans`, `StopIsFinal`, `SettleSeesAll`, liveness `EverythingSettles` | two keys, three timers, one zero-delay call, one `Settle`, `Stop` |
| `event_bus` | `NoGapNoDup`, `NoiseGoesFirst`, `StopDrainsQueue`, liveness `EventuallyDelivered` | two types (one noise), two workers, one caller, handlers that publish, a queue of one, a history of two; up to four events without subscribers, two with one or two subscriptions, one with three |
| `event_stream` | `StreamInv` (`MarkIsContiguous`, `OncePerConnection`), `NothingStranded`, liveness `BacklogArrives` | four events per run, one of them filtered, a history of three, a channel of one, a tracker of two, two runs, three connections |
| `lambda_pool` | `Ownership` (with `OneOwner`, `RunsItsOwnConfig`, `NothingWarmIsDeleted`), `SlotBooks`, `MemoryBooks`, `OnDemandWithinBudget`, `OnDemandWithinLimit`, `SlotLimit`, `QueuesJustified` | four calls, at most three in progress at a time (two if one is a proactive start), one of them in the background, three containers, two functions, one of them with two configurations of different size and reserved concurrency, one with a debug target that comes and goes; two containers, two slots and three units of memory allowed |
| `esm_delivery` | `ESMInv` (`EntryIsLive`), `NoAddAfterDrain`, liveness `ShutdownDrains`, `OffFallsSilent`, `OnIsServed` | one mapping of either kind, three delivery goroutines, one invocation at a time, two requests, one retry, the reload, which may fail, `StopAll` |
| `sqs` | `QueueInv` (`DedupSound`), `NoMessageLost`, `DeadLetterEarned`, `FifoOrder` | a standard or FIFO queue, two bodies, one group, two clients, one poller, limits one and two, two receives of up to two messages, three message ids (with limit two, nothing follows the step that takes the last), two calls at a time, one rare event |
| `esm_second_poller` | expected violation of `OneWorkerEach` | the same with three requests |
| `sqs_swallowed_retry` | expected violation of `AcknowledgedIsStored` | as `sqs` |

The inductive invariants `IInv` with `HotInv` and `ReadInv`, `WALInv`, `SchedInv` with
`SettleInv`, `BusInv`, `ResumeInv` and `PoolInv` contain the type invariants of their
modules. They are proved (section 5) and not repeated in the runs; TLC has
checked each on the run's instance. `ESMInv` and `QueueInv` are inductive (the
latter with the two invariants beside it) and checked by the runs as they stand,
and of `PoolInv` the run checks its three parts that a caller of the pool depends
on.

Why these bounds: the store's interesting cases need a prefix deletion between
two writes of a key it covers (three writes), a flush that has committed part of
its batch when a failure or a crash comes (chunks of one op, one failure, one
restart), and writes arriving between the stealing of a batch and its
compaction. `hybrid_hot` needs two writers of one key and a seed that finds a
row, hence a restart. The WAL's need two writers between memory and log while a
third write compacts. The scheduler's hardest case is a superseded callback of a
key whose new entry is cancelled: three entries, two keys. The bus needs three
subscriptions for a cancel function to hit a stranger and two workers for one to
exit while the other still works. The stream needs a gap, an event beyond it and
one that fills the tracker (four events, a tracker of two), and a token that is
one restart old. The pool needs an invocation, one that queues behind it, and two
goroutines that change the function or free something meanwhile (four calls, of
which three are in progress at a time: `FewAtOnce`),
and a container to reclaim beside one that runs and one that starts (three). The
mapping's cases need a poller, its successor and one that finds no entry (three
workers). In SQS a message goes to the dead-letter queue and back (three ids: one
body and two copies, or two bodies and a copy; with a limit of two, `FewIds` ends a
behaviour at the third id, as limit one has the longer ones), two receives overlap, and one thing goes wrong meanwhile
(`MaxRare`). What the theorems prove (section 5) does not depend on any bound.

`CHECK_DEADLOCK FALSE` is in every configuration because the bounds on writes,
restarts, calls and events let every behaviour end. `MCSQS` permutes bodies and
clients; the checked properties are safety properties and name neither.

### Fairness

* Hybrid store: the goroutines the constructor starts keep running
  (`Seeder`, replay), the ticker of `run` keeps starting flushes (`Flusher`), a
  caller that has logged its write updates memory. Failures are not fair and are
  bounded. `EventuallyPersisted` excuses stores that degraded, were closed, or
  whose log file failed to close (`file = "broken"`, which nothing repairs).
* WAL store: the sync ticker keeps ticking and a failed sync is retried.
* Scheduler: timers fire and every fn returns; nothing is assumed of callers.
* Event bus: goroutines that can run do, and handlers return, which the
  `HandlerFunc` comment demands. `EventuallyDelivered` excuses a stopped bus and a
  pool all of whose remaining workers wait, in handlers, to send into the full
  queue: that deadlock is real and permanent, and `Stop` then never returns.
* Event stream: the connection's goroutine, the bus's workers and the client keep
  going; nothing is assumed of publishers, and connections may drop at any time.
* ESM delivery: goroutines that can run do, tickers tick, invocations end.
  `CtxDone` is strongly fair: the `select` of a poller whose context is done is
  entered again after every tick and picks among the ready branches at random.
  Nothing makes the store ready or the reload fail (`ReloadList` and `ReloadFails`
  are not fair; only a cancelled context ends the wait for certain,
  `ReloadCancelled`), which is why `ShutdownDrains` is worth checking and why
  `OnIsServed` speaks of a reload that succeeds.
* The pool and SQS have no liveness properties: a queued invocation ends by its
  own deadline, and whether a consumer ever receives is up to the consumer.
  `QueuesJustified` says, as an invariant, what a lost wake-up would violate: nobody
  queues for a slot that is free or for an idle container it could reclaim, and
  nobody for a container while memory and a place are there, unless a signal is
  still due: from a call that closes a container it took out, or from an
  invocation that took a reserved container out of the warm set and with it a
  place. An idle container that has lost its reservation is reclaimable without a
  signal; that case is left out.

## 4. Where code and comments disagree

Two have a run, whose counterexample is the scenario:

* `esm_second_poller`: a poller's deferred `delete(m.stop, uuid)` runs after a
  `Stop` and a new `Start`, and removes its successor's entry. The next `Start`
  (an update, the reload) adds a second poller beside the first, which no `Stop`
  reaches any more; it ends when it sees the record disabled.
* `sqs_swallowed_retry`: the deduplication id is recorded before the message is
  stored. When storing fails, or the process dies in between, the retry is
  answered as a duplicate and the message never exists.

The others are stated as formulas of the modules. Each is violated by the run's
instance when the formula is checked instead of the run's properties (for the
last column: with that specification).

| Formula | Code | Says | Under |
|---|---|---|---|
| `SeedKeepsPrefixDeletes` | `hybrid.go:605`: the seeder looks at per-key entries only, so a prefix deletion replayed or accepted before the end of the seed is undone in memory | "Keys that were written (dirty) before the seed completes are skipped" (`hybrid.go:494`) | `hybrid_hot`, with a prefix over the key |
| `HotMemoryCurrent` | `hybrid.go:821`: memory is updated after the unlock, so two writers of a TierHot key may leave the older value in memory | "memory alone is authoritative" (`hybrid.go:1028`) | `hybrid_hot` |
| `Durable` | `hybrid.go:463`: the entry appended after a torn line shares that line and is not replayed (`wal.go:111` has the same shape) | "only a truncated final line" is lost (`hybrid.go:2545`) | `hybrid_durability`, `TornSpec` |
| `Durable` | `hybrid.go:2731`: after a rename whose reopen failed the batch is put back although no log holds it; the retry commits older values over newer rows with nothing behind them | "redoing an already-committed chunk on the next attempt is always safe" (`hybrid.go:1789`) | `hybrid_durability`, `ReopenFailSpec` |
| `NothingStartsAfterStop` | `scheduler.go:151`: a zero-delay `After` may start its fn after `Stop` returned | "nothing it manages through this Scheduler starting new work once Stop has been called" (`scheduler.go:127`) | `scheduler` |
| `CancelIsExact` | `bus.go:180`: a cancel function whose slot an earlier cancel refilled removes nobody, or a stranger | "The returned cancel function removes the subscription." (`bus.go:153`) | `event_bus` |
| `QueuedBehindSomebody` | `runtime_pool_admission.go:230`: the live count includes calls that hold a slot and have no container yet, so when more calls than the instance limit hold slots before the first of them is admitted, each finds the pool over its limit, nothing is idle to reclaim, and all of them queue although no container exists | "Everything is busy. Queue until a slot frees" (`runtime_pool_admission.go:272`) | `lambda_pool` |
| `StoredOnce` | `store.go:427` and `store.go:441`: an error of the deduplication table reads as "not a duplicate", and one on recording an id is dropped, so a retry within the window is stored a second time | "Returns true if the message is a duplicate" (`store.go:423`) | `sqs` |
| `OnlyReservedIsProtected` | `runtime_pool.go:976`: a replenish start that is under way while the reservation is cleared marks its environment afterwards, and nothing removes that mark | the environments "lose their exemption from the idle sweep and age out like any other warm instance" (`runtime_pool.go:974`) | `lambda_pool` |

What the passing properties exempt because of these: `HotReadsCurrent` the keys
in `raced` and `shadowed`, `RecoversMemory` the `diverged` keys, `StopIsFinal`
everything but timers, `NoGapNoDup` the `victims` of a cancel, `QueuesJustified`
environments that lost their reservation, `OnIsServed` the mappings in `raced` and,
until a request asks for them, all mappings after a failed reload, `DedupSound` one
copy for each error in `slips`.

Read off the code and not stated as formulas:

* `updateLastResult` (`esm_delivery.go:977-984`) writes back a record it read
  before an update or a delete: a disabled mapping is enabled again, a deleted one
  comes back. `ResultGet` and `ResultPut` have the window.
* `Start` does nothing while a poller that has decided to end still has its entry;
  the mapping then stays unserved until the next update (`OnIsServed`, `raced`).
* `ReloadAll` returns with nothing started when `WaitReady` gives the error of a
  store that could not be seeded (`esm_delivery.go:251-254`, `hybrid.go:1300-1304`)
  or the scan fails (`esm_delivery.go:256-259`). It runs once; enabled mappings stay
  unserved until they are updated (`OnIsServed`).
* A worker of a stream mapping "preserv[es] stream order for one mapping"
  (`esm_delivery.go:616`) only as far as the bus's workers did.
* Sequence numbers of a FIFO queue start at one after every restart, below those
  in the table, though "Candidates arrive in sequence-number order, so taking them
  as they come preserves each group's FIFO order" (`handler_message.go:1017`);
  `FifoOrder` compares messages acknowledged by one process.
* `blockedGroups` and `receiveCandidates` are two reads: a group that becomes busy
  in between is served to a second consumer.
* A poller moves messages at `>=` the limit, an HTTP receive at `>`, although the
  code is to "mirror the same policy" (`service.go:447`); and it ignores groups.
* `SendMessageBatch` ignores FIFO fields and the errors of `putMessage`
  (`handler_message.go:582`); `putMessage` upserts, so a receive that races with
  a delete brings the message back; two concurrent sends with one
  deduplication id may both pass `isDuplicate`.

## 5. Proofs

Every safety property that a passing run checks, action properties and the
refinement included, is a theorem for every value of the constants that
satisfies the named assumptions, which TLC evaluates in the runs:
`StoreOpsAssumption`, `HybridAssumption`, `ReadsAssumption`, `WALAssumption`,
`SchedulerAssumption`, `BusAssumption`, `StreamAssumption`, `PoolAssumption`,
`ESMAssumption`, `SQSAssumption` and `KindsAssumption`. They give bounds their
range, keep the names of different actors and the value nil apart, and make the
sets that are counted finite; a queue, a buffer, a history and a pool have room
for one. The type of a message row has room for as many sequence numbers as there
are bodies and rare events (`MaxSeq`): a lemma (`SeqsKept`), not an assumption,
says that it is enough.

* `HybridStoreProofs`: `TypeCorrect`, `InvariantHolds` (`IInv`), `Durability`,
  `OnlyCappedLoss`, `OverlayReadsCurrent`. `Durable` is not inductive: to know that
  a commit may overtake the log, or that compaction may drop the batch, one must
  know how log, `pendingOps`, `batch`, the caches, the open transaction and
  SQLite relate. `IInv` says so in named parts: acceptance order is sequence
  number order (`SeqsOrdered`); the caches say what the ops behind them say
  (`CachesMatch`); the last unflushed op on a key carries its value
  (`UnflushedCurrent`); the log is the batch followed by the pending ops, or,
  after compaction, the pending ops. "The last op on a key" is always expressed
  by comparing sequence numbers or positions, never by a fold, so no step needs
  an induction over a sequence.
* The memory layer, in the same module: `MemoryFollows` (`HotInv`), `HotReadsHold`,
  `WritesAreReadBack`. For a key outside `raced` and `shadowed`, `HotInv` says what
  memory has at each stage of the start: nothing or a replayed prefix of the log;
  then the row, if the overlay does not know the key and the seeder is done with it;
  and, once the key is in the overlay or the seed is over, the last accepted
  write, unless a writer is about to store it (`MemoryOf`, `LastInFlight`). The
  seeder decides on a row before it stores it; `Seeding` says that what was dirty
  or deleted then still is.
* `Refinement`: under `IInv` what a caller sees (`Visible`) is the sum of the
  accepted writes and what a replay would recover (`Recovered`) the sum of the
  saved ones (`ShowsAccepted`, `RecoversSaved`), so each step is a write, a write
  at the log's cap, a restart or a stutter of `PersistentKV` (`StepsOfMap`). Reading
  the log back needs its last op on a key (`LastPosition`, from the
  well-foundedness of `<`).
* `ReadsAreCurrent`, over `HybridReads`: for a key the overlay did not know,
  whatever SQLite may have by the time it is asked (its row, the open
  transaction, every unflushed op) is a value the key had since the read began
  (`Coming`). A flusher only moves values along that path, and a writer adds one
  that the read's window takes in.
* `WALStoreProofs`: `InvariantHolds` (`WALInv`), `Recovery`, `CleanLog`. The
  strengthening is `InFlightIsVisible`: a caller between memory and log has its
  value in memory, so a compaction that snapshots memory meanwhile cannot lose
  it and its later append cannot bring an older value back. `Replay` takes the
  last line that mentions a key; that it exists is `LastPosition`, from the
  well-foundedness of `<`.
* `SchedulerProofs`: `InvariantHolds` (`SchedInv`), `ClosedOnce`, `CancelIsFinal`,
  `NothingOrphaned`, `StoppedIsQuiet`, `SettleIsComplete`. `EntryOwned` records, for
  each state of an entry's callback, who has claimed it and who still owes its
  `wg.Done` and its close; `SettleKnows`, that a `Settle` waits for all that was
  outstanding at its call until it returns, when all of it is finished.
* `EventBusProofs`: `InvariantHolds` (`BusInv`), `PoolIsSound`, `StopDrains`,
  `DeliveredExactlyOnce`, `NoiseGoesFirstHolds`. `StopInv` follows an
  item queued at `Stop`: queued, in a handler or handled, and not queued any more
  once some worker has exited, since a worker exits on an empty queue only. It
  needs a pool with at least one worker. `NoGapNoDup` counts the copies of a
  delivery; the invariant behind it (`DeliveryInv`) does without counting: an item
  (a subscription and an event) is in one place at most, a publisher's slice, the
  queue, a worker's hands or the past (`OnePlace`); what is somewhere is due, and
  what is due to a subscription nobody removed is somewhere (`DueInv`). A new event
  is due to exactly the subscriptions in the slices that `Publish` copies
  (`RecipientsEntries`), and a cancel function, which swaps the last entry into the
  one it removes, takes out one entry only (`SwapRemoveEntries`). The history's
  two-tier eviction is characterised once (`EvictEntry`, `RememberEntries`).
* `EventStreamProofs`: `InvariantHolds` (`ResumeInv`), `ConnectionIsSound`,
  `ResumeLosesNothing`. Four parts beside the two checked properties: the newest
  event is in the history, so the snapshot ends where the live tail begins
  (`Meeting`); an event waits in one place, and not once the tracker has seen it
  (`WaitsOnce`); the replay goes up (`InOrder`); every event of the history that the
  client wants, up to what its connection began with, is in the backlog, written,
  received or given up, and what a frame's point covers is by the time the
  client reads it (`Accounted`). The tracker's loops are functions over a finite set;
  `AdvanceToIs`, `SawIs` and `ReachIs` say what they return.
* `LambdaPoolProofs`: `InvariantHolds` (`PoolInv`), `OwnershipHolds`, `SlotBooksHold`,
  `MemoryBooksHold`, `BudgetHolds`, `OnDemandLimitHolds`, `SlotLimitHolds`,
  `NoWakeupIsLost`. `checkedOut` is compared with the cardinality of
  a set of calls and the memory ledger with a sum, written as the cardinality of
  a set with one element per unit (`Units`), so that adding or removing a call or
  a container changes a sum by its size without an induction. The books need
  `Ownership`: that a container is booked once follows from its having one owner
  and from what a call at each label has and has not done yet (`CallShape`,
  `HeldShape`), and that the amount given back is the amount taken from
  `RunsItsOwnConfig`. A step of one call leaves the others alone or wakes them
  (`SameCall`); steps are grouped by what they do to containers: nothing
  (`OwnershipKept`), move them between the warm set and the call
  (`OwnershipMoved`), book one, make one, close one. The budget follows from
  the books: admission compares with `reservedMem`, which is at least what the
  containers on demand take. The limit on containers does not follow from a
  count of containers, since admission counts idle ones and slots: each container on
  demand is idle or in the hands of a call with a slot (`LiveBound`).
  `SlotLimitHolds` needs that a limit in `admit`'s loop is one of its snapshot's
  (`LimitsKnown`). `NoWakeupIsLost` goes through the steps that free a slot or make a
  container idle; each wakes everybody (`QueuesWoken`), the others leave what the
  queued wait for as it was (`QueuesKept`), and who joins a queue has just looked
  (`QueuesJoined`). For memory and places (`RoomJustified`): what fits after a step
  that frees nothing did fit before (`FitsLess`), a signal that is due stays due
  until it comes (`SignalStays`), and who takes containers out of the warm set will
  signal when it closes them (`RoomSignalled`), since they are booked
  (`UsedIsBooked`).
* `ESMDeliveryProofs`: `InvariantHolds` (`ESMInv`), `NothingAddedAfterDrain`. That the
  entry of a mapping names a goroutine that lives needs to know which goroutines
  are of which kind (`KindsApart`) and that a stream's worker, which leaves its entry
  in place, ends only once it has been cancelled (`WorkersEndLast`). That nothing is added after the drain rests on the
  latch being set before `baseCtx` is cancelled (`LatchedFirst`), on invocations
  being started by live workers only, and on `Start` refusing under the latch.
* `SQSProofs`: `InvariantHolds` (`QueueInv`), `NothingLost`, `DeadLettersEarned`,
  `GroupsInOrder`. Calls work on copies of rows and write them back, so the
  invariant is about all copies of a message, in the table and in the calls: they
  agree in what never changes (`CopiesAgree`), none counts a receive that did not
  happen, nor is a message of a group hidden before its first (`CountsEarned`), a
  move has put its copy before it deletes (`PutFirst`),
  sequence numbers grow from a message acknowledged to one sent after it
  (`SeqsGrow`), and a client that has a message among its candidates has the
  earlier ones that nobody was given (`CandidatesComplete`). `DedupSound` counts: an id
  was stored no oftener in its window than its entry in the table and the errors
  swallowed on it account for, and a call about to store it has one of these to
  spare. Most steps touch one row and one call, and are
  brought to one lemma (`RowStays`, `RowWritten`, `RowAdded`, `RowsDropped`).

Only model-checked are the eight liveness properties: `EventuallyPersisted`,
`EventuallySynced`, `EverythingSettles`, `EventuallyDelivered`, `BacklogArrives`,
`ShutdownDrains`, `OffFallsSilent` and `OnIsServed`. They hold under fairness, and
the installed provers handle neither `ENABLED` nor the well-founded induction over
steps that such proofs need. The formulas of section 4 are false of the code and
so of the models. The bus that `EventStream` contains is a reduced one, and that
`EventBus` keeps what it promises is argued in section 2 from `NoGapNoDup`, not
proved as a refinement.

## 6. Not modelled

* Stores: durability of directory entries (no fsync of the directory after a
  rename), failed fsyncs of the hybrid log (`hybrid.go:2671`), short appends to the
  WAL (`wal.go:402`), the flush loop's signal channel and
  its retry timing, `ScanPage`'s merge walk, the atomicity of a `Scan` over several
  keys (`hybrid.go:1008`), the window in which `Close` closes SQLite.
* Bus and shutdown: publishing after `Stop`, the shutdown order of the services.
* Event stream: keep-alive comments, filters as text, the JSON of an event and an
  event that cannot be marshalled (`router/events.go:233-242`).
* Lambda: containers, images and the runtime API (a cold start succeeds or
  fails); filters, batch contents, partial batch responses and destinations of a
  mapping.
* SQS: creating, deleting and configuring queues, `ReceiveRequestAttemptId`, long
  polling, the visibility watcher, peeks and metrics, the doubling of the fetch
  limit (the modelled queues are shorter than it), consumers of the dead-letter
  queue.
* All other services: request handlers that read and write records under the
  store's own guarantees, or interpreters whose state is a document; the list is
  in `PROJECT.json`. They are most of the repository's lines, so the map covers
  a small share of them.

## 7. Plan

1. Proofs: the part of `EventBus` that one subscription sees as a refinement of
   the bus inside `EventStream`; the WAL store as a second implementation of
   `PersistentKV`, outside its `diverged` keys.
2. `FlushLoop`: ticker, nudge and deferred flushes; `ScanPage` as operators
   checked against a reference merge.
3. The readiness watcher on top of `Scheduler`; pipes' pollers beside
   `ESMDelivery`; Kinesis shards and their iterators.

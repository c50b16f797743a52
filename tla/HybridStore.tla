---------------------------- MODULE HybridStore ----------------------------
(* state.HybridStore: a store that answers from memory and from an overlay of
   unflushed writes, appends every write to a pending log on disk before it is
   accepted, and moves the writes to SQLite in the background.

   Processes: the callers of Set, Delete and DeletePrefix (Writers), the seeder
   goroutine that loads the TierHot rows at startup, the flush loop, and the
   operating system, which may kill the process between any two steps.

   Disk state (log, torn, sqlite) survives a crash; everything else is lost.
   A TierHot key is served from `mem' once the seed is over; any other key is
   served from the overlay and, where the overlay is silent, from SQLite.      *)

EXTENDS StoreOps, Integers, Sequences

CONSTANTS
    Hot,           \* the keys of TierHot namespaces
    Writers,       \* goroutines calling the store
    ChunkMax,      \* hybridFlushChunkMaxOps
    LogCap,        \* hybridDegradedPendingLogCap, in entries
    MaxWrites,     \* bound: writes accepted over all runs of the process
    MaxCrashes,    \* bound: restarts of the process
    MaxFails       \* bound: failed flush attempts

\* A namespace has one tier and a prefix lies in one namespace.
ASSUME HybridAssumption ==
    /\ Hot \subseteq Keys
    /\ \A p \in Prefixes : p \subseteq Hot \/ p \cap Hot = {}
    /\ ChunkMax \in Nat \ {0}
    /\ LogCap \in Nat
    /\ {MaxWrites, MaxCrashes, MaxFails} \subseteq Nat

VARIABLES
    \* --- on disk
    log,                 \* hybrid-pending.wal: the decodable entries, in order
    torn,                \* the log ends in an unterminated fragment of a line
    sqlite,              \* the committed contents of the kv table
    \* --- the process
    life,                \* "running", and the stages of Close
    seed,                \* the stage of the startup
    file,                \* pendingFile: "open", "nil", "broken" (failed Close)
    mem,                 \* the memory layer
    nextSeq,             \* the last sequence number given out
    pendingOps,          \* ops accepted and not yet taken by a flush
    dirty, tombstones,   \* their read caches: per key, per prefix
    capped,              \* a write was accepted past the degraded-mode cap
    \* --- the flush in progress
    fpc,                 \* "idle", "exec" (in a transaction), "compacted"
    batch,               \* toFlushOps
    flushing, flushingTombstones,
    tx, txPos, done,     \* open transaction, ops executed, ops committed
    \* --- the seeder
    dirtySnapshot,       \* keys dirty when the seed started
    seedTodo,            \* rows not yet read
    seedRow,             \* a row found not to be overwritten, not yet stored
    \* --- the callers
    inflight,            \* the op a writer has logged and not yet put in mem
    \* --- history variables
    kv,                  \* the contents the accepted writes add up to
    saved,               \* the same, of the writes that reached the log
    raced,               \* TierHot keys written in two overlapping windows
    shadowed,            \* TierHot keys under a prefix deleted before the
                         \* end of the seed
    writes, crashes, fails

diskVars == <<log, torn, sqlite>>
overlayVars == <<nextSeq, pendingOps, dirty, tombstones>>
flushVars == <<fpc, batch, flushing, flushingTombstones, tx, txPos, done>>
seederVars == <<dirtySnapshot, seedTodo, seedRow>>
ghostVars == <<kv, saved, raced, shadowed, writes, crashes, fails>>
vars == <<diskVars, life, seed, file, mem, overlayVars, capped, flushVars,
          seederVars, inflight, ghostVars>>

-----------------------------------------------------------------------------
\* dirtyEntry.  Sequence numbers start at 1, so 0 marks a key with no entry.
NoEntry == [val |-> Absent, seq |-> 0]
NoDirty == [k \in Keys |-> NoEntry]
HasEntry(e) == e.seq > 0

\* A writer that is not between its log append and its memory update.
Idle == [op |-> "idle", keys |-> {}, val |-> Absent]

PerKey(o, k) == o.op # "delprefix" /\ k \in o.keys

\* walEntry: the log does not record sequence numbers.
WalEntry(o) == [op |-> o.op, keys |-> o.keys, val |-> o.val]
PendingOp(o, seq) ==
    [op |-> o.op, keys |-> o.keys, val |-> o.val, seq |-> seq]

Loaded == seed \in {"loaded", "degraded"}
sqliteReadyNow == seed \in {"ready", "scanning", "loaded"}

\* allocSeqLocked and applyOverlayLocked.
ApplyOverlay(o) ==
    /\ nextSeq' = nextSeq + 1
    /\ pendingOps' = Append(pendingOps, PendingOp(o, nextSeq + 1))
    /\ dirty' = [k \in Keys |->
                    IF PerKey(o, k) THEN [val |-> o.val, seq |-> nextSeq + 1]
                                    ELSE dirty[k]]
    /\ tombstones' =
          IF o.op = "delprefix"
          THEN tombstones \cup {[keys |-> o.keys, seq |-> nextSeq + 1]}
          ELSE tombstones

\* Mutant: a tombstone hides an entry that is newer than it.
ResolveTombstoneWins(k) ==
    LET entry == IF HasEntry(dirty[k]) THEN dirty[k] ELSE flushing[k]
        tombs == {t \in tombstones \cup flushingTombstones : k \in t.keys}
    IN  [found |-> HasEntry(entry) \/ tombs # {},
         val |-> IF tombs # {} THEN Absent ELSE entry.val]

\* resolveOverlayKey: what the overlay says of a key.  An explicit entry wins
\* over the tombstones that cover the key when it is newer than all of them.
Resolve(k) ==
    LET entry == IF HasEntry(dirty[k]) THEN dirty[k] ELSE flushing[k]
        tombs == {t \in tombstones \cup flushingTombstones : k \in t.keys}
    IN  IF HasEntry(entry) /\ \A t \in tombs : entry.seq > t.seq
        THEN [found |-> TRUE, val |-> entry.val]
        ELSE [found |-> tombs # {}, val |-> Absent]

\* Get, as one atomic step (HybridReads splits it).
Read(k) ==
    IF k \in Hot /\ Loaded THEN mem[k]
    ELSE IF Resolve(k).found THEN Resolve(k).val
    ELSE IF sqliteReadyNow THEN sqlite[k]
    ELSE mem[k]

-----------------------------------------------------------------------------
\* A first process on an empty data directory, about to replay its log.
Init ==
    /\ log = <<>> /\ torn = FALSE /\ sqlite = Empty
    /\ life = "running"
    /\ seed = "replay"
    /\ file = "nil"
    /\ mem = Empty
    /\ nextSeq = 0 /\ pendingOps = <<>> /\ dirty = NoDirty /\ tombstones = {}
    /\ capped = FALSE
    /\ fpc = "idle" /\ batch = <<>> /\ flushing = NoDirty
    /\ flushingTombstones = {} /\ tx = Empty /\ txPos = 0 /\ done = 0
    /\ dirtySnapshot = {} /\ seedTodo = {} /\ seedRow = {}
    /\ inflight = [w \in Writers |-> Idle]
    /\ raced = {} /\ shadowed = {}
    /\ kv = Empty /\ saved = Empty
    /\ writes = 0 /\ crashes = 0 /\ fails = 0

-----------------------------------------------------------------------------
(* Startup: replayPendingLog, then the seeder. *)

\* Mutant: a replayed entry reaches the overlay only.
ReplayMemOverlayOnly(o) == mem

ReplayMem(o) == IF o.keys \subseteq Hot THEN Apply(mem, o) ELSE mem

\* applyPendingEntry: one log entry goes into the overlay and, for a TierHot
\* namespace, into memory.
ReplayEntry ==
    /\ seed = "replay"
    /\ Len(pendingOps) < Len(log)
    /\ LET o == log[Len(pendingOps) + 1] IN
         /\ ApplyOverlay(o)
         /\ mem' = ReplayMem(o)
         /\ shadowed' = IF o.op = "delprefix"
                        THEN shadowed \cup (o.keys \cap Hot) ELSE shadowed
    /\ UNCHANGED <<diskVars, life, seed, file, capped, flushVars, seederVars,
                   inflight, kv, saved, raced, writes, crashes, fails>>

\* The constructor opens the log for appending and starts the goroutines.
OpenLog ==
    /\ seed = "replay"
    /\ Len(pendingOps) = Len(log)
    /\ seed' = "opening"
    /\ file' = "open"
    /\ UNCHANGED <<diskVars, life, mem, overlayVars, capped, flushVars,
                   seederVars, inflight, ghostVars>>

\* The database is open and migrated: sqliteReady is closed.
SeedReady ==
    /\ seed = "opening"
    /\ seed' = "ready"
    /\ UNCHANGED <<diskVars, life, file, mem, overlayVars, capped, flushVars,
                   seederVars, inflight, ghostVars>>

\* The dirty keys are snapshotted and the rows of the TierHot namespaces
\* queried.  No flush runs before the seed is over, so the rows do not change.
SeedStart ==
    /\ seed = "ready"
    /\ seed' = "scanning"
    /\ dirtySnapshot' = {k \in Keys : HasEntry(dirty[k])}
    /\ seedTodo' = {k \in Hot : sqlite[k] # Absent}
    /\ UNCHANGED <<diskVars, life, file, mem, overlayVars, capped, flushVars,
                   seedRow, inflight, ghostVars>>

\* Mutant: only the keys dirty at the start of the seed count as overwritten.
RowOverwrittenAtStart(k) == k \in dirtySnapshot

RowOverwritten(k) == k \in dirtySnapshot \/ HasEntry(dirty[k])

\* One row: skipped when a write is known to be newer.  The check holds the
\* mutex, the store into memory that follows does not.
SeedCheckRow(k) ==
    /\ seed = "scanning" /\ seedRow = {} /\ k \in seedTodo
    /\ seedTodo' = seedTodo \ {k}
    /\ seedRow' = IF RowOverwritten(k) THEN {} ELSE {k}
    /\ UNCHANGED <<diskVars, life, seed, file, mem, overlayVars, capped,
                   flushVars, dirtySnapshot, inflight, ghostVars>>

SeedStoreRow ==
    /\ seed = "scanning" /\ seedRow # {}
    /\ mem' = [k \in Keys |-> IF k \in seedRow THEN sqlite[k] ELSE mem[k]]
    /\ seedRow' = {}
    /\ UNCHANGED <<diskVars, life, seed, file, overlayVars, capped, flushVars,
                   dirtySnapshot, seedTodo, inflight, ghostVars>>

SeedLoaded ==
    /\ seed = "scanning" /\ seedRow = {} /\ seedTodo = {}
    /\ seed' = "loaded"
    /\ UNCHANGED <<diskVars, life, file, mem, overlayVars, capped, flushVars,
                   seederVars, inflight, ghostVars>>

\* degradeToMemoryOnly: opening, migrating or reading the database failed.
SeedDegrade ==
    /\ seed \in {"opening", "scanning"} /\ seedRow = {}
    /\ seed' = "degraded"
    /\ UNCHANGED <<diskVars, life, file, mem, overlayVars, capped, flushVars,
                   seederVars, inflight, ghostVars>>

-----------------------------------------------------------------------------
(* Set, Delete and DeletePrefix. *)

\* appendPendingBatchLocked.  An entry appended after a fragment left by a torn
\* write shares its line, which no replay can decode.
AppendPending(o) ==
    /\ log' = IF torn THEN log ELSE Append(log, WalEntry(o))
    /\ torn' = FALSE

\* Mutant: the cap applies to a healthy store too.
PastCapAnyMode == Len(log) >= LogCap

PastCap == seed = "degraded" /\ Len(log) >= LogCap

\* The part under the mutex: append to the log, then publish in the overlay.
\* A write to a log that is not open is refused and changes nothing.
Write(w, o) ==
    /\ seed # "replay" /\ file = "open"
    /\ inflight[w] = Idle
    /\ writes < MaxWrites
    /\ IF PastCap THEN UNCHANGED <<log, torn, saved>>
                  ELSE AppendPending(o) /\ saved' = Apply(saved, o)
    /\ capped' = (capped \/ PastCap)
    /\ ApplyOverlay(o)
    /\ inflight' = [inflight EXCEPT ![w] = IF o.keys \subseteq Hot THEN o ELSE Idle]
    /\ kv' = Apply(kv, o)
    /\ raced' = raced \cup
          {k \in o.keys \cap Hot :
              k \in seedRow \/ \E u \in Writers : k \in inflight[u].keys}
    /\ shadowed' = IF o.op = "delprefix" /\ ~Loaded
                   THEN shadowed \cup (o.keys \cap Hot) ELSE shadowed
    /\ writes' = writes + 1
    /\ UNCHANGED <<sqlite, life, seed, file, mem, flushVars, seederVars,
                   crashes, fails>>

\* The part after the mutex, for a TierHot namespace: the memory layer.
WriteMem(w) ==
    /\ inflight[w] # Idle
    /\ mem' = Apply(mem, inflight[w])
    /\ inflight' = [inflight EXCEPT ![w] = Idle]
    /\ UNCHANGED <<diskVars, life, seed, file, overlayVars, capped, flushVars,
                   seederVars, ghostVars>>

-----------------------------------------------------------------------------
(* flushOnce.  flushMu admits one flush at a time. *)

\* Steal the pending ops and their read caches.
FlushSteal ==
    /\ fpc = "idle" /\ seed = "loaded"
    /\ life \in {"running", "finalflush"}
    /\ pendingOps # <<>>
    /\ fpc' = "exec"
    /\ batch' = pendingOps /\ pendingOps' = <<>>
    /\ flushing' = dirty /\ dirty' = NoDirty
    /\ flushingTombstones' = tombstones /\ tombstones' = {}
    /\ tx' = sqlite /\ txPos' = 0 /\ done' = 0
    /\ UNCHANGED <<diskVars, life, seed, file, mem, nextSeq, capped,
                   seederVars, inflight, ghostVars>>

\* flushChunk executes the next op in the chunk's transaction.
FlushExec ==
    /\ fpc = "exec" /\ txPos < Len(batch)
    /\ txPos - done < ChunkMax
    /\ tx' = Apply(tx, batch[txPos + 1])
    /\ txPos' = txPos + 1
    /\ UNCHANGED <<diskVars, life, seed, file, mem, overlayVars, capped, fpc,
                   batch, flushing, flushingTombstones, done, seederVars,
                   inflight, ghostVars>>

\* The chunk commits.  Its byte limit may close it below ChunkMax operations.
FlushCommit ==
    /\ fpc = "exec" /\ txPos > done
    /\ sqlite' = tx
    /\ done' = txPos
    /\ UNCHANGED <<log, torn, life, seed, file, mem, overlayVars, capped, fpc,
                   batch, flushing, flushingTombstones, tx, txPos, seederVars,
                   inflight, ghostVars>>

\* Mutant: compaction truncates the log.
CompactedLogEmpty == <<>>

\* rewritePendingLocked writes exactly the current pendingOps.
CompactedLog == [i \in 1..Len(pendingOps) |-> WalEntry(pendingOps[i])]

\* compactPendingAfterFlush: the log is replaced by the ops that arrived while
\* the batch was being committed, and reopened.
FlushCompact ==
    /\ fpc = "exec" /\ done = Len(batch)
    /\ file # "broken"
    /\ fpc' = "compacted"
    /\ log' = CompactedLog
    /\ torn' = FALSE
    /\ file' = "open"
    /\ UNCHANGED <<sqlite, life, seed, mem, overlayVars, capped, batch,
                   flushing, flushingTombstones, tx, txPos, done, seederVars,
                   inflight, ghostVars>>

ResetBatch ==
    /\ fpc' = "idle" /\ batch' = <<>>
    /\ flushing' = NoDirty /\ flushingTombstones' = {}
    /\ tx' = Empty /\ txPos' = 0 /\ done' = 0

\* The deferred function of a flush that succeeded.
FlushEnd ==
    /\ fpc = "compacted"
    /\ ResetBatch
    /\ life' = IF life = "finalflush" THEN "flushed" ELSE life
    /\ UNCHANGED <<diskVars, seed, file, mem, overlayVars, capped, seederVars,
                   inflight, ghostVars>>

\* Mutants: the failed batch goes behind the newer ops, or is forgotten.
RestoredOpsBehind == pendingOps \o batch
RestoredOpsForgotten == pendingOps

RestoredOps == batch \o pendingOps

RestoredEntry(k) == IF HasEntry(dirty[k]) THEN dirty[k] ELSE flushing[k]

\* The deferred function of a flush that failed: the whole batch goes back in
\* front.  A final flush is retried or given up.
FlushRestore ==
    /\ fails < MaxFails /\ fails' = fails + 1
    /\ pendingOps' = RestoredOps
    /\ dirty' = [k \in Keys |-> RestoredEntry(k)]
    /\ tombstones' = flushingTombstones \cup tombstones
    /\ ResetBatch
    /\ life' \in {life} \cup (IF life = "finalflush" THEN {"flushed"} ELSE {})
    /\ UNCHANGED <<sqlite, seed, mem, nextSeq, capped, seederVars,
                   inflight, kv, saved, raced, shadowed, writes, crashes>>

\* A statement or the commit of a chunk failed: its transaction rolls back.
FlushChunkFail ==
    /\ fpc = "exec" /\ done < Len(batch)
    /\ FlushRestore
    /\ UNCHANGED <<log, torn, file>>

\* Compaction failed before the log was replaced: writing the temporary file,
\* closing the old log ("broken": it never closes again), or renaming, after
\* which the old log is reopened if it can be.
FlushCompactFail ==
    /\ fpc = "exec" /\ done = Len(batch)
    /\ FlushRestore
    /\ file' \in CASE file = "open" -> {"open", "nil", "broken"}
                  [] file = "nil" -> {"open", "nil"}
                  [] OTHER -> {"broken"}
    /\ UNCHANGED <<log, torn>>

-----------------------------------------------------------------------------
(* Close, and the end of the process. *)

CloseBegin ==
    /\ life = "running" /\ Loaded /\ fpc = "idle"
    /\ life' = IF seed = "degraded" THEN "flushed" ELSE "finalflush"
    /\ UNCHANGED <<diskVars, seed, file, mem, overlayVars, capped, flushVars,
                   seederVars, inflight, ghostVars>>

\* The final flush found nothing to do.
CloseFlushEmpty ==
    /\ life = "finalflush" /\ fpc = "idle" /\ pendingOps = <<>>
    /\ life' = "flushed"
    /\ UNCHANGED <<diskVars, seed, file, mem, overlayVars, capped, flushVars,
                   seederVars, inflight, ghostVars>>

CloseFile ==
    /\ life = "flushed"
    /\ life' = "closed"
    /\ file' = "nil"
    /\ UNCHANGED <<diskVars, seed, mem, overlayVars, capped, flushVars,
                   seederVars, inflight, ghostVars>>

\* The process is killed, or exits after Close, and a fresh one is started.
Restart ==
    /\ crashes < MaxCrashes /\ crashes' = crashes + 1
    /\ life' = "running"
    /\ seed' = "replay"
    /\ file' = "nil"
    /\ mem' = Empty
    /\ nextSeq' = 0 /\ pendingOps' = <<>> /\ dirty' = NoDirty /\ tombstones' = {}
    /\ capped' = FALSE
    /\ fpc' = "idle" /\ batch' = <<>> /\ flushing' = NoDirty
    /\ flushingTombstones' = {} /\ tx' = Empty /\ txPos' = 0 /\ done' = 0
    /\ dirtySnapshot' = {} /\ seedTodo' = {} /\ seedRow' = {}
    /\ inflight' = [w \in Writers |-> Idle]
    /\ raced' = {} /\ shadowed' = {}
    /\ kv' = saved
    /\ UNCHANGED <<sqlite, saved, writes, fails>>

Crash ==
    /\ Restart
    /\ UNCHANGED <<log, torn>>

Seeder == SeedReady \/ SeedStart \/ SeedStoreRow \/ SeedLoaded
             \/ \E k \in Hot : SeedCheckRow(k)
Flusher == FlushSteal \/ FlushExec \/ FlushCommit \/ FlushCompact \/ FlushEnd

Next ==
    \/ ReplayEntry \/ OpenLog
    \/ SeedReady \/ SeedStart \/ SeedStoreRow \/ SeedLoaded \/ SeedDegrade
    \/ \E k \in Hot : SeedCheckRow(k)
    \/ \E w \in Writers, o \in Ops : Write(w, o)
    \/ \E w \in Writers : WriteMem(w)
    \/ FlushSteal \/ FlushExec \/ FlushCommit \/ FlushCompact \/ FlushEnd
    \/ FlushChunkFail \/ FlushCompactFail
    \/ CloseBegin \/ CloseFlushEmpty \/ CloseFile
    \/ Crash

Spec == Init /\ [][Next]_vars

\* The ticker of `run' keeps starting flushes, and the goroutines that the
\* constructor starts, and the callers, keep running.
FairSpec ==
    /\ Spec
    /\ WF_vars(ReplayEntry \/ OpenLog)
    /\ WF_vars(Seeder)
    /\ WF_vars(Flusher)
    /\ \A w \in Writers : WF_vars(WriteMem(w))

-----------------------------------------------------------------------------
(* Faults outside the assumptions of Spec. *)

\* The process is killed inside the write call of appendPendingBatchLocked.
CrashTorn ==
    /\ seed # "replay" /\ file = "open"
    /\ \E w \in Writers : inflight[w] = Idle
    /\ Restart
    /\ torn' = TRUE
    /\ UNCHANGED log

\* The write call stored part of the line and returned an error (disk full):
\* the operation is refused, the fragment stays in the log.
WriteShort ==
    /\ seed # "replay" /\ file = "open" /\ ~PastCap
    /\ torn' = TRUE
    /\ UNCHANGED <<log, sqlite, life, seed, file, mem, overlayVars, capped,
                   flushVars, seederVars, inflight, ghostVars>>

TornSpec == Init /\ [][Next \/ CrashTorn \/ WriteShort]_vars

\* Compaction replaced the log and could not reopen it.
FlushReopenFail ==
    /\ fpc = "exec" /\ done = Len(batch) /\ file # "broken"
    /\ FlushRestore
    /\ log' = CompactedLog
    /\ torn' = FALSE
    /\ file' = "nil"

ReopenFailSpec == Init /\ [][Next \/ FlushReopenFail]_vars

-----------------------------------------------------------------------------
(* Properties. *)

Entry == [val : ValuesOrAbsent, seq : Nat]
Tombstone == [keys : SUBSET Keys, seq : Nat]
WalOp == [op : {"set", "delete", "delprefix"}, keys : SUBSET Keys,
          val : ValuesOrAbsent]
SeqOp == [op : {"set", "delete", "delprefix"}, keys : SUBSET Keys,
          val : ValuesOrAbsent, seq : Nat]

\* The variables have their types, and a flush that is over has left nothing
\* behind: no batch, no read cache of one, no open transaction.
TypeOK ==
    /\ log \in Seq(WalOp) /\ torn \in BOOLEAN /\ sqlite \in Contents
    /\ life \in {"running", "finalflush", "flushed", "closed"}
    /\ seed \in {"replay", "opening", "ready", "scanning", "loaded", "degraded"}
    /\ file \in {"open", "nil", "broken"}
    /\ mem \in Contents
    /\ nextSeq \in Nat /\ pendingOps \in Seq(SeqOp)
    /\ dirty \in [Keys -> Entry] /\ tombstones \in SUBSET Tombstone
    /\ capped \in BOOLEAN
    /\ fpc \in {"idle", "exec", "compacted"} /\ batch \in Seq(SeqOp)
    /\ flushing \in [Keys -> Entry] /\ flushingTombstones \in SUBSET Tombstone
    /\ tx \in Contents /\ txPos \in 0..Len(batch) /\ done \in 0..txPos
    /\ fpc = "idle" => /\ batch = <<>> /\ flushing = NoDirty
                       /\ flushingTombstones = {}
    /\ dirtySnapshot \in SUBSET Keys /\ seedTodo \in SUBSET Hot
    /\ seedRow \in SUBSET Hot
    /\ inflight \in [Writers -> WalOp \cup {Idle}]
    /\ kv \in Contents /\ saved \in Contents /\ raced \in SUBSET Hot
    /\ shadowed \in SUBSET Hot
    /\ writes \in Nat /\ crashes \in Nat /\ fails \in Nat

\* At every instant -- between two chunks of a flush, after a failed flush,
\* during or after compaction -- the disk holds every write that was accepted
\* into the log: the last log entry that covers a key carries its value, and
\* SQLite has it for a key that no entry covers.
Durable ==
    \A k \in Keys :
        /\ \A j \in DOMAIN log :
              /\ k \in log[j].keys
              /\ \A i \in DOMAIN log : i > j => k \notin log[i].keys
              => log[j].val = saved[k]
        /\ (\A j \in DOMAIN log : k \notin log[j].keys) => sqlite[k] = saved[k]

\* Only a store degraded to memory-only, past the cap of its log, accepts a
\* write that a restart would lose.
OnlyCappedWritesAreLost ==
    saved # kv => seed = "degraded" /\ capped /\ Len(log) >= LogCap

\* Overlay over SQLite.
View(k) == IF Resolve(k).found THEN Resolve(k).val ELSE sqlite[k]

\* Once the log is replayed, the overlay laid over SQLite is the sum of all the
\* accepted writes in their order, whatever part of them a flush has moved.
ViewCurrent == seed # "replay" => \A k \in Keys : View(k) = kv[k]

\* A read through the overlay (any key of a TierCached namespace, and a TierHot
\* key until the seed is over) returns the last accepted write to the key.
ReadsCurrent ==
    sqliteReadyNow =>
        \A k \in Keys : (k \in Hot /\ Loaded) \/ Read(k) = kv[k]

Settled(k) == \A w \in Writers : k \notin inflight[w].keys

\* After the seed, memory has the last accepted write of every TierHot key,
\* unless two writes to it were in flight together, one was accepted while the
\* seeder held the key's row, or a prefix that covers it was deleted earlier
\* than the end of the seed.
HotReadsCurrent ==
    seed = "loaded" =>
        \A k \in Hot \ (raced \cup shadowed) : Settled(k) => Read(k) = kv[k]

\* A write that has returned is read back in every mode of the store, degraded
\* to memory-only included.
ReadYourWrites ==
    seed # "replay" =>
        \A k \in Keys \ (raced \cup shadowed) :
            Resolve(k).found /\ Settled(k) => Read(k) = kv[k]

\* The claim that writes win over the rows of the seed, with no exception for
\* writes that race with it.
HotMemoryCurrent ==
    seed = "loaded" => \A k \in Hot : Settled(k) => mem[k] = kv[k]

\* The same claim for the keys under a prefix that was deleted before the end
\* of the seed, by a write that raced with nothing.
SeedKeepsPrefixDeletes ==
    seed = "loaded" =>
        \A k \in shadowed \ raced : Settled(k) => mem[k] = kv[k]

\* What the next restart would bring back.
Recovered ==
    [k \in Keys |->
        LET covering == {j \in DOMAIN log : k \in log[j].keys}
        IN  IF covering = {} THEN sqlite[k]
            ELSE log[CHOOSE j \in covering : \A i \in covering : i <= j].val]

Visible == IF seed = "replay" THEN Recovered ELSE [k \in Keys |-> View(k)]

\* The store implements the abstract persistent map, with the overlay over
\* SQLite as its contents and the disk as what it has saved.
KV == INSTANCE PersistentKV WITH kv <- Visible, saved <- Recovered, memOnly <- capped
ImplementsPersistentKV == KV!Spec

-----------------------------------------------------------------------------
(* The inductive invariant behind Durable and ReadsCurrent.  It speaks of "the
   last op that covers a key" by comparing sequence numbers and positions, so
   that no step of its proof needs an induction over a sequence.              *)

\* The ops whose effect SQLite need not have yet.
Unflushed == {pendingOps[i] : i \in DOMAIN pendingOps}
                \cup {batch[i] : i \in DOMAIN batch}

\* Order of acceptance is order of sequence numbers, and a batch is older than
\* everything accepted since it was taken.
SeqsOrdered ==
    /\ \A i \in DOMAIN pendingOps : pendingOps[i].seq \in 1..nextSeq
    /\ \A i \in DOMAIN batch : batch[i].seq \in 1..nextSeq
    /\ \A i, j \in DOMAIN pendingOps : i < j => pendingOps[i].seq < pendingOps[j].seq
    /\ \A i, j \in DOMAIN batch : i < j => batch[i].seq < batch[j].seq
    /\ \A i \in DOMAIN batch, j \in DOMAIN pendingOps :
          batch[i].seq < pendingOps[j].seq

\* A per-key cache and a tombstone list say what the ops behind them say.
CacheOf(ops, entries, tombs) ==
    /\ \A k \in Keys : HasEntry(entries[k]) =>
          \E i \in DOMAIN ops : /\ PerKey(ops[i], k)
                                /\ ops[i].seq = entries[k].seq
                                /\ ops[i].val = entries[k].val
    /\ \A i \in DOMAIN ops : \A k \in Keys :
          PerKey(ops[i], k) => ops[i].seq <= entries[k].seq
    /\ \A i \in DOMAIN ops : ops[i].op = "delprefix" =>
          [keys |-> ops[i].keys, seq |-> ops[i].seq] \in tombs
    /\ \A t \in tombs : \E i \in DOMAIN ops :
          ops[i].op = "delprefix" /\ ops[i].keys = t.keys /\ ops[i].seq = t.seq

CachesMatch ==
    /\ CacheOf(pendingOps, dirty, tombstones)
    /\ CacheOf(batch, flushing, flushingTombstones)

DeletesAreAbsent ==
    /\ \A o \in Unflushed : o.op = "delprefix" => o.val = Absent
    /\ \A j \in DOMAIN log : log[j].op = "delprefix" => log[j].val = Absent

\* The last op on a key carries its value; a prefix deletion with no later write
\* to the key leaves it absent; a key without an op has its value in SQLite.
UnflushedCurrent ==
    seed # "replay" =>
        \A k \in Keys :
            /\ \A o \in Unflushed :
                  /\ k \in o.keys
                  /\ \A p \in Unflushed : k \in p.keys => p.seq <= o.seq
                  => o.val = kv[k]
            /\ \A o \in Unflushed :
                  /\ o.op = "delprefix" /\ k \in o.keys
                  /\ \A p \in Unflushed : PerKey(p, k) => p.seq < o.seq
                  => kv[k] = Absent
            /\ (\A o \in Unflushed : k \notin o.keys) => sqlite[k] = kv[k]

\* Partway through a batch the transaction has the value of every key that the
\* rest of the batch and the ops after it leave alone.
BatchProgress ==
    /\ fpc # "idle" => seed = "loaded"
    /\ fpc # "idle" =>
          \A k \in Keys :
              /\ \A i \in DOMAIN batch : i > txPos => k \notin batch[i].keys
              /\ \A i \in DOMAIN pendingOps : k \notin pendingOps[i].keys
              => tx[k] = kv[k]
    /\ fpc # "idle" /\ done = txPos => sqlite = tx
    /\ fpc = "compacted" => done = Len(batch)

\* The log has an entry for every op that SQLite may lack, and the entries add
\* up to `saved'.
LogComplete ==
    /\ seed # "replay" /\ ~capped =>
          \A i \in DOMAIN pendingOps :
              \E j \in DOMAIN log : log[j].keys = pendingOps[i].keys
    /\ fpc = "exec" =>
          \A i \in DOMAIN batch : \E j \in DOMAIN log : log[j].keys = batch[i].keys
    /\ \A k \in Keys, j \in DOMAIN log :
          /\ log[j].op = "delprefix" /\ k \in log[j].keys
          /\ \A i \in DOMAIN log : i > j => ~PerKey(log[i], k)
          => saved[k] = Absent

Replaying ==
    /\ seed = "replay" =>
          /\ nextSeq = Len(pendingOps) /\ Len(pendingOps) <= Len(log)
          /\ \A i \in DOMAIN pendingOps :
                pendingOps[i].seq = i /\ WalEntry(pendingOps[i]) = log[i]
          /\ ~capped
    /\ ~capped => kv = saved
    /\ capped => seed = "degraded" /\ Len(log) >= LogCap

\* Between them these say that no interleaving of writes, chunk commits, failed
\* flushes, compactions and restarts separates the log, the overlay and SQLite
\* from the sum of the accepted writes.
IInv ==
    /\ TypeOK /\ torn = FALSE
    /\ SeqsOrdered /\ CachesMatch /\ DeletesAreAbsent
    /\ UnflushedCurrent /\ BatchProgress
    /\ LogComplete /\ Replaying /\ Durable

-----------------------------------------------------------------------------
(* The inductive invariant behind HotReadsCurrent and ReadYourWrites: what the
   memory layer holds of a TierHot key at each stage of the startup.          *)

\* An op touches one tier only.
OneTier(o) == o.keys \subseteq Hot \/ o.keys \cap Hot = {}

TiersApart ==
    /\ \A i \in DOMAIN log : OneTier(log[i])
    /\ \A i \in DOMAIN pendingOps : OneTier(pendingOps[i])
    /\ \A i \in DOMAIN batch : OneTier(batch[i])

\* The seeder holds a row only while it scans, nobody writes during the replay,
\* and what was dirty or deleted before the end of the seed still is.
Seeding ==
    /\ seedRow # {} => seed = "scanning"
    /\ seed = "replay" => \A w \in Writers : inflight[w] = Idle
    /\ ~Loaded => \A t \in tombstones : t.keys \cap Hot \subseteq shadowed
    /\ seed = "scanning" => \A k \in dirtySnapshot : HasEntry(dirty[k])

\* One write at a time is on its way to memory, and it is the last accepted.
LastInFlight(k) ==
    \A w \in Writers : k \in inflight[w].keys =>
        /\ inflight[w].val = kv[k]
        /\ \A u \in Writers : k \in inflight[u].keys => u = w
        /\ seed = "loaded" \/ Resolve(k).found

\* Memory has what was replayed and then what was written; a key without either
\* has its row, once the seeder is done with it.
MemoryOf(k) ==
    /\ seed = "replay" => mem[k] = IF HasEntry(dirty[k]) THEN dirty[k].val ELSE Absent
    /\ seed # "replay" /\ Settled(k) /\ (seed = "loaded" \/ Resolve(k).found) => mem[k] = kv[k]
    /\ k \in seedRow => ~Resolve(k).found
    /\ seed \in {"opening", "ready"} /\ ~Resolve(k).found => mem[k] = Absent
    /\ seed = "scanning" /\ ~Resolve(k).found /\ k \notin seedTodo \cup seedRow =>
          mem[k] = sqlite[k]

HotInv ==
    /\ TiersApart /\ Seeding
    /\ \A k \in Hot \ (raced \cup shadowed) : LastInFlight(k) /\ MemoryOf(k)

\* Every accepted write reaches SQLite in the end, unless the store degraded,
\* was closed, or cannot close its log file.
EventuallyPersisted ==
    [](kv # sqlite => <>(\/ kv = sqlite
                         \/ seed = "degraded"
                         \/ life \in {"flushed", "closed"}
                         \/ file = "broken"))

=============================================================================

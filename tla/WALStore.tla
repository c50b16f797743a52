------------------------------ MODULE WALStore ------------------------------
(* state.WALStore: a store that answers from memory and appends every mutation
   to a log, which is replayed on restart and compacted to a snapshot of memory
   when it grows past a limit.

   A mutation is three critical sections: the memory store's (under its own
   lock), the append, and the compaction check.  Processes: the callers
   (Writers), the periodic sync goroutine, Close, and the machine, which may
   stop at any step and keeps at least the part of the log that was synced.   *)

EXTENDS StoreOps, Integers, Sequences, FiniteSets

CONSTANTS
    Writers,       \* goroutines calling the store
    SyncModes,     \* the sync modes the store may be configured with
    MaxLog,        \* MaxLogBytes, in entries
    MaxWrites,     \* bound: mutations over all runs of the process
    MaxCrashes,    \* bound: restarts
    MaxFails       \* bound: failed file operations

ASSUME WALAssumption ==
    /\ IsFiniteSet(Keys)
    /\ SyncModes # {} /\ SyncModes \subseteq {"always", "interval", "never"}
    /\ MaxLog \in Nat \ {0}
    /\ {MaxWrites, MaxCrashes, MaxFails} \subseteq Nat

VARIABLES
    \* --- on disk
    log,           \* overcast.wal: its lines, in order
    synced,        \* how many of them fsync has covered
    \* --- the process
    syncMode,      \* the mode it was started with
    mem,           \* the memory store
    f,             \* the log's handle: "open" or "closed"
    dirty,         \* appended bytes that no successful fsync has covered
    life,          \* "open", "closing" (closed is set), "closed", "closefailed"
    closeDirty,    \* the value of dirty that Close read
    \* --- the callers
    pc,            \* "idle", "append" (memory is done), "compact" (log is done)
    inflight,      \* the mutation between memory and log
    \* --- history variables
    openLen,       \* the length of the log when this process opened it
    diverged,      \* keys whose log entries are missing or may be out of order
    writes, crashes, fails

diskVars == <<log, synced>>
closeVars == <<life, closeDirty>>
vars == <<diskVars, syncMode, mem, f, dirty, closeVars, pc, inflight, openLen, diverged,
          writes, crashes, fails>>

-----------------------------------------------------------------------------
Idle == [op |-> "idle", keys |-> {}, val |-> Absent]

InFlight(k) == \E w \in Writers : k \in inflight[w].keys

\* Mutant: replay has no case for walDeletePrefix.
ReplayedByNoPrefix(l, k) == {j \in DOMAIN l : l[j].op # "delprefix" /\ k \in l[j].keys}

\* The lines whose replay changes a key.
ReplayedBy(l, k) == {j \in DOMAIN l : k \in l[j].keys}

\* replayWALFile: line after line into an empty memory store, so that the last
\* line that mentions a key decides.
Replay(l) ==
    [k \in Keys |->
        IF ReplayedBy(l, k) = {} THEN Absent
        ELSE l[CHOOSE j \in ReplayedBy(l, k) : \A i \in ReplayedBy(l, k) : i <= j].val]

\* A first process on an empty data directory.
Init ==
    /\ log = <<>> /\ synced = 0 /\ syncMode \in SyncModes
    /\ mem = Empty /\ f = "open" /\ dirty = FALSE
    /\ life = "open" /\ closeDirty = FALSE
    /\ pc = [w \in Writers |-> "idle"]
    /\ inflight = [w \in Writers |-> Idle]
    /\ openLen = 0 /\ diverged = {}
    /\ writes = 0 /\ crashes = 0 /\ fails = 0

-----------------------------------------------------------------------------
(* Set, Delete and DeletePrefix. *)

\* The memory store first, closed or not.
WriteMem(w, o) ==
    /\ pc[w] = "idle" /\ writes < MaxWrites
    /\ mem' = Apply(mem, o)
    /\ pc' = [pc EXCEPT ![w] = "append"]
    /\ inflight' = [inflight EXCEPT ![w] = o]
    /\ diverged' = {k \in diverged : k \notin o.keys}
                      \cup {k \in o.keys : InFlight(k)}
    /\ writes' = writes + 1
    /\ UNCHANGED <<diskVars, syncMode, f, dirty, closeVars, openLen, crashes, fails>>

Return(w) ==
    /\ pc' = [pc EXCEPT ![w] = "idle"]
    /\ inflight' = [inflight EXCEPT ![w] = Idle]

\* Mutant: an append does not mark the log dirty.
DirtyAfterAppendForgotten == dirty

DirtyAfterAppend == syncMode # "always"

\* appendEntryLocked.
AppendEntry(w) ==
    /\ pc[w] = "append" /\ life = "open" /\ f = "open"
    /\ log' = Append(log, inflight[w])
    /\ dirty' = DirtyAfterAppend
    /\ synced' = IF syncMode = "always" THEN Len(log') ELSE synced
    /\ pc' = [pc EXCEPT ![w] = "compact"]
    /\ inflight' = [inflight EXCEPT ![w] = Idle]
    /\ UNCHANGED <<syncMode, mem, f, closeVars, openLen, diverged, writes, crashes, fails>>

\* ... on a store that is closed, or whose handle a failed compaction closed.
AppendRefused(w) ==
    /\ pc[w] = "append" /\ (life # "open" \/ f = "closed")
    /\ Return(w)
    /\ diverged' = diverged \cup inflight[w].keys
    /\ UNCHANGED <<diskVars, syncMode, mem, f, dirty, closeVars, openLen, writes, crashes, fails>>

\* ... whose write fails and stores nothing.
AppendFail(w) ==
    /\ pc[w] = "append" /\ life = "open" /\ f = "open"
    /\ fails < MaxFails /\ fails' = fails + 1
    /\ Return(w)
    /\ diverged' = diverged \cup inflight[w].keys
    /\ UNCHANGED <<diskVars, syncMode, mem, f, dirty, closeVars, openLen, writes, crashes>>

\* Mutant: a failed sync clears the flag as well.
DirtyAfterSyncAlways(ok) == FALSE

DirtyAfterSync(ok) == ~ok

\* ... whose sync fails: the entry is in the log, the caller gets an error.
AppendSyncFail(w) ==
    /\ syncMode = "always"
    /\ pc[w] = "append" /\ life = "open" /\ f = "open"
    /\ fails < MaxFails /\ fails' = fails + 1
    /\ log' = Append(log, inflight[w])
    /\ dirty' = DirtyAfterSync(FALSE)
    /\ Return(w)
    /\ UNCHANGED <<synced, syncMode, mem, f, closeVars, openLen, diverged, writes, crashes>>

SnapshotEntries ==
    {[op |-> "set", keys |-> {k}, val |-> mem[k]] : k \in {k \in Keys : mem[k] # Absent}}

\* writeSnapshot: one line per key in memory, in the order of a map iteration.
Snapshots ==
    {s \in [1..Cardinality(SnapshotEntries) -> SnapshotEntries] :
        \A e \in SnapshotEntries : \E i \in DOMAIN s : s[i] = e}

CompactionDue == Len(log) >= MaxLog

\* maybeCompact, on a closed store or below the limit.
CompactSkip(w) ==
    /\ pc[w] = "compact" /\ (life # "open" \/ ~CompactionDue)
    /\ Return(w)
    /\ UNCHANGED <<diskVars, syncMode, mem, f, dirty, closeVars, openLen, diverged,
                   writes, crashes, fails>>

\* The snapshot replaces the log.
Compacted ==
    /\ log' \in Snapshots
    /\ synced' = Len(log')
    /\ diverged' = {k \in diverged : InFlight(k)}

\* compactLocked.
Compact(w) ==
    /\ pc[w] = "compact" /\ life = "open" /\ CompactionDue /\ f = "open"
    /\ Compacted
    /\ dirty' = FALSE
    /\ Return(w)
    /\ UNCHANGED <<syncMode, mem, f, closeVars, openLen, writes, crashes, fails>>

\* Writing the snapshot fails, or closing the old log or renaming does, when
\* the handle is closed and the log intact.
CompactFail(w) ==
    /\ pc[w] = "compact" /\ life = "open" /\ CompactionDue
    /\ fails < MaxFails /\ fails' = fails + 1
    /\ f' \in {f, "closed"}
    /\ Return(w)
    /\ UNCHANGED <<diskVars, syncMode, mem, dirty, closeVars, openLen, diverged, writes, crashes>>

\* The log is replaced and cannot be reopened.
CompactReopenFail(w) ==
    /\ pc[w] = "compact" /\ life = "open" /\ CompactionDue /\ f = "open"
    /\ fails < MaxFails /\ fails' = fails + 1
    /\ Compacted
    /\ f' = "closed"
    /\ Return(w)
    /\ UNCHANGED <<syncMode, mem, dirty, closeVars, openLen, writes, crashes>>

\* On a handle that an earlier compaction closed: closing it again fails, if the
\* compaction gets that far.
CompactNoHandle(w) ==
    /\ pc[w] = "compact" /\ life = "open" /\ f = "closed"
    /\ Return(w)
    /\ UNCHANGED <<diskVars, syncMode, mem, f, dirty, closeVars, openLen, diverged,
                   writes, crashes, fails>>

-----------------------------------------------------------------------------
(* runPeriodicSync, Close and restart. *)

\* One tick with something to sync.
SyncTick(ok) ==
    /\ syncMode = "interval" /\ life = "open" /\ f = "open" /\ dirty
    /\ IF ok THEN synced' = Len(log) /\ UNCHANGED fails
             ELSE fails < MaxFails /\ fails' = fails + 1 /\ UNCHANGED synced
    /\ dirty' = DirtyAfterSync(ok)
    /\ UNCHANGED <<log, syncMode, mem, f, closeVars, pc, inflight, openLen,
                   diverged, writes, crashes>>

CloseBegin ==
    /\ life = "open"
    /\ life' = "closing"
    /\ closeDirty' = dirty
    /\ UNCHANGED <<diskVars, syncMode, mem, f, dirty, pc, inflight, openLen, diverged,
                   writes, crashes, fails>>

\* After the sync goroutine has stopped: the final sync, if one is due, and the
\* close of the handle.
CloseEnd ==
    /\ life = "closing" /\ f = "open"
    /\ life' = "closed"
    /\ f' = "closed"
    /\ synced' = IF closeDirty THEN Len(log) ELSE synced
    /\ UNCHANGED <<log, syncMode, mem, dirty, closeDirty, pc, inflight, openLen,
                   diverged, writes, crashes, fails>>

\* A handle that is closed already, or cannot be synced or closed.
CloseFail ==
    /\ life = "closing"
    /\ IF f = "open" THEN fails < MaxFails /\ fails' = fails + 1
                     ELSE UNCHANGED fails
    /\ life' = "closefailed"
    /\ f' = "closed"
    /\ UNCHANGED <<diskVars, syncMode, mem, dirty, closeDirty, pc, inflight, openLen,
                   diverged, writes, crashes>>

\* NewWALStore in a fresh process: the log is replayed and opened for append.
Restart ==
    /\ crashes < MaxCrashes /\ crashes' = crashes + 1
    /\ syncMode' \in SyncModes
    /\ mem' = Replay(log') /\ f' = "open" /\ dirty' = FALSE
    /\ life' = "open" /\ closeDirty' = FALSE
    /\ pc' = [w \in Writers |-> "idle"]
    /\ inflight' = [w \in Writers |-> Idle]
    /\ openLen' = Len(log') /\ diverged' = {}
    /\ UNCHANGED <<writes, fails>>

\* The process is killed between two steps, or has ended after Close.
Crash ==
    /\ UNCHANGED diskVars
    /\ Restart

\* The machine loses power: entries that were not synced may be gone.
PowerLoss ==
    /\ \E n \in synced..Len(log) : log' = SubSeq(log, 1, n) /\ synced' = n
    /\ Restart

Next ==
    \/ \E w \in Writers, o \in Ops : WriteMem(w, o)
    \/ \E w \in Writers : AppendEntry(w) \/ AppendRefused(w) \/ AppendFail(w)
    \/ \E w \in Writers : AppendSyncFail(w)
    \/ \E w \in Writers : CompactSkip(w) \/ Compact(w) \/ CompactFail(w)
    \/ \E w \in Writers : CompactReopenFail(w) \/ CompactNoHandle(w)
    \/ \E ok \in BOOLEAN : SyncTick(ok)
    \/ CloseBegin \/ CloseEnd \/ CloseFail
    \/ Crash \/ PowerLoss

Spec == Init /\ [][Next]_vars

\* The ticker keeps ticking, and a sync that failed is tried again.
FairSpec == Spec /\ WF_vars(SyncTick(TRUE))

-----------------------------------------------------------------------------
(* Properties. *)

Line == [op : {"set", "delete", "delprefix"}, keys : SUBSET Keys,
         val : ValuesOrAbsent]

\* The variables have their types; a caller holds an op until its append.
TypeOK ==
    /\ log \in Seq(Line) /\ synced \in 0..Len(log) /\ syncMode \in SyncModes
    /\ mem \in Contents /\ f \in {"open", "closed"} /\ dirty \in BOOLEAN
    /\ life \in {"open", "closing", "closed", "closefailed"}
    /\ closeDirty \in BOOLEAN
    /\ pc \in [Writers -> {"idle", "append", "compact"}]
    /\ inflight \in [Writers -> Line \cup {Idle}]
    /\ \A w \in Writers : pc[w] = "append" <=> inflight[w] # Idle
    /\ openLen \in Nat /\ diverged \in SUBSET Keys
    /\ writes \in Nat /\ crashes \in Nat /\ fails \in Nat

\* What replaying l leaves in key k, said without Replay's maximum.
ReplaysTo(l, k, v) ==
    /\ \A j \in ReplayedBy(l, k) :
          (\A i \in ReplayedBy(l, k) : i <= j) => l[j].val = v
    /\ ReplayedBy(l, k) = {} => v = Absent

\* A restart brings back exactly what readers see, whatever compactions, failed
\* syncs and failed compactions came before: for every key that no caller is
\* between memory and log with, and that was not written by two callers at once
\* or by an append that returned an error.  Compaction makes up for both.
RecoversMemory ==
    \A k \in Keys \ diverged : InFlight(k) \/ ReplaysTo(log, k, mem[k])

\* A caller between memory and log has its value in memory: no compaction can
\* drop it, and its append cannot bring an older value back.
InFlightIsVisible ==
    \A w \in Writers : \A k \in inflight[w].keys \ diverged :
        /\ mem[k] = inflight[w].val
        /\ \A u \in Writers : k \in inflight[u].keys => u = w

\* When the flag says there is nothing to sync, and after a Close that returned
\* no error, fsync has covered the log, or nothing was added to it since this
\* process opened it (what an earlier process left unsynced stays unsynced).
CleanLogIsSynced ==
    (~dirty /\ f = "open") \/ life = "closed"
        => synced = Len(log) \/ Len(log) = openLen

\* The inductive invariant.
WALInv ==
    /\ TypeOK
    /\ RecoversMemory /\ InFlightIsVisible
    /\ CleanLogIsSynced
    /\ life = "closing" => closeDirty = dirty

\* An interval-mode log is synced sooner or later after an append.
EventuallySynced ==
    (syncMode = "interval" /\ Len(log) # openLen /\ synced < Len(log))
        ~> \/ synced = Len(log) \/ Len(log) = openLen
           \/ life # "open" \/ f = "closed"

=============================================================================

------------------------- MODULE HybridStoreProofs -------------------------
(* Proofs about HybridStore for every set of keys, values, prefixes and writers
   and every value of the bounds. *)

EXTENDS HybridReads, WellFoundedInduction, TLAPS

\* Every operation a caller can issue is a log entry once it is written down.
LEMMA OpsAreWalOps == Ops \subseteq WalOp
BY StoreOpsAssumption
   DEF Ops, SetOps, DeleteOps, DeletePrefixOps, WalOp, ValuesOrAbsent

\* Applying a write to a map of the keys gives one again.
LEMMA ApplyType ==
    ASSUME NEW m \in Contents, NEW o, o.val \in ValuesOrAbsent
    PROVE  Apply(m, o) \in Contents
BY DEF Contents, Apply

\* The empty store and the empty read cache have their types.
LEMMA EmptyType == Empty \in Contents /\ NoDirty \in [Keys -> Entry]
BY DEF Empty, Contents, ValuesOrAbsent, NoDirty, NoEntry, Entry

\* applyOverlayLocked keeps the types of the op list and of its caches.
LEMMA OverlayType ==
    ASSUME TypeOK, NEW o \in WalOp, ApplyOverlay(o)
    PROVE  /\ nextSeq' \in Nat /\ pendingOps' \in Seq(SeqOp)
           /\ dirty' \in [Keys -> Entry] /\ tombstones' \in SUBSET Tombstone
<1>1. PendingOp(o, nextSeq + 1) \in SeqOp
  BY DEF TypeOK, PendingOp, WalOp, SeqOp
<1>2. pendingOps' \in Seq(SeqOp)
  BY <1>1 DEF TypeOK, ApplyOverlay
<1>3. [keys |-> o.keys, seq |-> nextSeq + 1] \in Tombstone
  BY DEF TypeOK, WalOp, Tombstone
<1>4. [val |-> o.val, seq |-> nextSeq + 1] \in Entry
  BY DEF TypeOK, WalOp, Entry
<1> QED BY <1>2, <1>3, <1>4 DEF TypeOK, ApplyOverlay

\* What rewritePendingLocked writes is a log.
LEMMA CompactType ==
    ASSUME NEW ops \in Seq(SeqOp)
    PROVE  [i \in 1..Len(ops) |-> WalEntry(ops[i])] \in Seq(WalOp)
<1>1. ASSUME NEW i \in 1..Len(ops) PROVE WalEntry(ops[i]) \in WalOp
  <2>1. ops[i] \in SeqOp OBVIOUS
  <2> QED BY <2>1 DEF WalEntry, SeqOp, WalOp
<1> QED BY <1>1

\* So are the parts of a process that has just started.
LEMMA FreshType ==
    /\ 0 \in 0..Len(<<>>) /\ 0 \in 0..0
    /\ <<>> \in Seq(SeqOp) /\ <<>> \in Seq(WalOp)
    /\ [w \in Writers |-> Idle] \in [Writers -> WalOp \cup {Idle}]
<1>1. Len(<<>>) = 0 OBVIOUS
<1>2. [w \in Writers |-> Idle] \in [Writers -> WalOp \cup {Idle}] OBVIOUS
<1> QED BY <1>1, <1>2

\* The first process on an empty data directory is well typed.
LEMMA TypeInit == Init => TypeOK
<1> SUFFICES ASSUME Init PROVE TypeOK OBVIOUS
<1> QED BY EmptyType, FreshType DEF Init, TypeOK

\* Giving a failed batch back keeps the types of the overlay.
LEMMA RestoreType ==
    ASSUME TypeOK, FlushRestore, log' \in Seq(WalOp), torn' \in BOOLEAN,
           file' \in {"open", "nil", "broken"}
    PROVE  TypeOK'
<1>1. dirty' \in [Keys -> Entry]
  BY DEF TypeOK, FlushRestore, RestoredEntry
<1>2. pendingOps' \in Seq(SeqOp) /\ tombstones' \in SUBSET Tombstone
  BY DEF TypeOK, FlushRestore, RestoredOps
<1>3. life' \in {"running", "finalflush", "flushed", "closed"} /\ fails' \in Nat
  BY DEF TypeOK, FlushRestore
<1>4. /\ fpc' = "idle" /\ batch' = <<>> /\ flushing' = NoDirty
      /\ flushingTombstones' = {} /\ tx' = Empty /\ txPos' = 0 /\ done' = 0
  BY DEF FlushRestore, ResetBatch
<1>5. UNCHANGED <<sqlite, seed, mem, nextSeq, capped, dirtySnapshot, seedTodo,
                  seedRow, inflight, kv, saved, raced, shadowed, writes, crashes>>
  BY DEF FlushRestore, seederVars
<1> QED BY <1>1, <1>2, <1>3, <1>4, <1>5, EmptyType DEF TypeOK

\* No step of writers, seeder, flush or Close leaves the types.
LEMMA TypeStep == TypeOK /\ [Next]_vars => TypeOK'
<1> SUFFICES ASSUME TypeOK, [Next]_vars PROVE TypeOK'
  OBVIOUS
<1>1. CASE ReplayEntry
  <2> DEFINE o == log[Len(pendingOps) + 1]
  <2>1. o \in WalOp BY <1>1 DEF ReplayEntry, TypeOK
  <2>2. ApplyOverlay(o) BY <1>1 DEF ReplayEntry
  <2>3. Apply(mem, o) \in Contents BY <2>1, ApplyType DEF TypeOK, WalOp
  <2> HIDE DEF o
  <2>4. mem' \in Contents /\ shadowed' \in SUBSET Hot
    BY <1>1, <2>3, HybridAssumption DEF ReplayEntry, ReplayMem, o, TypeOK
  <2> QED BY <1>1, <2>1, <2>2, <2>4, OverlayType
       DEF ReplayEntry, TypeOK, diskVars, flushVars, seederVars
<1>2. CASE OpenLog
  BY <1>2 DEF OpenLog, TypeOK, diskVars, overlayVars, flushVars, seederVars, ghostVars
<1>3. CASE SeedReady
  BY <1>3 DEF SeedReady, TypeOK, diskVars, overlayVars, flushVars, seederVars, ghostVars
<1>4. CASE SeedStart
  BY <1>4 DEF SeedStart, TypeOK, diskVars, overlayVars, flushVars, ghostVars
<1>5. CASE SeedStoreRow
  BY <1>5 DEF SeedStoreRow, TypeOK, Contents, diskVars, overlayVars, flushVars, ghostVars
<1>6. CASE SeedLoaded
  BY <1>6 DEF SeedLoaded, TypeOK, diskVars, overlayVars, flushVars, seederVars, ghostVars
<1>7. CASE SeedDegrade
  BY <1>7 DEF SeedDegrade, TypeOK, diskVars, overlayVars, flushVars, seederVars, ghostVars
<1>8. ASSUME NEW k \in Hot, SeedCheckRow(k) PROVE TypeOK'
  BY <1>8 DEF SeedCheckRow, TypeOK, diskVars, overlayVars, flushVars, ghostVars
<1>9. ASSUME NEW w \in Writers, NEW o \in Ops, Write(w, o) PROVE TypeOK'
  <2>1. o \in WalOp BY OpsAreWalOps
  <2>2. ApplyOverlay(o) BY <1>9 DEF Write
  <2>3. WalEntry(o) \in WalOp BY <2>1 DEF WalEntry, WalOp
  <2>4. log' \in Seq(WalOp) /\ torn' \in BOOLEAN /\ saved' \in Contents
    <3>1. CASE PastCap
      BY <1>9, <3>1 DEF Write, TypeOK
    <3>2. CASE ~PastCap
      <4>1. AppendPending(o) /\ saved' = Apply(saved, o)
        BY <1>9, <3>2 DEF Write
      <4>2. saved' \in Contents
        BY <4>1, <2>1, ApplyType DEF TypeOK, WalOp
      <4>3. log \in Seq(WalOp) /\ Append(log, WalEntry(o)) \in Seq(WalOp)
        BY <2>3 DEF TypeOK
      <4>4. log' \in {log, Append(log, WalEntry(o))} /\ torn' = FALSE
        BY <4>1, Zenon DEF AppendPending
      <4> QED BY <4>2, <4>3, <4>4
    <3> QED BY <3>1, <3>2
  <2>5. kv' \in Contents
    BY <1>9, <2>1, ApplyType DEF Write, TypeOK, WalOp
  <2>6. inflight' \in [Writers -> WalOp \cup {Idle}]
    BY <1>9, <2>1 DEF Write, TypeOK
  <2>7. raced' \in SUBSET Hot /\ shadowed' \in SUBSET Hot
    BY <1>9 DEF Write, TypeOK
  <2>8. capped' \in BOOLEAN
    BY <1>9 DEF Write, TypeOK, PastCap
  <2> QED BY <1>9, <2>1, <2>2, <2>4, <2>5, <2>6, <2>7, <2>8, OverlayType
       DEF Write, TypeOK, flushVars, seederVars
<1>10. ASSUME NEW w \in Writers, WriteMem(w) PROVE TypeOK'
  <2>1. inflight[w] \in WalOp BY <1>10 DEF WriteMem, TypeOK
  <2>2. mem' \in Contents BY <1>10, <2>1, ApplyType DEF WriteMem, TypeOK, WalOp
  <2> QED BY <1>10, <2>2
       DEF WriteMem, TypeOK, diskVars, overlayVars, flushVars, seederVars, ghostVars
<1>11. CASE FlushSteal
  BY <1>11, EmptyType
     DEF FlushSteal, TypeOK, diskVars, seederVars, ghostVars
<1>12. CASE FlushExec
  <2>1. batch[txPos + 1] \in SeqOp BY <1>12 DEF FlushExec, TypeOK
  <2>2. tx' \in Contents BY <1>12, <2>1, ApplyType DEF FlushExec, TypeOK, SeqOp
  <2> QED BY <1>12, <2>2
       DEF FlushExec, TypeOK, diskVars, overlayVars, seederVars, ghostVars
<1>13. CASE FlushCommit
  BY <1>13 DEF FlushCommit, TypeOK, overlayVars, seederVars, ghostVars
<1>14. CASE FlushCompact
  BY <1>14, CompactType DEF FlushCompact, CompactedLog, TypeOK, overlayVars, seederVars, ghostVars
<1>15. CASE FlushEnd
  BY <1>15, EmptyType
     DEF FlushEnd, ResetBatch, TypeOK, diskVars, overlayVars, seederVars, ghostVars
<1>16. CASE FlushChunkFail
  BY <1>16, RestoreType DEF FlushChunkFail, TypeOK
<1>17. CASE FlushCompactFail
  BY <1>17, RestoreType DEF FlushCompactFail, TypeOK
<1>18. CASE CloseBegin
  BY <1>18 DEF CloseBegin, TypeOK, diskVars, overlayVars, flushVars, seederVars, ghostVars
<1>19. CASE CloseFlushEmpty
  BY <1>19 DEF CloseFlushEmpty, TypeOK, diskVars, overlayVars, flushVars, seederVars, ghostVars
<1>20. CASE CloseFile
  BY <1>20 DEF CloseFile, TypeOK, diskVars, overlayVars, flushVars, seederVars, ghostVars
<1>21. CASE Crash
  <2>1. /\ log' = log /\ torn' = torn /\ sqlite' = sqlite
        /\ life' = "running" /\ seed' = "replay" /\ file' = "nil" /\ mem' = Empty
        /\ nextSeq' = 0 /\ pendingOps' = <<>> /\ dirty' = NoDirty /\ tombstones' = {}
        /\ capped' = FALSE
    BY <1>21 DEF Crash, Restart
  <2>2. /\ fpc' = "idle" /\ batch' = <<>> /\ flushing' = NoDirty
        /\ flushingTombstones' = {} /\ tx' = Empty /\ txPos' = 0 /\ done' = 0
        /\ dirtySnapshot' = {} /\ seedTodo' = {} /\ seedRow' = {}
        /\ inflight' = [w \in Writers |-> Idle]
        /\ raced' = {} /\ shadowed' = {}
    BY <1>21 DEF Crash, Restart
  <2>3. /\ kv' = saved /\ saved' = saved /\ writes' = writes
        /\ crashes' = crashes + 1 /\ fails' = fails
    BY <1>21 DEF Crash, Restart
  <2>4. /\ kv' \in Contents /\ saved' \in Contents
        /\ writes' \in Nat /\ crashes' \in Nat /\ fails' \in Nat
    BY <2>3 DEF TypeOK
  <2>5. /\ log' \in Seq(WalOp) /\ torn' \in BOOLEAN /\ sqlite' \in Contents
        /\ nextSeq' \in Nat /\ pendingOps' \in Seq(SeqOp)
        /\ dirty' \in [Keys -> Entry] /\ mem' \in Contents
    BY <2>1, EmptyType, FreshType DEF TypeOK
  <2>6. /\ batch' \in Seq(SeqOp) /\ flushing' \in [Keys -> Entry] /\ tx' \in Contents
        /\ txPos' \in 0..Len(batch') /\ done' \in 0..txPos'
    BY <2>2, EmptyType, FreshType
  <2>7. inflight' \in [Writers -> WalOp \cup {Idle}]
    BY <2>2, FreshType
  <2> QED BY <2>1, <2>2, <2>4, <2>5, <2>6, <2>7 DEF TypeOK
<1>22. CASE UNCHANGED vars
  BY <1>22 DEF vars, TypeOK, diskVars, overlayVars, flushVars, seederVars, ghostVars
<1> QED
  BY <1>1, <1>2, <1>3, <1>4, <1>5, <1>6, <1>7, <1>8, <1>9, <1>10, <1>11,
     <1>12, <1>13, <1>14, <1>15, <1>16, <1>17, <1>18, <1>19, <1>20, <1>21, <1>22
     DEF Next

-----------------------------------------------------------------------------
(* Facts about the overlay. *)

\* Accepting an op keeps the overlay ordered and its caches exact.
LEMMA OverlayStep ==
    ASSUME TypeOK, SeqsOrdered, CachesMatch, NEW o \in WalOp, ApplyOverlay(o),
           UNCHANGED <<batch, flushing, flushingTombstones>>
    PROVE  /\ SeqsOrdered' /\ CachesMatch'
           /\ Unflushed' = Unflushed \cup {PendingOp(o, nextSeq + 1)}
<1> DEFINE n == Len(pendingOps)
           new == PendingOp(o, nextSeq + 1)
<1>0. /\ pendingOps \in Seq(SeqOp) /\ batch \in Seq(SeqOp) /\ n \in Nat
      /\ nextSeq \in Nat /\ new.seq = nextSeq + 1 /\ new.op = o.op
      /\ new.keys = o.keys /\ new.val = o.val
  BY DEF TypeOK, PendingOp
<1>1. /\ DOMAIN pendingOps = 1..n /\ DOMAIN pendingOps' = 1..(n + 1)
      /\ \A i \in 1..n : pendingOps'[i] = pendingOps[i]
      /\ pendingOps'[n + 1] = new
  BY <1>0 DEF ApplyOverlay
<1>2. nextSeq' = nextSeq + 1 BY DEF ApplyOverlay
<1> HIDE DEF new, n
<1>3. SeqsOrdered'
  <2>1. SeqsOrdered OBVIOUS
  <2>2. /\ \A i \in DOMAIN pendingOps' : pendingOps'[i].seq \in 1..nextSeq'
        /\ \A i \in DOMAIN batch' : batch'[i].seq \in 1..nextSeq'
    <3>1. \A i \in 1..n : pendingOps'[i].seq \in 1..nextSeq
      BY <1>1, <2>1 DEF SeqsOrdered
    <3>2. \A i \in DOMAIN batch' : batch'[i].seq \in 1..nextSeq
      BY <2>1 DEF SeqsOrdered
    <3> QED BY <1>0, <1>1, <1>2, <3>1, <3>2
  <2>3. \A i, j \in DOMAIN pendingOps' :
           i < j => pendingOps'[i].seq < pendingOps'[j].seq
    <3> SUFFICES ASSUME NEW i \in DOMAIN pendingOps', NEW j \in DOMAIN pendingOps',
                        i < j
                 PROVE  pendingOps'[i].seq < pendingOps'[j].seq
      OBVIOUS
    <3>1. i \in 1..n /\ pendingOps'[i] = pendingOps[i] BY <1>0, <1>1
    <3>2. pendingOps[i].seq \in 1..nextSeq BY <1>1, <2>1, <3>1 DEF SeqsOrdered
    <3>3. CASE j = n + 1 BY <1>0, <1>1, <3>1, <3>2, <3>3
    <3>4. CASE j \in 1..n BY <1>1, <2>1, <3>1, <3>4 DEF SeqsOrdered
    <3> QED BY <1>0, <1>1, <3>3, <3>4
  <2>4. \A i \in DOMAIN batch', j \in DOMAIN pendingOps' :
           batch'[i].seq < pendingOps'[j].seq
    <3> SUFFICES ASSUME NEW i \in DOMAIN batch, NEW j \in DOMAIN pendingOps'
                 PROVE  batch[i].seq < pendingOps'[j].seq
      OBVIOUS
    <3>1. batch[i].seq \in 1..nextSeq BY <2>1 DEF SeqsOrdered
    <3>2. CASE j = n + 1 BY <1>0, <1>1, <3>1, <3>2
    <3>3. CASE j \in 1..n BY <1>1, <2>1, <3>3 DEF SeqsOrdered
    <3> QED BY <1>0, <1>1, <3>2, <3>3
  <2> QED BY <2>1, <2>2, <2>3, <2>4 DEF SeqsOrdered
<1>4. CacheOf(pendingOps, dirty, tombstones)'
  <2>1. \A k \in Keys :
           dirty'[k] = IF PerKey(o, k) THEN [val |-> o.val, seq |-> nextSeq + 1]
                                       ELSE dirty[k]
    BY DEF ApplyOverlay
  <2>2. \A k \in Keys : PerKey(new, k) <=> PerKey(o, k)
    BY <1>0 DEF PerKey
  <2>3. CacheOf(pendingOps, dirty, tombstones)
    BY DEF CachesMatch
  <2>4. ASSUME NEW k \in Keys, HasEntry(dirty'[k])
        PROVE  \E i \in DOMAIN pendingOps' :
                  /\ PerKey(pendingOps'[i], k)
                  /\ pendingOps'[i].seq = dirty'[k].seq
                  /\ pendingOps'[i].val = dirty'[k].val
    <3>1. CASE PerKey(o, k)
      BY <1>0, <1>1, <2>1, <2>2, <3>1
    <3>2. CASE ~PerKey(o, k)
      BY <1>0, <1>1, <2>1, <2>3, <2>4, <3>2 DEF CacheOf
    <3> QED BY <3>1, <3>2
  <2>5. ASSUME NEW i \in DOMAIN pendingOps', NEW k \in Keys,
               PerKey(pendingOps'[i], k)
        PROVE  pendingOps'[i].seq <= dirty'[k].seq
    <3>1. CASE i = n + 1
      BY <1>0, <1>1, <2>1, <2>2, <2>5, <3>1
    <3>2. CASE i \in 1..n
      BY <1>0, <1>1, <2>1, <2>3, <2>5, <3>2 DEF CacheOf, SeqsOrdered
    <3> QED BY <1>0, <1>1, <3>1, <3>2
  <2>6. ASSUME NEW i \in DOMAIN pendingOps', pendingOps'[i].op = "delprefix"
        PROVE  [keys |-> pendingOps'[i].keys, seq |-> pendingOps'[i].seq]
                  \in tombstones'
    <3>1. CASE i = n + 1
      BY <1>0, <1>1, <2>6, <3>1 DEF ApplyOverlay
    <3>2. CASE i \in 1..n
      BY <1>0, <1>1, <2>3, <2>6, <3>2 DEF CacheOf, ApplyOverlay
    <3> QED BY <1>0, <1>1, <3>1, <3>2
  <2>7. ASSUME NEW t \in tombstones'
        PROVE  \E i \in DOMAIN pendingOps' :
                  /\ pendingOps'[i].op = "delprefix"
                  /\ pendingOps'[i].keys = t.keys /\ pendingOps'[i].seq = t.seq
    <3>1. CASE t \in tombstones
      BY <1>0, <1>1, <2>3, <3>1 DEF CacheOf
    <3>2. CASE t \notin tombstones
      <4>1. o.op = "delprefix" /\ t = [keys |-> o.keys, seq |-> nextSeq + 1]
        BY <2>7, <3>2 DEF ApplyOverlay
      <4> QED BY <1>0, <1>1, <4>1
    <3> QED BY <3>1, <3>2
  <2> QED BY <2>4, <2>5, <2>6, <2>7 DEF CacheOf
<1>5. CacheOf(batch, flushing, flushingTombstones)'
  BY DEF CachesMatch, CacheOf
<1>6. Unflushed' = Unflushed \cup {new}
  <2>1. {pendingOps'[i] : i \in DOMAIN pendingOps'}
           = {pendingOps[i] : i \in DOMAIN pendingOps} \cup {new}
    BY <1>0, <1>1
  <2> QED BY <2>1 DEF Unflushed
<1> QED BY <1>3, <1>4, <1>5, <1>6 DEF CachesMatch, new

\* A sequence number names one op.
LEMMA SeqsUnique ==
    ASSUME TypeOK, SeqsOrdered
    PROVE  \A o, p \in Unflushed : o.seq = p.seq => o = p
<1>1. ASSUME NEW i \in DOMAIN pendingOps, NEW j \in DOMAIN pendingOps,
             pendingOps[i].seq = pendingOps[j].seq
      PROVE  i = j
  <2>1. i \in Nat /\ j \in Nat /\ pendingOps[i].seq \in Nat BY DEF TypeOK, SeqsOrdered
  <2>2. ~(i < j) /\ ~(j < i) BY <1>1, <2>1 DEF SeqsOrdered
  <2> QED BY <2>1, <2>2
<1>2. ASSUME NEW i \in DOMAIN batch, NEW j \in DOMAIN batch,
             batch[i].seq = batch[j].seq
      PROVE  i = j
  <2>1. i \in Nat /\ j \in Nat /\ batch[i].seq \in Nat BY DEF TypeOK, SeqsOrdered
  <2>2. ~(i < j) /\ ~(j < i) BY <1>2, <2>1 DEF SeqsOrdered
  <2> QED BY <2>1, <2>2
<1>3. ASSUME NEW i \in DOMAIN batch, NEW j \in DOMAIN pendingOps
      PROVE  batch[i].seq # pendingOps[j].seq
  <2>1. batch[i].seq \in Nat /\ batch[i].seq < pendingOps[j].seq BY DEF SeqsOrdered
  <2> QED BY <2>1
<1> QED BY <1>1, <1>2, <1>3 DEF Unflushed

\* The overlay over SQLite shows what the unflushed ops add up to.
LEMMA ViewFromInvariant == IInv => ViewCurrent
<1> SUFFICES ASSUME IInv, seed # "replay", NEW k \in Keys PROVE View(k) = kv[k]
  BY DEF ViewCurrent
<1> DEFINE entry == IF HasEntry(dirty[k]) THEN dirty[k] ELSE flushing[k]
           tombs == {t \in tombstones \cup flushingTombstones : k \in t.keys}
<1>0. /\ TypeOK /\ SeqsOrdered
      /\ CacheOf(pendingOps, dirty, tombstones)
      /\ CacheOf(batch, flushing, flushingTombstones)
  BY DEF IInv, CachesMatch
<1>t. /\ \A o \in Unflushed : o.seq \in Nat /\ o.seq > 0
      /\ dirty[k].seq \in Nat /\ flushing[k].seq \in Nat
  BY <1>0 DEF TypeOK, SeqsOrdered, Unflushed, Entry
<1>1. \A o \in Unflushed : PerKey(o, k) => HasEntry(entry) /\ o.seq <= entry.seq
  BY <1>0, <1>t DEF CacheOf, Unflushed, SeqsOrdered, HasEntry
<1>2. HasEntry(entry) =>
         \E o \in Unflushed : PerKey(o, k) /\ o.seq = entry.seq /\ o.val = entry.val
  BY <1>0 DEF CacheOf, Unflushed
<1>3. \A o \in Unflushed : o.op = "delprefix" /\ k \in o.keys =>
         \E t \in tombs : t.seq = o.seq
  <2> SUFFICES ASSUME NEW o \in Unflushed, o.op = "delprefix", k \in o.keys
               PROVE  [keys |-> o.keys, seq |-> o.seq] \in tombs
    OBVIOUS
  <2>1. [keys |-> o.keys, seq |-> o.seq] \in tombstones \cup flushingTombstones
    BY <1>0 DEF CacheOf, Unflushed
  <2> QED BY <2>1
<1>4. \A t \in tombs : \E o \in Unflushed :
         o.op = "delprefix" /\ k \in o.keys /\ o.seq = t.seq
  BY <1>0 DEF CacheOf, Unflushed
<1>5. \A o, p \in Unflushed : o.seq = p.seq => o = p
  BY <1>0, SeqsUnique
<1>6. /\ \A o \in Unflushed :
            k \in o.keys /\ (\A p \in Unflushed : k \in p.keys => p.seq <= o.seq)
            => o.val = kv[k]
      /\ \A o \in Unflushed :
            /\ o.op = "delprefix" /\ k \in o.keys
            /\ \A p \in Unflushed : PerKey(p, k) => p.seq < o.seq
            => kv[k] = Absent
      /\ (\A o \in Unflushed : k \notin o.keys) => sqlite[k] = kv[k]
  BY DEF IInv, UnflushedCurrent
<1>e. entry.seq \in Nat BY <1>t
<1> HIDE DEF entry, tombs
<1>7. CASE HasEntry(entry) /\ \A t \in tombs : entry.seq > t.seq
  <2>1. PICK o \in Unflushed :
           PerKey(o, k) /\ o.seq = entry.seq /\ o.val = entry.val
    BY <1>2, <1>7
  <2>2. \A p \in Unflushed : k \in p.keys => p.seq <= o.seq
    BY <1>1, <1>3, <1>7, <1>t, <2>1 DEF PerKey
  <2>3. o.val = kv[k] BY <1>6, <2>1, <2>2 DEF PerKey
  <2> QED BY <1>7, <2>1, <2>3 DEF View, Resolve, entry, tombs
<1>8. CASE ~(HasEntry(entry) /\ \A t \in tombs : entry.seq > t.seq) /\ tombs # {}
  <2>1. PICK t \in tombs : HasEntry(entry) => ~(entry.seq > t.seq)
    BY <1>8
  <2>2. PICK o \in Unflushed : o.op = "delprefix" /\ k \in o.keys /\ o.seq = t.seq
    BY <1>4
  <2>3. \A p \in Unflushed : PerKey(p, k) => p.seq < o.seq
    BY <1>1, <1>5, <1>t, <1>e, <2>1, <2>2 DEF PerKey
  <2>4. kv[k] = Absent BY <1>6, <2>2, <2>3
  <2> QED BY <1>8, <2>4 DEF View, Resolve, entry, tombs
<1>9. CASE ~HasEntry(entry) /\ tombs = {}
  <2>1. \A o \in Unflushed : k \notin o.keys
    BY <1>1, <1>3, <1>9 DEF PerKey
  <2> QED BY <1>6, <1>9, <2>1 DEF View, Resolve, entry, tombs
<1> QED BY <1>7, <1>8, <1>9

-----------------------------------------------------------------------------
(* The inductive invariant: one lemma per action that can disturb it. *)

\* An empty data directory satisfies the inductive invariant.
LEMMA InvInit == Init => IInv
<1> SUFFICES ASSUME Init PROVE IInv OBVIOUS
<1>1. TypeOK BY TypeInit
<1>2. /\ DOMAIN log = {} /\ DOMAIN pendingOps = {} /\ DOMAIN batch = {}
      /\ Len(log) = 0 /\ Len(pendingOps) = 0
  BY DEF Init
<1>3. \A k \in Keys : dirty[k].seq = 0 /\ flushing[k].seq = 0
  BY DEF Init, NoDirty, NoEntry
<1>4. SeqsOrdered /\ CachesMatch
  BY <1>2, <1>3 DEF Init, SeqsOrdered, CachesMatch, CacheOf, HasEntry
<1>5. DeletesAreAbsent BY <1>2 DEF DeletesAreAbsent, Unflushed
<1>6. UnflushedCurrent /\ BatchProgress BY DEF Init, UnflushedCurrent, BatchProgress
<1>7. LogComplete /\ Replaying BY <1>2 DEF Init, LogComplete, Replaying
<1>8. Durable BY <1>2 DEF Init, Durable
<1> QED BY <1>1, <1>4, <1>5, <1>6, <1>7, <1>8 DEF Init, IInv

\* Steps of the seeder, of Close and of the memory layer.
LEMMA InvFrame ==
    ASSUME IInv, TypeOK',
           UNCHANGED <<log, torn, sqlite, nextSeq, pendingOps, dirty, tombstones,
                       capped, fpc, batch, flushing, flushingTombstones, tx,
                       txPos, done, kv, saved>>,
           \/ seed' = seed
           \/ seed \notin {"replay", "loaded", "degraded"} /\ seed' # "replay"
    PROVE  IInv'
<1>1. SeqsOrdered' /\ CachesMatch' /\ DeletesAreAbsent'
  BY DEF IInv, SeqsOrdered, CachesMatch, CacheOf, DeletesAreAbsent, Unflushed
<1>2. UnflushedCurrent'
  BY DEF IInv, UnflushedCurrent, Unflushed
<1>3. BatchProgress'
  BY DEF IInv, BatchProgress
<1>4. LogComplete' /\ Replaying'
  BY DEF IInv, LogComplete, Replaying
<1>5. Durable' BY DEF IInv, Durable
<1> QED BY <1>1, <1>2, <1>3, <1>4, <1>5 DEF IInv

\* Replaying a line of the log keeps the overlay a prefix of the log.
LEMMA InvReplayEntry == ASSUME IInv, TypeOK', ReplayEntry PROVE IInv'
<1> DEFINE n == Len(pendingOps)
           o == log[n + 1]
           new == PendingOp(o, nextSeq + 1)
<1>0. /\ TypeOK /\ seed = "replay" /\ seed' = seed /\ n < Len(log)
      /\ ApplyOverlay(o)
      /\ UNCHANGED <<log, torn, sqlite, capped, fpc, batch, flushing,
                     flushingTombstones, tx, txPos, done, kv, saved>>
  BY DEF IInv, ReplayEntry, diskVars, flushVars
<1>1. /\ n \in Nat /\ o \in WalOp /\ n + 1 \in DOMAIN log
  BY <1>0 DEF TypeOK
<1>2. /\ SeqsOrdered' /\ CachesMatch' /\ Unflushed' = Unflushed \cup {new}
  <2> HIDE DEF o
  <2> QED BY <1>0, <1>1, OverlayStep DEF IInv
<1>3. DeletesAreAbsent'
  BY <1>0, <1>1, <1>2 DEF IInv, DeletesAreAbsent, PendingOp
<1>4. UnflushedCurrent' BY <1>0 DEF UnflushedCurrent
<1>5. fpc = "idle" BY <1>0 DEF IInv, BatchProgress, TypeOK
<1>6. BatchProgress' BY <1>0, <1>5 DEF BatchProgress
<1>7. LogComplete' BY <1>0, <1>5 DEF IInv, LogComplete
<1>8. Replaying'
  <2>1. /\ DOMAIN pendingOps' = 1..(n + 1) /\ Len(pendingOps') = n + 1
        /\ \A i \in 1..n : pendingOps'[i] = pendingOps[i]
        /\ pendingOps'[n + 1] = new /\ nextSeq' = nextSeq + 1
        /\ DOMAIN pendingOps = 1..n
    BY <1>0, <1>1 DEF ApplyOverlay, TypeOK
  <2>2. nextSeq = n BY <1>0 DEF IInv, Replaying
  <2>3. new.seq = n + 1 /\ WalEntry(new) = o
    BY <1>1, <2>2 DEF PendingOp, WalEntry, WalOp
  <2>4. \A i \in 1..n : pendingOps[i].seq = i /\ WalEntry(pendingOps[i]) = log[i]
    BY <1>0, <2>1 DEF IInv, Replaying
  <2> HIDE DEF new
  <2>5. \A i \in 1..(n + 1) :
           pendingOps'[i].seq = i /\ WalEntry(pendingOps'[i]) = log'[i]
    BY <1>0, <1>1, <2>1, <2>3, <2>4
  <2> QED BY <1>0, <1>1, <2>1, <2>2, <2>5 DEF IInv, Replaying, TypeOK
<1>9. Durable' BY <1>0 DEF IInv, Durable
<1> QED BY <1>0, <1>2, <1>3, <1>4, <1>6, <1>7, <1>8, <1>9 DEF IInv

\* Once all lines are replayed, the overlay over SQLite is what was saved.
LEMMA InvOpenLog == ASSUME IInv, TypeOK', OpenLog PROVE IInv'
<1>0. /\ TypeOK /\ seed = "replay" /\ seed' = "opening"
      /\ Len(pendingOps) = Len(log)
      /\ UNCHANGED <<log, torn, sqlite, nextSeq, pendingOps, dirty, tombstones,
                     capped, fpc, batch, flushing, flushingTombstones, tx,
                     txPos, done, kv, saved>>
  BY DEF IInv, OpenLog, diskVars, overlayVars, flushVars, ghostVars
<1>1. fpc = "idle" /\ batch = <<>>
  BY <1>0 DEF IInv, BatchProgress, TypeOK
<1>2. /\ DOMAIN pendingOps = DOMAIN log /\ kv = saved /\ ~capped
      /\ \A i \in DOMAIN log : /\ pendingOps[i].seq = i
                               /\ pendingOps[i].op = log[i].op
                               /\ pendingOps[i].keys = log[i].keys
                               /\ pendingOps[i].val = log[i].val
  <2>1. DOMAIN pendingOps = DOMAIN log BY <1>0 DEF TypeOK
  <2>2. kv = saved /\ ~capped BY <1>0 DEF IInv, Replaying
  <2>3. ASSUME NEW i \in DOMAIN log
        PROVE  /\ pendingOps[i].seq = i
               /\ pendingOps[i].op = log[i].op
               /\ pendingOps[i].keys = log[i].keys
               /\ pendingOps[i].val = log[i].val
    <3>1. pendingOps[i].seq = i /\ WalEntry(pendingOps[i]) = log[i]
      BY <1>0, <2>1 DEF IInv, Replaying
    <3> QED BY <3>1 DEF WalEntry
  <2> QED BY <2>1, <2>2, <2>3
<1>3. Unflushed = {pendingOps[i] : i \in DOMAIN log}
  BY <1>1, <1>2 DEF Unflushed
<1>4. SeqsOrdered' /\ CachesMatch' /\ DeletesAreAbsent'
  BY <1>0 DEF IInv, SeqsOrdered, CachesMatch, CacheOf, DeletesAreAbsent, Unflushed
<1>d. \A i \in DOMAIN log : i \in Nat BY <1>0 DEF TypeOK
<1>5. UnflushedCurrent'
  <2> SUFFICES ASSUME NEW k \in Keys
        PROVE /\ \A o \in Unflushed :
                    /\ k \in o.keys
                    /\ \A p \in Unflushed : k \in p.keys => p.seq <= o.seq
                    => o.val = kv[k]
              /\ \A o \in Unflushed :
                    /\ o.op = "delprefix" /\ k \in o.keys
                    /\ \A p \in Unflushed : PerKey(p, k) => p.seq < o.seq
                    => kv[k] = Absent
              /\ (\A o \in Unflushed : k \notin o.keys) => sqlite[k] = kv[k]
    BY <1>0 DEF UnflushedCurrent, Unflushed
  <2>1. ASSUME NEW i \in DOMAIN log, k \in pendingOps[i].keys,
               \A p \in Unflushed : k \in p.keys => p.seq <= pendingOps[i].seq
        PROVE  pendingOps[i].val = kv[k]
    <3>1. \A j \in DOMAIN log : j > i => k \notin log[j].keys
      BY <1>2, <1>3, <1>d, <2>1
    <3> QED BY <1>2, <2>1, <3>1 DEF IInv, Durable
  <2>2. ASSUME NEW i \in DOMAIN log,
               pendingOps[i].op = "delprefix", k \in pendingOps[i].keys,
               \A p \in Unflushed : PerKey(p, k) => p.seq < pendingOps[i].seq
        PROVE  kv[k] = Absent
    <3>1. \A j \in DOMAIN log : j > i => ~PerKey(log[j], k)
      BY <1>2, <1>3, <1>d, <2>2 DEF PerKey
    <3> QED BY <1>2, <2>2, <3>1 DEF IInv, LogComplete
  <2>3. (\A o \in Unflushed : k \notin o.keys) => sqlite[k] = kv[k]
    BY <1>2, <1>3 DEF IInv, Durable
  <2> QED BY <1>3, <2>1, <2>2, <2>3
<1>6. BatchProgress' BY <1>0, <1>1 DEF BatchProgress
<1>7. LogComplete' BY <1>0, <1>1, <1>2 DEF IInv, LogComplete
<1>8. Replaying' BY <1>0, <1>2 DEF Replaying
<1>9. Durable' BY <1>0 DEF IInv, Durable
<1> QED BY <1>0, <1>4, <1>5, <1>6, <1>7, <1>8, <1>9 DEF IInv

\* An accepted write is the newest op in the overlay and the last line of
\* the log, unless the degraded-mode cap has been reached.
LEMMA InvWrite ==
    ASSUME IInv, TypeOK', NEW w \in Writers, NEW o \in Ops, Write(w, o)
    PROVE  IInv'
<1> DEFINE n == Len(log)
           new == PendingOp(o, nextSeq + 1)
<1>0. /\ TypeOK /\ torn = FALSE /\ seed # "replay" /\ seed' = seed
      /\ ApplyOverlay(o) /\ kv' = Apply(kv, o)
      /\ UNCHANGED <<sqlite, fpc, batch, flushing, flushingTombstones, tx,
                     txPos, done>>
  BY DEF IInv, Write, flushVars
<1>1. o \in WalOp /\ (o.op = "delprefix" => o.val = Absent)
  BY OpsAreWalOps DEF Ops, SetOps, DeleteOps, DeletePrefixOps
<1>2. SeqsOrdered' /\ CachesMatch' /\ Unflushed' = Unflushed \cup {new}
  BY <1>0, <1>1, OverlayStep DEF IInv
<1>3. /\ new.seq = nextSeq + 1 /\ new.op = o.op /\ new.keys = o.keys
      /\ new.val = o.val /\ nextSeq \in Nat
      /\ \A p \in Unflushed : p.seq \in Nat /\ p.seq < new.seq
  <2>1. /\ new.seq = nextSeq + 1 /\ new.op = o.op /\ new.keys = o.keys
        /\ new.val = o.val /\ nextSeq \in Nat
    BY <1>0 DEF PendingOp, TypeOK
  <2>2. \A p \in Unflushed : p.seq \in 1..nextSeq
    BY DEF IInv, SeqsOrdered, Unflushed
  <2> QED BY <2>1, <2>2
<1>4. /\ \A k \in Keys : k \in o.keys => kv'[k] = o.val
      /\ \A k \in Keys : k \notin o.keys => kv'[k] = kv[k]
  BY <1>0 DEF Apply
<1>5. /\ DOMAIN pendingOps \subseteq DOMAIN pendingOps'
      /\ \A i \in DOMAIN pendingOps : pendingOps'[i] = pendingOps[i]
      /\ \E i \in DOMAIN pendingOps' : pendingOps'[i] = new
      /\ \A i \in DOMAIN pendingOps' :
            i \in DOMAIN pendingOps \/ pendingOps'[i] = new
  <2>1. /\ pendingOps' = Append(pendingOps, new) /\ pendingOps \in Seq(SeqOp)
    BY <1>0 DEF ApplyOverlay, TypeOK
  <2> HIDE DEF new
  <2>2. /\ DOMAIN pendingOps = 1..Len(pendingOps)
        /\ DOMAIN pendingOps' = 1..(Len(pendingOps) + 1)
        /\ \A i \in 1..Len(pendingOps) : pendingOps'[i] = pendingOps[i]
        /\ pendingOps'[Len(pendingOps) + 1] = new
        /\ Len(pendingOps) \in Nat
    BY <2>1
  <2> QED BY <2>2
<1> HIDE DEF new
<1>6. UnflushedCurrent'
  <2> SUFFICES ASSUME NEW k \in Keys
        PROVE /\ \A q \in Unflushed' :
                    /\ k \in q.keys
                    /\ \A p \in Unflushed' : k \in p.keys => p.seq <= q.seq
                    => q.val = kv'[k]
              /\ \A q \in Unflushed' :
                    /\ q.op = "delprefix" /\ k \in q.keys
                    /\ \A p \in Unflushed' : PerKey(p, k) => p.seq < q.seq
                    => kv'[k] = Absent
              /\ (\A q \in Unflushed' : k \notin q.keys) => sqlite'[k] = kv'[k]
    BY DEF UnflushedCurrent
  <2>1. CASE k \in o.keys
    <3>1. ASSUME NEW q \in Unflushed', k \in q.keys,
                 \A p \in Unflushed' : k \in p.keys => p.seq <= q.seq
          PROVE  q.val = kv'[k]
      <4>1. new.seq <= q.seq BY <1>2, <1>3, <2>1, <3>1
      <4>2. q = new BY <1>2, <1>3, <3>1, <4>1
      <4> QED BY <1>3, <1>4, <2>1, <4>2
    <3>2. ASSUME NEW q \in Unflushed', q.op = "delprefix", k \in q.keys,
                 \A p \in Unflushed' : PerKey(p, k) => p.seq < q.seq
          PROVE  kv'[k] = Absent
      <4>1. CASE o.op = "delprefix" BY <1>1, <1>4, <2>1, <4>1
      <4>2. CASE o.op # "delprefix"
        <5>1. PerKey(new, k) BY <1>3, <2>1, <4>2 DEF PerKey
        <5>2. new.seq < q.seq BY <1>2, <3>2, <5>1
        <5> QED BY <1>2, <1>3, <3>2, <5>2
      <4> QED BY <4>1, <4>2
    <3>3. ~\A q \in Unflushed' : k \notin q.keys BY <1>2, <1>3, <2>1
    <3> QED BY <3>1, <3>2, <3>3
  <2>2. CASE k \notin o.keys
    <3>0. kv'[k] = kv[k] /\ k \notin new.keys /\ sqlite'[k] = sqlite[k]
      BY <1>0, <1>3, <1>4, <2>2
    <3>1. ASSUME NEW q \in Unflushed', k \in q.keys,
                 \A p \in Unflushed' : k \in p.keys => p.seq <= q.seq
          PROVE  q.val = kv'[k]
      <4>1. q \in Unflushed /\ \A p \in Unflushed : k \in p.keys => p.seq <= q.seq
        BY <1>2, <3>0, <3>1
      <4> QED BY <1>0, <3>0, <3>1, <4>1 DEF IInv, UnflushedCurrent
    <3>2. ASSUME NEW q \in Unflushed', q.op = "delprefix", k \in q.keys,
                 \A p \in Unflushed' : PerKey(p, k) => p.seq < q.seq
          PROVE  kv'[k] = Absent
      <4>1. q \in Unflushed /\ \A p \in Unflushed : PerKey(p, k) => p.seq < q.seq
        BY <1>2, <3>0, <3>2
      <4> QED BY <1>0, <3>0, <3>2, <4>1 DEF IInv, UnflushedCurrent
    <3>3. (\A q \in Unflushed' : k \notin q.keys) => sqlite'[k] = kv'[k]
      BY <1>0, <1>2, <3>0 DEF IInv, UnflushedCurrent
    <3> QED BY <3>1, <3>2, <3>3
  <2> QED BY <2>1, <2>2
<1>7. DeletesAreAbsent' /\ LogComplete' /\ Replaying' /\ Durable' /\ torn' = FALSE
  <2>1. CASE PastCap
    <3>1. UNCHANGED <<log, torn, saved>> /\ capped' = TRUE
      BY <2>1 DEF Write
    <3>2. seed = "degraded" /\ n >= LogCap BY <2>1 DEF PastCap
    <3>3. fpc = "idle" BY <1>0, <3>2 DEF IInv, BatchProgress, TypeOK
    <3>4. DeletesAreAbsent' BY <1>1, <1>2, <1>3, <3>1 DEF IInv, DeletesAreAbsent
    <3>5. LogComplete' BY <1>0, <3>1, <3>3 DEF IInv, LogComplete
    <3>6. Replaying' BY <1>0, <3>1, <3>2 DEF Replaying
    <3>7. Durable' BY <1>0, <3>1 DEF IInv, Durable
    <3> QED BY <1>0, <3>1, <3>4, <3>5, <3>6, <3>7
  <2>2. CASE ~PastCap
    <3>1. /\ log' = Append(log, WalEntry(o)) /\ torn' = FALSE
          /\ saved' = Apply(saved, o) /\ capped' = capped
      BY <1>0, <2>2 DEF Write, AppendPending, TypeOK
    <3>2. /\ n \in Nat /\ DOMAIN log = 1..n /\ DOMAIN log' = 1..(n + 1)
          /\ Len(log') = n + 1
          /\ \A i \in 1..n : log'[i] = log[i]
          /\ log'[n + 1] = WalEntry(o)
      BY <1>0, <3>1 DEF TypeOK
    <3>3. /\ log'[n + 1].op = o.op /\ log'[n + 1].keys = o.keys
          /\ log'[n + 1].val = o.val
      BY <3>2 DEF WalEntry
    <3>4. /\ \A k \in Keys : k \in o.keys => saved'[k] = o.val
          /\ \A k \in Keys : k \notin o.keys => saved'[k] = saved[k]
      BY <3>1 DEF Apply
    <3> HIDE DEF n
    <3>5. DeletesAreAbsent'
      BY <1>1, <1>2, <1>3, <3>2, <3>3 DEF IInv, DeletesAreAbsent
    <3>6. LogComplete'
      <4>1. ~capped => \A i \in DOMAIN pendingOps' :
                \E j \in DOMAIN log' : log'[j].keys = pendingOps'[i].keys
        BY <1>0, <1>3, <1>5, <3>2, <3>3 DEF IInv, LogComplete
      <4>2. fpc = "exec" => \A i \in DOMAIN batch :
                \E j \in DOMAIN log' : log'[j].keys = batch[i].keys
        BY <3>2 DEF IInv, LogComplete
      <4>3. ASSUME NEW k \in Keys, NEW j \in DOMAIN log',
                   log'[j].op = "delprefix", k \in log'[j].keys,
                   \A i \in DOMAIN log' : i > j => ~PerKey(log'[i], k)
            PROVE  saved'[k] = Absent
        <5>1. CASE j = n + 1 BY <1>1, <3>3, <3>4, <4>3, <5>1
        <5>2. CASE j \in 1..n
          <6>1. ~PerKey(log'[n + 1], k) BY <3>2, <4>3, <5>2
          <6>2. k \in o.keys => o.op = "delprefix" BY <3>3, <6>1 DEF PerKey
          <6>3. k \notin o.keys => saved[k] = Absent
            BY <3>2, <4>3, <5>2 DEF IInv, LogComplete
          <6> QED BY <1>1, <3>4, <6>2, <6>3
        <5> QED BY <3>2, <5>1, <5>2
      <4> QED BY <1>0, <3>1, <4>1, <4>2, <4>3 DEF LogComplete
    <3>7. Replaying'
      <4>1. ~capped BY <2>2 DEF IInv, Replaying, PastCap
      <4>2. kv' = saved' BY <1>0, <3>1, <4>1 DEF IInv, Replaying
      <4> QED BY <1>0, <3>1, <4>1, <4>2 DEF Replaying
    <3>8. Durable'
      <4>1. ASSUME NEW k \in Keys, NEW j \in DOMAIN log', k \in log'[j].keys,
                   \A i \in DOMAIN log' : i > j => k \notin log'[i].keys
            PROVE  log'[j].val = saved'[k]
        <5>1. CASE j = n + 1 BY <3>3, <3>4, <4>1, <5>1
        <5>2. CASE j \in 1..n
          <6>1. k \notin o.keys BY <3>2, <3>3, <4>1, <5>2
          <6> QED BY <3>2, <3>4, <4>1, <5>2, <6>1 DEF IInv, Durable
        <5> QED BY <3>2, <5>1, <5>2
      <4>2. ASSUME NEW k \in Keys, \A j \in DOMAIN log' : k \notin log'[j].keys
            PROVE  sqlite'[k] = saved'[k]
        <5>1. k \notin o.keys /\ \A j \in DOMAIN log : k \notin log[j].keys
          BY <3>2, <3>3, <4>2
        <5> QED BY <1>0, <3>4, <5>1 DEF IInv, Durable
      <4> QED BY <4>1, <4>2 DEF Durable
    <3> QED BY <3>1, <3>5, <3>6, <3>7, <3>8
  <2> QED BY <2>1, <2>2
<1>8. BatchProgress'
  <2>1. ASSUME NEW k \in Keys, fpc # "idle",
               \A i \in DOMAIN batch : i > txPos => k \notin batch[i].keys,
               \A i \in DOMAIN pendingOps' : k \notin pendingOps'[i].keys
        PROVE  tx[k] = kv'[k]
    <3>1. k \notin o.keys /\ \A i \in DOMAIN pendingOps : k \notin pendingOps[i].keys
      BY <1>3, <1>5, <2>1
    <3> QED BY <1>4, <2>1, <3>1 DEF IInv, BatchProgress
  <2> QED BY <1>0, <2>1 DEF IInv, BatchProgress
<1> QED BY <1>2, <1>6, <1>7, <1>8 DEF IInv

\* A flush takes the pending ops as they are: together they cover the same keys.
LEMMA InvFlushSteal == ASSUME IInv, TypeOK', FlushSteal PROVE IInv'
<1>0. /\ TypeOK /\ fpc = "idle" /\ seed = "loaded" /\ seed' = seed
      /\ fpc' = "exec" /\ batch' = pendingOps /\ pendingOps' = <<>>
      /\ flushing' = dirty /\ dirty' = NoDirty
      /\ flushingTombstones' = tombstones /\ tombstones' = {}
      /\ tx' = sqlite /\ txPos' = 0 /\ done' = 0
      /\ UNCHANGED <<log, torn, sqlite, nextSeq, capped, kv, saved>>
  BY DEF IInv, FlushSteal, diskVars, ghostVars
<1>1. batch = <<>> /\ DOMAIN batch = {} /\ DOMAIN pendingOps' = {}
  BY <1>0 DEF TypeOK
<1>2. Unflushed' = Unflushed
  BY <1>0, <1>1 DEF Unflushed
<1>3. SeqsOrdered' BY <1>0, <1>1 DEF IInv, SeqsOrdered
<1>4. CachesMatch'
  <2>1. CacheOf(batch, flushing, flushingTombstones)'
    BY <1>0 DEF IInv, CachesMatch, CacheOf
  <2>2. CacheOf(pendingOps, dirty, tombstones)'
    BY <1>0, <1>1 DEF CacheOf, NoDirty, NoEntry, HasEntry
  <2> QED BY <2>1, <2>2 DEF CachesMatch
<1>5. DeletesAreAbsent' BY <1>0, <1>2 DEF IInv, DeletesAreAbsent
<1>6. UnflushedCurrent' BY <1>0, <1>2 DEF IInv, UnflushedCurrent
<1>7. BatchProgress'
  <2>1. ASSUME NEW k \in Keys,
               \A i \in DOMAIN batch' : i > 0 => k \notin batch'[i].keys
        PROVE  sqlite[k] = kv[k]
    <3>1. \A i \in DOMAIN pendingOps : i > 0 BY <1>0 DEF TypeOK
    <3>2. \A o \in Unflushed : k \notin o.keys
      BY <1>0, <1>1, <2>1, <3>1 DEF Unflushed
    <3> QED BY <1>0, <3>2 DEF IInv, UnflushedCurrent
  <2> QED BY <1>0, <2>1 DEF BatchProgress
<1>8. LogComplete'
  <2>1. ~capped BY <1>0 DEF IInv, Replaying
  <2> QED BY <1>0, <1>1, <2>1 DEF IInv, LogComplete
<1>9. Replaying' BY <1>0 DEF IInv, Replaying
<1>10. Durable' BY <1>0 DEF IInv, Durable
<1> QED BY <1>0, <1>3, <1>4, <1>5, <1>6, <1>7, <1>8, <1>9, <1>10 DEF IInv

\* Executing the next op of a batch brings the transaction one op nearer to
\* the contents.
LEMMA InvFlushExec == ASSUME IInv, TypeOK', FlushExec PROVE IInv'
<1> DEFINE o == batch[txPos + 1]
<1>0. /\ TypeOK /\ fpc = "exec" /\ txPos < Len(batch) /\ seed = "loaded"
      /\ tx' = Apply(tx, o) /\ txPos' = txPos + 1 /\ seed' = seed
      /\ UNCHANGED <<log, torn, sqlite, nextSeq, pendingOps, dirty, tombstones,
                     capped, fpc, batch, flushing, flushingTombstones, done,
                     kv, saved>>
  BY DEF IInv, FlushExec, BatchProgress, diskVars, overlayVars, ghostVars
<1>1. /\ txPos \in Nat /\ done \in Nat /\ done <= txPos
      /\ txPos + 1 \in DOMAIN batch /\ DOMAIN batch \subseteq Nat
  BY <1>0 DEF TypeOK
<1>2. Unflushed' = Unflushed BY <1>0 DEF Unflushed
<1>3. SeqsOrdered' /\ CachesMatch' /\ DeletesAreAbsent'
  BY <1>0, <1>2 DEF IInv, SeqsOrdered, CachesMatch, CacheOf, DeletesAreAbsent
<1>4. UnflushedCurrent' BY <1>0, <1>2 DEF IInv, UnflushedCurrent
<1>5. BatchProgress'
  <2>1. ASSUME NEW k \in Keys,
               \A i \in DOMAIN batch : i > txPos + 1 => k \notin batch[i].keys,
               \A i \in DOMAIN pendingOps : k \notin pendingOps[i].keys
        PROVE  tx'[k] = kv[k]
    <3>1. CASE k \in o.keys
      <4>1. o \in Unflushed BY <1>1 DEF Unflushed
      <4>2. \A p \in Unflushed : k \in p.keys => p.seq <= o.seq
        <5>1. ASSUME NEW i \in DOMAIN batch, k \in batch[i].keys
              PROVE  batch[i].seq <= o.seq
          <6>1. i < txPos + 1 \/ i = txPos + 1 BY <1>1, <2>1, <5>1
          <6>2. batch[i].seq \in Nat /\ o.seq \in Nat
            BY <1>1 DEF IInv, SeqsOrdered
          <6>3. i < txPos + 1 => batch[i].seq < o.seq
            BY <1>1 DEF IInv, SeqsOrdered
          <6> QED BY <6>1, <6>2, <6>3
        <5> QED BY <2>1, <5>1 DEF Unflushed
      <4>3. o.val = kv[k] BY <1>0, <3>1, <4>1, <4>2 DEF IInv, UnflushedCurrent
      <4> QED BY <1>0, <3>1, <4>3 DEF Apply
    <3>2. CASE k \notin o.keys
      <4>1. \A i \in DOMAIN batch : i > txPos => k \notin batch[i].keys
        BY <1>1, <2>1, <3>2
      <4>2. tx[k] = kv[k] BY <1>0, <2>1, <4>1 DEF IInv, BatchProgress
      <4> QED BY <1>0, <3>2, <4>2 DEF Apply
    <3> QED BY <3>1, <3>2
  <2>2. done' # txPos' BY <1>0, <1>1
  <2> QED BY <1>0, <2>1, <2>2 DEF BatchProgress
<1>6. LogComplete' /\ Replaying' /\ Durable'
  BY <1>0 DEF IInv, LogComplete, Replaying, Durable
<1> QED BY <1>0, <1>3, <1>4, <1>5, <1>6 DEF IInv

\* A chunk may commit the older of two writes to a key: the newer one is still
\* unflushed, and in the log.
LEMMA InvFlushCommit == ASSUME IInv, TypeOK', FlushCommit PROVE IInv'
<1>0. /\ TypeOK /\ fpc = "exec" /\ seed = "loaded" /\ seed' = seed
      /\ sqlite' = tx /\ done' = txPos
      /\ UNCHANGED <<log, torn, nextSeq, pendingOps, dirty, tombstones, capped,
                     fpc, batch, flushing, flushingTombstones, tx, txPos, kv,
                     saved>>
  BY DEF IInv, FlushCommit, BatchProgress, overlayVars, ghostVars
<1>1. Unflushed' = Unflushed BY <1>0 DEF Unflushed
<1>2. SeqsOrdered' /\ CachesMatch' /\ DeletesAreAbsent'
  BY <1>0, <1>1 DEF IInv, SeqsOrdered, CachesMatch, CacheOf, DeletesAreAbsent
<1>3. \A k \in Keys : (\A o \in Unflushed : k \notin o.keys) => tx[k] = kv[k]
  BY <1>0 DEF IInv, BatchProgress, Unflushed
<1>4. UnflushedCurrent' BY <1>0, <1>1, <1>3 DEF IInv, UnflushedCurrent
<1>5. BatchProgress' BY <1>0 DEF IInv, BatchProgress
<1>6. ~capped /\ kv = saved BY <1>0 DEF IInv, Replaying
<1>7. LogComplete' /\ Replaying' BY <1>0 DEF IInv, LogComplete, Replaying
<1>8. Durable'
  <2>1. ASSUME NEW k \in Keys, \A j \in DOMAIN log : k \notin log[j].keys
        PROVE  tx[k] = saved[k]
    <3>1. \A o \in Unflushed : k \notin o.keys
      BY <1>0, <1>6, <2>1 DEF IInv, LogComplete, Unflushed
    <3> QED BY <1>3, <1>6, <3>1
  <2> QED BY <1>0, <2>1 DEF IInv, Durable
<1> QED BY <1>0, <1>2, <1>4, <1>5, <1>7, <1>8 DEF IInv

\* The log that replaces the old one holds the ops that SQLite lacks.
LEMMA InvFlushCompact == ASSUME IInv, TypeOK', FlushCompact PROVE IInv'
<1>0. /\ TypeOK /\ fpc = "exec" /\ seed = "loaded" /\ seed' = seed
      /\ done = Len(batch) /\ fpc' = "compacted" /\ torn' = FALSE
      /\ log' = [i \in 1..Len(pendingOps) |-> WalEntry(pendingOps[i])]
      /\ UNCHANGED <<sqlite, nextSeq, pendingOps, dirty, tombstones, capped,
                     batch, flushing, flushingTombstones, tx, txPos, done, kv,
                     saved>>
  BY DEF IInv, FlushCompact, CompactedLog, BatchProgress, overlayVars, ghostVars
<1>1. txPos = Len(batch) /\ sqlite = tx /\ \A i \in DOMAIN batch : ~(i > txPos)
  <2>1. txPos = Len(batch) /\ DOMAIN batch = 1..Len(batch) BY <1>0 DEF TypeOK
  <2>2. sqlite = tx BY <1>0, <2>1 DEF IInv, BatchProgress
  <2> QED BY <1>0, <2>1, <2>2 DEF TypeOK
<1>2. /\ DOMAIN log' = DOMAIN pendingOps
      /\ \A i \in DOMAIN pendingOps :
            /\ log'[i].op = pendingOps[i].op /\ log'[i].keys = pendingOps[i].keys
            /\ log'[i].val = pendingOps[i].val /\ i \in Nat
  BY <1>0 DEF TypeOK, WalEntry
<1>3. Unflushed' = Unflushed BY <1>0 DEF Unflushed
<1>4. SeqsOrdered' /\ CachesMatch'
  BY <1>0 DEF IInv, SeqsOrdered, CachesMatch, CacheOf
<1>5. DeletesAreAbsent'
  BY <1>2, <1>3 DEF IInv, DeletesAreAbsent, Unflushed
<1>6. UnflushedCurrent' BY <1>0, <1>3 DEF IInv, UnflushedCurrent
<1>7. BatchProgress' BY <1>0 DEF IInv, BatchProgress
<1>8. ~capped /\ kv = saved BY <1>0 DEF IInv, Replaying
<1>9. \A i \in DOMAIN pendingOps : pendingOps[i] \in Unflushed BY DEF Unflushed
<1>10. LogComplete'
  <2>1. ASSUME NEW k \in Keys, NEW j \in DOMAIN pendingOps,
               pendingOps[j].op = "delprefix", k \in pendingOps[j].keys,
               \A i \in DOMAIN log' : i > j => ~PerKey(log'[i], k)
        PROVE  saved[k] = Absent
    <3>1. ASSUME NEW i \in DOMAIN pendingOps, PerKey(pendingOps[i], k)
          PROVE  pendingOps[i].seq < pendingOps[j].seq
      <4>1. ~(i > j) /\ i # j BY <1>2, <2>1, <3>1 DEF PerKey
      <4> QED BY <1>2, <4>1 DEF IInv, SeqsOrdered
    <3>2. \A p \in Unflushed : PerKey(p, k) => p.seq < pendingOps[j].seq
      BY <3>1 DEF Unflushed, IInv, SeqsOrdered
    <3> QED BY <1>0, <1>8, <1>9, <2>1, <3>2 DEF IInv, UnflushedCurrent
  <2>2. \A i \in DOMAIN pendingOps' : \E j \in DOMAIN log' : log'[j].keys = pendingOps'[i].keys
    BY <1>0, <1>2
  <2>3. fpc' # "exec"
    BY <1>0
  <2>4. ASSUME NEW k \in Keys, NEW j \in DOMAIN log',
               log'[j].op = "delprefix", k \in log'[j].keys,
               \A i \in DOMAIN log' : i > j => ~PerKey(log'[i], k)
        PROVE  saved'[k] = Absent
    <3>1. j \in DOMAIN pendingOps /\ pendingOps[j].op = "delprefix" /\ k \in pendingOps[j].keys
      BY <1>2, <2>4
    <3>2. saved[k] = Absent BY <2>1, <2>4, <3>1
    <3> QED BY <1>0, <3>2
  <2> QED BY <2>2, <2>3, <2>4 DEF LogComplete
<1>11. Replaying' BY <1>0, <1>8 DEF Replaying
<1>12. Durable'
  <2>1. ASSUME NEW k \in Keys, NEW j \in DOMAIN pendingOps, k \in pendingOps[j].keys,
               \A i \in DOMAIN log' : i > j => k \notin log'[i].keys
        PROVE  pendingOps[j].val = saved[k]
    <3>1. ASSUME NEW i \in DOMAIN pendingOps, k \in pendingOps[i].keys
          PROVE  pendingOps[i].seq <= pendingOps[j].seq
      <4>1. i < j \/ i = j BY <1>2, <2>1, <3>1
      <4>2. pendingOps[i].seq \in Nat /\ pendingOps[j].seq \in Nat
        BY DEF IInv, SeqsOrdered
      <4>3. i < j => pendingOps[i].seq < pendingOps[j].seq
        BY DEF IInv, SeqsOrdered
      <4> QED BY <4>1, <4>2, <4>3
    <3>2. ASSUME NEW i \in DOMAIN batch PROVE batch[i].seq <= pendingOps[j].seq
      <4>1. /\ batch[i].seq \in Nat /\ pendingOps[j].seq \in Nat
            /\ batch[i].seq < pendingOps[j].seq
        BY DEF IInv, SeqsOrdered
      <4> QED BY <4>1
    <3>3. \A p \in Unflushed : k \in p.keys => p.seq <= pendingOps[j].seq
      BY <3>1, <3>2 DEF Unflushed
    <3> QED BY <1>0, <1>8, <1>9, <2>1, <3>3 DEF IInv, UnflushedCurrent
  <2>2. ASSUME NEW k \in Keys, \A j \in DOMAIN log' : k \notin log'[j].keys
        PROVE  sqlite[k] = saved[k]
    <3>1. \A i \in DOMAIN pendingOps : k \notin pendingOps[i].keys BY <1>2, <2>2
    <3> QED BY <1>0, <1>1, <1>8, <3>1 DEF IInv, BatchProgress
  <2>3. ASSUME NEW k \in Keys, NEW j \in DOMAIN log', k \in log'[j].keys,
               \A i \in DOMAIN log' : i > j => k \notin log'[i].keys
        PROVE  log'[j].val = saved'[k]
    <3>1. j \in DOMAIN pendingOps /\ k \in pendingOps[j].keys BY <1>2, <2>3
    <3>2. pendingOps[j].val = saved[k] BY <2>1, <2>3, <3>1
    <3> QED BY <1>0, <1>2, <3>1, <3>2
  <2> QED BY <1>0, <2>2, <2>3 DEF Durable
<1> QED BY <1>0, <1>4, <1>5, <1>6, <1>7, <1>10, <1>11, <1>12 DEF IInv

\* After compaction the batch can be dropped: SQLite has all of it.
LEMMA InvFlushEnd == ASSUME IInv, TypeOK', FlushEnd PROVE IInv'
<1>0. /\ TypeOK /\ fpc = "compacted" /\ seed = "loaded" /\ seed' = seed
      /\ done = Len(batch) /\ fpc' = "idle" /\ batch' = <<>>
      /\ flushing' = NoDirty /\ flushingTombstones' = {}
      /\ UNCHANGED <<log, torn, sqlite, nextSeq, pendingOps, dirty, tombstones,
                     capped, kv, saved>>
  BY DEF IInv, FlushEnd, ResetBatch, BatchProgress, diskVars, overlayVars, ghostVars
<1>1. sqlite = tx /\ \A i \in DOMAIN batch : ~(i > txPos)
  <2>1. txPos = Len(batch) /\ DOMAIN batch = 1..Len(batch) BY <1>0 DEF TypeOK
  <2>2. sqlite = tx BY <1>0, <2>1 DEF IInv, BatchProgress
  <2> QED BY <1>0, <2>1, <2>2 DEF TypeOK
<1>2. DOMAIN batch' = {} BY <1>0
<1>3. Unflushed' = {pendingOps[i] : i \in DOMAIN pendingOps} /\ Unflushed' \subseteq Unflushed
  BY <1>0, <1>2 DEF Unflushed
<1>4. SeqsOrdered' BY <1>0, <1>2 DEF IInv, SeqsOrdered
<1>5. CachesMatch'
  BY <1>0, <1>2 DEF IInv, CachesMatch, CacheOf, NoDirty, NoEntry, HasEntry
<1>6. DeletesAreAbsent' BY <1>0, <1>3 DEF IInv, DeletesAreAbsent
<1>7. \A o \in Unflushed' : \A p \in Unflushed :
         p.seq \in Nat /\ o.seq \in Nat /\ (p \in Unflushed' \/ p.seq < o.seq)
  BY <1>0, <1>3 DEF IInv, SeqsOrdered, Unflushed
<1>8. UnflushedCurrent'
  <2> SUFFICES ASSUME NEW k \in Keys
        PROVE /\ \A o \in Unflushed' :
                    /\ k \in o.keys
                    /\ \A p \in Unflushed' : k \in p.keys => p.seq <= o.seq
                    => o.val = kv[k]
              /\ \A o \in Unflushed' :
                    /\ o.op = "delprefix" /\ k \in o.keys
                    /\ \A p \in Unflushed' : PerKey(p, k) => p.seq < o.seq
                    => kv[k] = Absent
              /\ (\A o \in Unflushed' : k \notin o.keys) => sqlite[k] = kv[k]
    BY <1>0 DEF UnflushedCurrent
  <2>1. ASSUME NEW o \in Unflushed', k \in o.keys,
               \A p \in Unflushed' : k \in p.keys => p.seq <= o.seq
        PROVE  o.val = kv[k]
    <3>1. \A p \in Unflushed : k \in p.keys => p.seq <= o.seq BY <1>7, <2>1
    <3> QED BY <1>0, <1>3, <2>1, <3>1 DEF IInv, UnflushedCurrent
  <2>2. ASSUME NEW o \in Unflushed', o.op = "delprefix", k \in o.keys,
               \A p \in Unflushed' : PerKey(p, k) => p.seq < o.seq
        PROVE  kv[k] = Absent
    <3>1. \A p \in Unflushed : PerKey(p, k) => p.seq < o.seq BY <1>7, <2>2
    <3> QED BY <1>0, <1>3, <2>2, <3>1 DEF IInv, UnflushedCurrent
  <2>3. (\A o \in Unflushed' : k \notin o.keys) => sqlite[k] = kv[k]
    BY <1>0, <1>1, <1>3 DEF IInv, BatchProgress
  <2> QED BY <2>1, <2>2, <2>3
<1>9. BatchProgress' BY <1>0 DEF BatchProgress
<1>10. LogComplete' /\ Replaying' BY <1>0 DEF IInv, LogComplete, Replaying
<1>11. Durable' BY <1>0 DEF IInv, Durable
<1> QED BY <1>0, <1>4, <1>5, <1>6, <1>8, <1>9, <1>10, <1>11 DEF IInv

\* A failed flush changes neither the ops that are unflushed nor their order.
LEMMA InvRestore ==
    ASSUME IInv, TypeOK', fpc = "exec", FlushRestore, UNCHANGED <<log, torn>>
    PROVE  IInv'
<1> DEFINE b == Len(batch)
           n == Len(pendingOps)
<1>0. /\ TypeOK /\ seed = "loaded" /\ seed' = seed
      /\ pendingOps' = batch \o pendingOps
      /\ dirty' = [k \in Keys |-> IF HasEntry(dirty[k]) THEN dirty[k] ELSE flushing[k]]
      /\ tombstones' = flushingTombstones \cup tombstones
      /\ fpc' = "idle" /\ batch' = <<>>
      /\ flushing' = NoDirty /\ flushingTombstones' = {}
      /\ UNCHANGED <<log, torn, sqlite, nextSeq, capped, kv, saved>>
  BY DEF IInv, FlushRestore, RestoredOps, RestoredEntry, ResetBatch, BatchProgress
<1>1. /\ b \in Nat /\ n \in Nat /\ DOMAIN batch = 1..b /\ DOMAIN pendingOps = 1..n
      /\ DOMAIN pendingOps' = 1..(b + n) /\ DOMAIN batch' = {}
      /\ \A i \in 1..b : pendingOps'[i] = batch[i]
      /\ \A i \in 1..n : pendingOps'[b + i] = pendingOps[i]
  BY <1>0 DEF TypeOK
<1> HIDE DEF b, n
<1>2. \A i \in DOMAIN pendingOps' :
         \/ i \in 1..b /\ pendingOps'[i] = batch[i]
         \/ i - b \in 1..n /\ pendingOps'[i] = pendingOps[i - b]
  <2> SUFFICES ASSUME NEW i \in 1..(b + n), ~(i \in 1..b)
               PROVE  i - b \in 1..n /\ pendingOps'[i] = pendingOps[i - b]
    BY <1>1
  <2>1. i - b \in 1..n /\ b + (i - b) = i BY <1>1
  <2> QED BY <1>1, <2>1
<1>3. Unflushed' = Unflushed
  <2>1. {pendingOps'[i] : i \in DOMAIN pendingOps'} \subseteq Unflushed
    BY <1>1, <1>2 DEF Unflushed
  <2>2. \A i \in 1..n : b + i \in DOMAIN pendingOps' BY <1>1
  <2>3. \A i \in 1..b : i \in DOMAIN pendingOps' BY <1>1
  <2>4. Unflushed \subseteq {pendingOps'[i] : i \in DOMAIN pendingOps'}
    BY <1>1, <2>2, <2>3 DEF Unflushed
  <2>5. Unflushed' = {pendingOps'[i] : i \in DOMAIN pendingOps'}
    BY <1>1 DEF Unflushed
  <2> QED BY <2>1, <2>4, <2>5
<1>4. SeqsOrdered'
  <2>1. SeqsOrdered BY DEF IInv
  <2>2. \A i \in DOMAIN pendingOps' : pendingOps'[i].seq \in 1..nextSeq
    BY <1>1, <1>2, <2>1 DEF SeqsOrdered
  <2>3. ASSUME NEW i \in DOMAIN pendingOps', NEW j \in DOMAIN pendingOps', i < j
        PROVE  pendingOps'[i].seq < pendingOps'[j].seq
    <3>1. CASE i \in 1..b /\ j \in 1..b BY <1>1, <2>1, <2>3, <3>1 DEF SeqsOrdered
    <3>2. CASE i \in 1..b /\ ~(j \in 1..b) BY <1>1, <1>2, <2>1, <3>2 DEF SeqsOrdered
    <3>3. CASE ~(i \in 1..b) /\ ~(j \in 1..b)
      <4>1. i - b < j - b /\ i - b \in 1..n /\ j - b \in 1..n
        BY <1>1, <1>2, <2>3, <3>3
      <4> QED BY <1>1, <1>2, <2>1, <3>3, <4>1 DEF SeqsOrdered
    <3>4. CASE ~(i \in 1..b) /\ j \in 1..b BY <1>1, <2>3, <3>4
    <3> QED BY <3>1, <3>2, <3>3, <3>4
  <2> QED BY <1>0, <1>1, <2>2, <2>3 DEF SeqsOrdered
<1>5. CachesMatch'
  <2>0. /\ CacheOf(pendingOps, dirty, tombstones)
        /\ CacheOf(batch, flushing, flushingTombstones) /\ SeqsOrdered
    BY DEF IInv, CachesMatch
  <2>1. ASSUME NEW k \in Keys, HasEntry(dirty'[k])
        PROVE  \E o \in Unflushed : /\ PerKey(o, k) /\ o.seq = dirty'[k].seq
                                    /\ o.val = dirty'[k].val
    BY <1>0, <2>0, <2>1 DEF CacheOf, Unflushed
  <2>2. ASSUME NEW o \in Unflushed, NEW k \in Keys, PerKey(o, k)
        PROVE  o.seq <= dirty'[k].seq
    <3>0. /\ dirty[k].seq \in Nat /\ flushing[k].seq \in Nat
          /\ dirty'[k] = IF HasEntry(dirty[k]) THEN dirty[k] ELSE flushing[k]
      BY <1>0 DEF TypeOK, Entry
    <3>1. ASSUME NEW i \in DOMAIN pendingOps, o = pendingOps[i]
          PROVE  o.seq <= dirty'[k].seq
      <4>1. o.seq \in Nat /\ o.seq > 0 /\ o.seq <= dirty[k].seq
        BY <2>0, <2>2, <3>1 DEF CacheOf, SeqsOrdered
      <4> QED BY <3>0, <4>1 DEF HasEntry
    <3>2. ASSUME NEW i \in DOMAIN batch, o = batch[i]
          PROVE  o.seq <= dirty'[k].seq
      <4>1. o.seq \in Nat /\ o.seq <= flushing[k].seq
        BY <2>0, <2>2, <3>2 DEF CacheOf, SeqsOrdered
      <4>2. CASE HasEntry(dirty[k])
        <5>1. PICK j \in DOMAIN pendingOps : pendingOps[j].seq = dirty[k].seq
          BY <2>0, <4>2 DEF CacheOf
        <5>2. o.seq < dirty[k].seq BY <2>0, <3>2, <5>1 DEF SeqsOrdered
        <5> QED BY <3>0, <4>1, <4>2, <5>2
      <4> QED BY <3>0, <4>1, <4>2
    <3> QED BY <3>1, <3>2 DEF Unflushed
  <2>3. ASSUME NEW o \in Unflushed, o.op = "delprefix"
        PROVE  [keys |-> o.keys, seq |-> o.seq] \in tombstones'
    BY <1>0, <2>0, <2>3 DEF CacheOf, Unflushed
  <2>4. ASSUME NEW t \in tombstones'
        PROVE  \E o \in Unflushed : o.op = "delprefix" /\ o.keys = t.keys /\ o.seq = t.seq
    BY <1>0, <2>0 DEF CacheOf, Unflushed
  <2>5. Unflushed = {pendingOps'[i] : i \in DOMAIN pendingOps'}
    BY <1>1, <1>3 DEF Unflushed
  <2>6. CacheOf(pendingOps, dirty, tombstones)'
    BY <2>1, <2>2, <2>3, <2>4, <2>5 DEF CacheOf
  <2>7. CacheOf(batch, flushing, flushingTombstones)'
    BY <1>0, <1>1 DEF CacheOf, NoDirty, NoEntry, HasEntry
  <2> QED BY <2>6, <2>7 DEF CachesMatch
<1>6. DeletesAreAbsent' BY <1>0, <1>3 DEF IInv, DeletesAreAbsent
<1>7. UnflushedCurrent' BY <1>0, <1>3 DEF IInv, UnflushedCurrent
<1>8. BatchProgress' BY <1>0 DEF BatchProgress
<1>9. LogComplete'
  <2>1. ~capped BY <1>0 DEF IInv, Replaying
  <2>2. /\ \A i \in 1..b : \E j \in DOMAIN log : log[j].keys = batch[i].keys
        /\ \A i \in 1..n : \E j \in DOMAIN log : log[j].keys = pendingOps[i].keys
    BY <1>0, <1>1, <2>1 DEF IInv, LogComplete
  <2>3. ASSUME NEW i \in DOMAIN pendingOps'
        PROVE  \E j \in DOMAIN log : log[j].keys = pendingOps'[i].keys
    BY <1>2, <2>2
  <2> QED BY <1>0, <2>3 DEF IInv, LogComplete
<1>10. Replaying' BY <1>0 DEF IInv, Replaying
<1>11. Durable' BY <1>0 DEF IInv, Durable
<1> QED BY <1>0, <1>4, <1>5, <1>6, <1>7, <1>8, <1>9, <1>10, <1>11 DEF IInv

\* A restart keeps the disk, and that is all it needs.
LEMMA InvCrash == ASSUME IInv, TypeOK', Crash PROVE IInv'
<1>0. /\ TypeOK /\ seed' = "replay" /\ nextSeq' = 0 /\ pendingOps' = <<>>
      /\ dirty' = NoDirty /\ tombstones' = {} /\ capped' = FALSE
      /\ fpc' = "idle" /\ batch' = <<>> /\ flushing' = NoDirty
      /\ flushingTombstones' = {} /\ kv' = saved
      /\ UNCHANGED <<log, torn, sqlite, saved>>
  BY DEF IInv, Crash, Restart
<1>1. /\ DOMAIN pendingOps' = {} /\ DOMAIN batch' = {} /\ Len(pendingOps') = 0
      /\ Len(log) \in Nat
  BY <1>0 DEF TypeOK
<1>2. SeqsOrdered' BY <1>1 DEF SeqsOrdered
<1>3. CachesMatch'
  BY <1>0, <1>1 DEF CachesMatch, CacheOf, NoDirty, NoEntry, HasEntry
<1>4. DeletesAreAbsent' BY <1>0, <1>1 DEF IInv, DeletesAreAbsent, Unflushed
<1>5. UnflushedCurrent' /\ BatchProgress' BY <1>0 DEF UnflushedCurrent, BatchProgress
<1>6. LogComplete' BY <1>0 DEF IInv, LogComplete
<1>7. Replaying' BY <1>0, <1>1 DEF Replaying
<1>8. Durable' BY <1>0 DEF IInv, Durable
<1> QED BY <1>0, <1>2, <1>3, <1>4, <1>5, <1>6, <1>7, <1>8 DEF IInv

\* Every step of the store preserves the inductive invariant.
LEMMA InvStep == IInv /\ [Next]_vars => IInv'
<1> SUFFICES ASSUME IInv, [Next]_vars PROVE IInv' OBVIOUS
<1>0. TypeOK' BY TypeStep DEF IInv
<1>1. CASE ReplayEntry BY <1>0, <1>1, InvReplayEntry
<1>2. CASE OpenLog BY <1>0, <1>2, InvOpenLog
<1>3. CASE SeedReady
  BY <1>0, <1>3, InvFrame DEF SeedReady, diskVars, overlayVars, flushVars, ghostVars
<1>4. CASE SeedStart
  BY <1>0, <1>4, InvFrame DEF SeedStart, diskVars, overlayVars, flushVars, ghostVars
<1>5. CASE SeedStoreRow
  BY <1>0, <1>5, InvFrame DEF SeedStoreRow, diskVars, overlayVars, flushVars, ghostVars
<1>6. CASE SeedLoaded
  BY <1>0, <1>6, InvFrame DEF SeedLoaded, diskVars, overlayVars, flushVars, ghostVars
<1>7. CASE SeedDegrade
  BY <1>0, <1>7, InvFrame DEF SeedDegrade, diskVars, overlayVars, flushVars, ghostVars
<1>8. ASSUME NEW k \in Hot, SeedCheckRow(k) PROVE IInv'
  BY <1>0, <1>8, InvFrame DEF SeedCheckRow, diskVars, overlayVars, flushVars, ghostVars
<1>9. ASSUME NEW w \in Writers, NEW o \in Ops, Write(w, o) PROVE IInv'
  BY <1>0, <1>9, InvWrite
<1>10. ASSUME NEW w \in Writers, WriteMem(w) PROVE IInv'
  BY <1>0, <1>10, InvFrame DEF WriteMem, diskVars, overlayVars, flushVars, ghostVars
<1>11. CASE FlushSteal BY <1>0, <1>11, InvFlushSteal
<1>12. CASE FlushExec BY <1>0, <1>12, InvFlushExec
<1>13. CASE FlushCommit BY <1>0, <1>13, InvFlushCommit
<1>14. CASE FlushCompact BY <1>0, <1>14, InvFlushCompact
<1>15. CASE FlushEnd BY <1>0, <1>15, InvFlushEnd
<1>16. CASE FlushChunkFail BY <1>0, <1>16, InvRestore DEF FlushChunkFail
<1>17. CASE FlushCompactFail BY <1>0, <1>17, InvRestore DEF FlushCompactFail
<1>18. CASE CloseBegin
  BY <1>0, <1>18, InvFrame DEF CloseBegin, diskVars, overlayVars, flushVars, ghostVars
<1>19. CASE CloseFlushEmpty
  BY <1>0, <1>19, InvFrame DEF CloseFlushEmpty, diskVars, overlayVars, flushVars, ghostVars
<1>20. CASE CloseFile
  BY <1>0, <1>20, InvFrame DEF CloseFile, diskVars, overlayVars, flushVars, ghostVars
<1>21. CASE Crash BY <1>0, <1>21, InvCrash
<1>22. CASE UNCHANGED vars
  BY <1>0, <1>22, InvFrame DEF vars, diskVars, overlayVars, flushVars, ghostVars
<1> QED
  BY <1>1, <1>2, <1>3, <1>4, <1>5, <1>6, <1>7, <1>8, <1>9, <1>10, <1>11,
     <1>12, <1>13, <1>14, <1>15, <1>16, <1>17, <1>18, <1>19, <1>20, <1>21, <1>22
     DEF Next

-----------------------------------------------------------------------------
\* The types hold for every instance: in particular a flush that is over,
\* whether it succeeded or gave its batch back, leaves nothing behind.
THEOREM TypeCorrect == Spec => []TypeOK
<1>1. TypeOK /\ [Next]_vars => TypeOK' BY TypeStep
<1> QED BY TypeInit, <1>1, PTL DEF Spec

\* The inductive invariant holds for every instance.
THEOREM InvariantHolds == Spec => []IInv
<1> QED BY InvInit, InvStep, PTL DEF Spec

\* No crash, at any point of a write, a chunked flush, its failure or a
\* compaction, loses a write that appendPendingBatchLocked accepted.
THEOREM Durability == Spec => []Durable
<1>1. IInv => Durable BY DEF IInv
<1> QED BY InvariantHolds, <1>1, PTL

\* Until the degraded-mode cap is reached, accepted and saved are the same.
THEOREM OnlyCappedLoss == Spec => []OnlyCappedWritesAreLost
<1>1. IInv => OnlyCappedWritesAreLost
  BY DEF IInv, Replaying, OnlyCappedWritesAreLost
<1> QED BY InvariantHolds, <1>1, PTL

\* A read through the overlay never returns anything but the last accepted
\* write, however a concurrent flush has divided the ops between pendingOps,
\* the batch, an open transaction and SQLite.
THEOREM OverlayReadsCurrent == Spec => []ReadsCurrent
<1>1. ASSUME IInv PROVE ReadsCurrent
  <2>1. ViewCurrent BY <1>1, ViewFromInvariant
  <2> SUFFICES ASSUME sqliteReadyNow, NEW k \in Keys, ~(k \in Hot /\ Loaded)
               PROVE  Read(k) = kv[k]
    BY DEF ReadsCurrent
  <2>2. seed # "replay" BY DEF sqliteReadyNow
  <2>3. Read(k) = View(k) BY DEF Read, View
  <2> QED BY <2>1, <2>2, <2>3 DEF ViewCurrent
<1> QED BY InvariantHolds, <1>1, PTL

-----------------------------------------------------------------------------
(* The memory layer. *)

\* The overlay speaks of a key when an entry or a tombstone does.
Found(k) ==
    \/ HasEntry(dirty[k]) \/ HasEntry(flushing[k])
    \/ \E t \in tombstones \cup flushingTombstones : k \in t.keys

LEMMA FoundMeans ==
    ASSUME NEW k
    PROVE  (Resolve(k).found <=> Found(k)) /\ (Resolve(k).found' <=> Found(k)')
<1>1. Resolve(k).found <=> Found(k)
  <2> DEFINE entry == IF HasEntry(dirty[k]) THEN dirty[k] ELSE flushing[k]
             tombs == {t \in tombstones \cup flushingTombstones : k \in t.keys}
  <2>1. CASE HasEntry(entry) /\ \A t \in tombs : entry.seq > t.seq
    BY <2>1 DEF Resolve, Found
  <2>2. CASE ~(HasEntry(entry) /\ \A t \in tombs : entry.seq > t.seq)
    <3>1. Resolve(k).found <=> tombs # {}
      BY <2>2 DEF Resolve
    <3>2. HasEntry(entry) <=> HasEntry(dirty[k]) \/ HasEntry(flushing[k])
      OBVIOUS
    <3> QED BY <2>2, <3>1, <3>2 DEF Found
  <2> QED BY <2>1, <2>2
<1>2. Resolve(k).found' <=> Found(k)'
  <2> DEFINE entry == IF HasEntry(dirty'[k]) THEN dirty'[k] ELSE flushing'[k]
             tombs == {t \in tombstones' \cup flushingTombstones' : k \in t.keys}
  <2>1. CASE HasEntry(entry) /\ \A t \in tombs : entry.seq > t.seq
    BY <2>1 DEF Resolve, Found
  <2>2. CASE ~(HasEntry(entry) /\ \A t \in tombs : entry.seq > t.seq)
    <3>1. Resolve(k).found' <=> tombs # {}
      BY <2>2 DEF Resolve
    <3>2. HasEntry(entry) <=> HasEntry(dirty'[k]) \/ HasEntry(flushing'[k])
      OBVIOUS
    <3> QED BY <2>2, <3>1, <3>2 DEF Found
  <2> QED BY <2>1, <2>2
<1> QED BY <1>1, <1>2

\* The overlay over SQLite is the sum of the accepted writes, before a step and
\* after it.
LEMMA CurrentOf ==
    ASSUME IInv, NEW k \in Keys
    PROVE  /\ seed # "replay" /\ ~Resolve(k).found => sqlite[k] = kv[k]
           /\ seed # "replay" /\ Resolve(k).found => Resolve(k).val = kv[k]
BY ViewFromInvariant DEF ViewCurrent, View

LEMMA CurrentNext == IInv' => ViewCurrent'
BY ViewFromInvariant, PTL

\* Before the end of the seed no flush runs, and a tombstone covers no key that
\* the seed still vouches for.
LEMMA EarlyFound ==
    ASSUME IInv, Seeding, ~Loaded, NEW k \in Hot \ shadowed
    PROVE  /\ Resolve(k).found <=> HasEntry(dirty[k])
           /\ HasEntry(dirty[k]) => Resolve(k).val = dirty[k].val
<1>1. fpc = "idle"
  BY DEF IInv, BatchProgress, TypeOK, Loaded
<1>2. flushing = NoDirty /\ flushingTombstones = {}
  BY <1>1 DEF IInv, TypeOK
<1>3. \A t \in tombstones \cup flushingTombstones : k \notin t.keys
  BY <1>2 DEF Seeding
<1>4. ~HasEntry(flushing[k])
  BY <1>2, HybridAssumption DEF NoDirty, NoEntry, HasEntry
<1>5. Resolve(k).found <=> HasEntry(dirty[k])
  BY <1>3, <1>4, FoundMeans DEF Found
<1>6. HasEntry(dirty[k]) => Resolve(k).val = dirty[k].val
  BY <1>3 DEF Resolve
<1> QED BY <1>5, <1>6

\* Steps that touch neither the overlay, nor memory, nor the startup.
LEMMA HotFrame ==
    ASSUME HotInv,
           UNCHANGED <<log, sqlite, seed, mem, pendingOps, dirty, tombstones, batch,
                       flushing, flushingTombstones, seederVars, inflight, kv, raced, shadowed>>
    PROVE  HotInv'
<1>1. /\ TiersApart' /\ Seeding'
  BY DEF HotInv, TiersApart, Seeding, seederVars, Loaded
<1>2. \A k : Resolve(k)' = Resolve(k) /\ (Settled(k)' <=> Settled(k))
  BY DEF Resolve, Settled
<1>3. \A k \in Hot \ (raced \cup shadowed) : LastInFlight(k)' /\ MemoryOf(k)'
  BY <1>2 DEF HotInv, LastInFlight, MemoryOf, seederVars
<1> QED BY <1>1, <1>3 DEF HotInv

\* Once the seed is over, memory and the writes on their way to it are all that
\* counts: a flush may move ops and entries as it likes.
LEMMA HotLoaded ==
    ASSUME HotInv, seed = "loaded", TiersApart',
           UNCHANGED <<seed, mem, seedRow, inflight, kv, raced, shadowed>>
    PROVE  HotInv'
<1>1. seedRow = {}
  BY DEF HotInv, Seeding
<1>2. Seeding'
  BY <1>1 DEF Seeding, Loaded
<1>3. \A k : Settled(k)' <=> Settled(k)
  BY DEF Settled
<1>4. \A k \in Hot \ (raced \cup shadowed) : LastInFlight(k)' /\ MemoryOf(k)'
  BY <1>1, <1>3 DEF HotInv, LastInFlight, MemoryOf
<1> QED BY <1>2, <1>4 DEF HotInv

LEMMA HotInit == Init => HotInv
<1> SUFFICES ASSUME Init PROVE HotInv
  OBVIOUS
<1>1. /\ log = <<>> /\ pendingOps = <<>> /\ batch = <<>> /\ seed = "replay" /\ seedRow = {}
      /\ tombstones = {} /\ inflight = [w \in Writers |-> Idle]
      /\ mem = Empty /\ dirty = NoDirty
  BY DEF Init
<1>2. TiersApart /\ Seeding
  BY <1>1 DEF TiersApart, Seeding
<1>3. \A k \in Hot : LastInFlight(k) /\ MemoryOf(k)
  BY <1>1, HybridAssumption DEF LastInFlight, MemoryOf, Idle, Empty, NoDirty, NoEntry, HasEntry
<1> QED BY <1>2, <1>3 DEF HotInv

\* A replayed entry reaches the overlay and memory together.
LEMMA HotReplay ==
    ASSUME IInv, HotInv, ReplayEntry
    PROVE  HotInv'
<1> DEFINE n == Len(pendingOps) + 1
           o == log[n]
           new == PendingOp(o, nextSeq + 1)
<1>1. /\ seed = "replay" /\ seed' = seed /\ n \in DOMAIN log
      /\ pendingOps' = Append(pendingOps, new)
      /\ dirty' = [k \in Keys |-> IF PerKey(o, k) THEN [val |-> o.val, seq |-> nextSeq + 1]
                                                  ELSE dirty[k]]
      /\ tombstones' = IF o.op = "delprefix"
                       THEN tombstones \cup {[keys |-> o.keys, seq |-> nextSeq + 1]}
                       ELSE tombstones
      /\ mem' = IF o.keys \subseteq Hot THEN Apply(mem, o) ELSE mem
      /\ shadowed' = IF o.op = "delprefix" THEN shadowed \cup (o.keys \cap Hot) ELSE shadowed
      /\ UNCHANGED <<log, sqlite, batch, flushing, flushingTombstones, inflight, kv, raced,
                     dirtySnapshot, seedTodo, seedRow>>
  BY DEF IInv, TypeOK, ReplayEntry, ApplyOverlay, ReplayMem, diskVars, flushVars, seederVars
<1> HIDE DEF o, n
<1>2. OneTier(o)
  BY <1>1 DEF HotInv, TiersApart, o
<1>3. nextSeq \in Nat /\ nextSeq + 1 > 0
  BY DEF IInv, TypeOK
<1>4. TiersApart'
  <2>1. new.keys = o.keys
    BY DEF PendingOp
  <2>2. \A i \in DOMAIN pendingOps' :
            \/ i \in DOMAIN pendingOps /\ pendingOps'[i] = pendingOps[i]
            \/ pendingOps'[i] = new
    <3>1. pendingOps \in Seq(SeqOp)
      BY DEF IInv, TypeOK
    <3> HIDE DEF new
    <3> QED BY <1>1, <3>1
  <2> HIDE DEF new
  <2>3. \A i \in DOMAIN pendingOps' : OneTier(pendingOps'[i])
    BY <1>2, <2>1, <2>2 DEF HotInv, TiersApart, OneTier
  <2> QED BY <1>1, <2>3 DEF HotInv, TiersApart
<1> HIDE DEF new
<1>5. seedRow = {} /\ \A w \in Writers : inflight[w] = Idle
  BY <1>1 DEF HotInv, Seeding
<1>6. Seeding'
  <2>1. \A t \in tombstones' : t.keys \cap Hot \subseteq shadowed'
    BY <1>1 DEF HotInv, Seeding, Loaded
  <2> QED BY <1>1, <1>5, <2>1 DEF Seeding
<1>7. ASSUME NEW k \in Hot \ (raced' \cup shadowed') PROVE LastInFlight(k)' /\ MemoryOf(k)'
  <2>1. k \in Hot \ (raced \cup shadowed) /\ k \in Keys
    BY <1>1, <1>7, HybridAssumption
  <2>2. k \in o.keys => o.op # "delprefix" /\ o.keys \subseteq Hot
    BY <1>1, <1>2, <1>7 DEF OneTier
  <2>3. mem[k] = IF HasEntry(dirty[k]) THEN dirty[k].val ELSE Absent
    BY <1>1, <2>1 DEF HotInv, MemoryOf
  <2>4. LastInFlight(k)'
    BY <1>1, <1>5 DEF LastInFlight, Idle
  <2>5. mem'[k] = IF HasEntry(dirty'[k]) THEN dirty'[k].val ELSE Absent
    <3>1. CASE k \in o.keys
      <4>1. mem'[k] = o.val
        BY <1>1, <2>1, <2>2, <3>1 DEF Apply
      <4>2. dirty'[k] = [val |-> o.val, seq |-> nextSeq + 1]
        BY <1>1, <2>1, <2>2, <3>1 DEF PerKey
      <4> QED BY <1>3, <4>1, <4>2 DEF HasEntry
    <3>2. CASE k \notin o.keys
      <4>1. mem'[k] = mem[k]
        BY <1>1, <2>1, <3>2 DEF Apply
      <4>2. dirty'[k] = dirty[k]
        BY <1>1, <2>1, <3>2 DEF PerKey
      <4> QED BY <2>3, <4>1, <4>2
    <3> QED BY <3>1, <3>2
  <2>6. MemoryOf(k)'
    BY <1>1, <1>5, <2>5 DEF MemoryOf
  <2> QED BY <2>4, <2>6
<1> QED BY <1>4, <1>6, <1>7 DEF HotInv

\* The stages of the startup.
LEMMA HotStartup ==
    ASSUME IInv, IInv', HotInv,
           OpenLog \/ SeedReady \/ SeedStart \/ SeedStoreRow \/ SeedLoaded \/ SeedDegrade
    PROVE  HotInv'
<1> DEFINE Good == Hot \ (raced \cup shadowed)
<1>0. /\ \A k \in Good : LastInFlight(k) /\ MemoryOf(k) /\ k \in Keys /\ k \in Hot \ shadowed
      /\ TiersApart /\ Seeding
  BY HybridAssumption DEF HotInv
<1>1. /\ UNCHANGED <<log, sqlite, pendingOps, dirty, tombstones, batch, flushing,
                     flushingTombstones, inflight, kv, raced, shadowed>>
      /\ seed' # "replay" /\ seed # "loaded"
  BY DEF OpenLog, SeedReady, SeedStart, SeedStoreRow, SeedLoaded, SeedDegrade, diskVars,
         overlayVars, flushVars, ghostVars
<1>2. TiersApart'
  BY <1>0, <1>1 DEF TiersApart
<1>3. \A k : (Resolve(k)' = Resolve(k)) /\ (Settled(k)' <=> Settled(k))
  BY <1>1 DEF Resolve, Settled
<1>4. \A k \in Good : LastInFlight(k)'
  BY <1>0, <1>1, <1>3 DEF LastInFlight
<1>5. SUFFICES Seeding' /\ \A k \in Good : MemoryOf(k)'
  BY <1>1, <1>2, <1>4 DEF HotInv
<1> HIDE DEF Good
<1>6. CASE OpenLog
  <2>1. seed = "replay" /\ seed' = "opening" /\ mem' = mem /\ UNCHANGED seederVars
    BY <1>6 DEF OpenLog
  <2>2. seedRow' = {} /\ seedRow = {}
    BY <1>0, <2>1 DEF Seeding, seederVars
  <2>3. Seeding'
    BY <1>0, <1>1, <2>1, <2>2 DEF Seeding, Loaded
  <2>4. ASSUME NEW k \in Good PROVE MemoryOf(k)'
    <3>1. mem[k] = IF HasEntry(dirty[k]) THEN dirty[k].val ELSE Absent
      BY <1>0, <2>1 DEF MemoryOf
    <3>2. (Resolve(k).found <=> HasEntry(dirty[k]))
          /\ (HasEntry(dirty[k]) => Resolve(k).val = dirty[k].val)
      BY <1>0, <2>1, EarlyFound DEF Loaded
    <3>3. View(k)' = kv'[k]
      BY <1>0, <2>1, CurrentNext DEF ViewCurrent
    <3>4. Resolve(k).found => kv'[k] = dirty[k].val
      BY <1>3, <3>2, <3>3 DEF View
    <3>5. Resolve(k).found' = Resolve(k).found
      BY <1>3
    <3> QED BY <1>1, <2>1, <2>2, <3>1, <3>2, <3>4, <3>5 DEF MemoryOf
  <2> QED BY <2>3, <2>4
<1>7. CASE SeedReady
  <2>1. seed = "opening" /\ seed' = "ready" /\ mem' = mem /\ UNCHANGED seederVars
    BY <1>7 DEF SeedReady
  <2>2. seedRow' = {} /\ seedRow = {}
    BY <1>0, <2>1 DEF Seeding, seederVars
  <2>3. Seeding'
    BY <1>0, <1>1, <2>1, <2>2 DEF Seeding, Loaded
  <2>4. \A k \in Good : MemoryOf(k)'
    BY <1>0, <1>1, <1>3, <2>1, <2>2 DEF MemoryOf
  <2> QED BY <2>3, <2>4
<1>8. CASE SeedStart
  <2>1. /\ seed = "ready" /\ seed' = "scanning" /\ mem' = mem /\ seedRow' = seedRow
        /\ dirtySnapshot' = {k \in Keys : HasEntry(dirty[k])}
        /\ seedTodo' = {k \in Hot : sqlite[k] # Absent}
    BY <1>8 DEF SeedStart
  <2>2. seedRow' = {} /\ seedRow = {}
    BY <1>0, <2>1 DEF Seeding
  <2>3. Seeding'
    BY <1>0, <1>1, <2>1, <2>2 DEF Seeding, Loaded
  <2>4. ASSUME NEW k \in Good PROVE MemoryOf(k)'
    <3>1. ~Resolve(k).found => mem[k] = Absent
      BY <1>0, <2>1 DEF MemoryOf
    <3>2. k \notin seedTodo' => sqlite[k] = Absent
      BY <1>0, <2>1
    <3>3. Settled(k) /\ Resolve(k).found => mem[k] = kv[k]
      BY <1>0, <2>1 DEF MemoryOf
    <3> QED BY <1>1, <1>3, <2>1, <2>2, <3>1, <3>2, <3>3 DEF MemoryOf
  <2> QED BY <2>3, <2>4
<1>9. CASE SeedStoreRow
  <2>1. /\ seed = "scanning" /\ seed' = seed /\ seedRow' = {}
        /\ mem' = [k \in Keys |-> IF k \in seedRow THEN sqlite[k] ELSE mem[k]]
        /\ UNCHANGED <<dirtySnapshot, seedTodo>>
    BY <1>9 DEF SeedStoreRow
  <2>2. Seeding'
    BY <1>0, <1>1, <2>1 DEF Seeding, Loaded
  <2>3. ASSUME NEW k \in Good PROVE MemoryOf(k)'
    <3>1. mem'[k] = IF k \in seedRow THEN sqlite[k] ELSE mem[k]
      BY <1>0, <2>1
    <3>2. /\ k \in seedRow => ~Resolve(k).found
          /\ Settled(k) /\ Resolve(k).found => mem[k] = kv[k]
          /\ ~Resolve(k).found /\ k \notin seedTodo \cup seedRow => mem[k] = sqlite[k]
      BY <1>0, <2>1 DEF MemoryOf
    <3> QED BY <1>1, <1>3, <2>1, <3>1, <3>2 DEF MemoryOf
  <2> QED BY <2>2, <2>3
<1>10. CASE SeedLoaded
  <2>1. /\ seed = "scanning" /\ seed' = "loaded" /\ seedRow = {} /\ seedTodo = {}
        /\ mem' = mem /\ UNCHANGED seederVars
    BY <1>10 DEF SeedLoaded
  <2>2. Seeding'
    BY <2>1 DEF Seeding, Loaded, seederVars
  <2>3. ASSUME NEW k \in Good PROVE MemoryOf(k)'
    <3>1. /\ Settled(k) /\ Resolve(k).found => mem[k] = kv[k]
          /\ ~Resolve(k).found => mem[k] = sqlite[k]
      BY <1>0, <2>1 DEF MemoryOf
    <3>2. ~Resolve(k).found => sqlite[k] = kv[k]
      BY <1>0, <2>1, CurrentOf
    <3> QED BY <1>1, <1>3, <2>1, <3>1, <3>2 DEF MemoryOf, seederVars
  <2> QED BY <2>2, <2>3
<1>11. CASE SeedDegrade
  <2>1. seed # "replay" /\ seed' = "degraded" /\ seedRow = {} /\ mem' = mem /\ UNCHANGED seederVars
    BY <1>11 DEF SeedDegrade
  <2>2. Seeding'
    BY <2>1 DEF Seeding, Loaded, seederVars
  <2>3. \A k \in Good : MemoryOf(k)'
    BY <1>0, <1>1, <1>3, <2>1 DEF MemoryOf, seederVars
  <2> QED BY <2>2, <2>3
<1> QED BY <1>6, <1>7, <1>8, <1>9, <1>10, <1>11

\* The seeder skips a row only for a key that the overlay speaks of.
LEMMA HotCheckRow ==
    ASSUME IInv, HotInv, NEW x \in Hot, SeedCheckRow(x)
    PROVE  HotInv'
<1>1. /\ seed = "scanning" /\ seed' = seed /\ seedRow = {} /\ mem' = mem
      /\ seedTodo' = seedTodo \ {x} /\ seedRow' = IF RowOverwritten(x) THEN {} ELSE {x}
      /\ UNCHANGED <<log, sqlite, pendingOps, dirty, tombstones, batch, flushing,
                     flushingTombstones, inflight, kv, raced, shadowed, dirtySnapshot>>
  BY DEF SeedCheckRow, diskVars, overlayVars, flushVars, ghostVars
<1>2. TiersApart' /\ Seeding'
  BY <1>1 DEF HotInv, TiersApart, Seeding, Loaded
<1>3. \A k : (Resolve(k)' = Resolve(k)) /\ (Settled(k)' <=> Settled(k))
  BY <1>1 DEF Resolve, Settled
<1>4. ASSUME NEW k \in Hot \ (raced \cup shadowed) PROVE LastInFlight(k)' /\ MemoryOf(k)'
  <2>1. LastInFlight(k)'
    BY <1>1, <1>3 DEF HotInv, LastInFlight
  <2>2. Resolve(k).found <=> HasEntry(dirty[k])
    BY <1>1, EarlyFound DEF HotInv, Loaded
  <2>3. RowOverwritten(k) => HasEntry(dirty[k])
    BY <1>1 DEF HotInv, Seeding, RowOverwritten
  <2>4. HasEntry(dirty[k]) => RowOverwritten(k)
    BY DEF RowOverwritten
  <2>5. /\ Settled(k) /\ Resolve(k).found => mem[k] = kv[k]
        /\ ~Resolve(k).found /\ k \notin seedTodo => mem[k] = sqlite[k]
    BY <1>1 DEF HotInv, MemoryOf
  <2>6. k \in seedRow' => ~Resolve(k).found
    BY <1>1, <2>2, <2>4
  <2>7. ~Resolve(k).found /\ k \notin seedTodo' \cup seedRow' => k \notin seedTodo
    BY <1>1, <2>2, <2>3
  <2>8. MemoryOf(k)'
    BY <1>1, <1>3, <2>5, <2>6, <2>7 DEF MemoryOf
  <2> QED BY <2>1, <2>8
<1> QED BY <1>1, <1>2, <1>4 DEF HotInv

\* An operation a caller can issue touches one tier.
LEMMA OpsOneTier == \A o \in Ops : OneTier(o)
BY HybridAssumption DEF Ops, SetOps, DeleteOps, DeletePrefixOps, OneTier

\* An accepted write is found in the overlay at once and is on its way to memory.
LEMMA HotWrite ==
    ASSUME IInv, HotInv, NEW w \in Writers, NEW o \in Ops, Write(w, o)
    PROVE  HotInv'
<1> DEFINE new == PendingOp(o, nextSeq + 1)
<1>1. /\ seed # "replay" /\ seed' = seed /\ inflight[w] = Idle
      /\ log' \in {log, Append(log, WalEntry(o))}
      /\ pendingOps' = Append(pendingOps, new)
      /\ dirty' = [k \in Keys |-> IF PerKey(o, k) THEN [val |-> o.val, seq |-> nextSeq + 1]
                                                  ELSE dirty[k]]
      /\ tombstones' = IF o.op = "delprefix"
                       THEN tombstones \cup {[keys |-> o.keys, seq |-> nextSeq + 1]}
                       ELSE tombstones
      /\ inflight' = [inflight EXCEPT ![w] = IF o.keys \subseteq Hot THEN o ELSE Idle]
      /\ kv' = Apply(kv, o)
      /\ raced' = raced \cup {k \in o.keys \cap Hot :
                                 k \in seedRow \/ \E u \in Writers : k \in inflight[u].keys}
      /\ shadowed' = IF o.op = "delprefix" /\ ~Loaded THEN shadowed \cup (o.keys \cap Hot)
                     ELSE shadowed
      /\ UNCHANGED <<sqlite, mem, batch, flushing, flushingTombstones,
                     dirtySnapshot, seedTodo, seedRow>>
  BY DEF Write, AppendPending, ApplyOverlay, flushVars, seederVars
<1>2. OneTier(o) /\ inflight \in [Writers -> WalOp \cup {Idle}] /\ nextSeq + 1 > 0
  BY OpsOneTier DEF IInv, TypeOK
<1>3. inflight'[w] = (IF o.keys \subseteq Hot THEN o ELSE Idle)
      /\ \A u \in Writers : u # w => inflight'[u] = inflight[u]
  BY <1>1, <1>2
<1>4. TiersApart'
  <2>1. log \in Seq(WalOp) /\ pendingOps \in Seq(SeqOp)
    BY DEF IInv, TypeOK
  <2>2. new.keys = o.keys /\ WalEntry(o).keys = o.keys
    BY DEF PendingOp, WalEntry
  <2> DEFINE e == WalEntry(o)
  <2>3. log' \in {log, Append(log, e)}
    BY <1>1
  <2> HIDE DEF new, e
  <2>4. \A i \in DOMAIN log' : (i \in DOMAIN log /\ log'[i] = log[i]) \/ log'[i] = e
    BY <2>1, <2>3
  <2>5. \A i \in DOMAIN pendingOps' :
           (i \in DOMAIN pendingOps /\ pendingOps'[i] = pendingOps[i]) \/ pendingOps'[i] = new
    BY <1>1, <2>1
  <2>6. OneTier(e) /\ OneTier(new)
    BY <1>2, <2>2 DEF OneTier, e
  <2>7. \A i \in DOMAIN log' : OneTier(log'[i])
    BY <2>4, <2>6 DEF HotInv, TiersApart
  <2>8. \A i \in DOMAIN pendingOps' : OneTier(pendingOps'[i])
    BY <2>5, <2>6 DEF HotInv, TiersApart
  <2> QED BY <1>1, <2>7, <2>8 DEF HotInv, TiersApart
<1> HIDE DEF new
<1>5. Seeding'
  <2>1. ~Loaded => \A t \in tombstones' : t.keys \cap Hot \subseteq shadowed'
    BY <1>1 DEF HotInv, Seeding
  <2>2. seed = "scanning" => \A k \in dirtySnapshot : HasEntry(dirty[k])
    BY DEF HotInv, Seeding
  <2>3. \A k \in Keys : HasEntry(dirty[k]) => HasEntry(dirty'[k])
    BY <1>1, <1>2 DEF HasEntry
  <2>4. dirtySnapshot \subseteq Keys
    BY DEF IInv, TypeOK
  <2>5. seed = "scanning" => \A k \in dirtySnapshot' : HasEntry(dirty'[k])
    BY <1>1, <2>2, <2>3, <2>4
  <2>6. seedRow' # {} => seed' = "scanning"
    BY <1>1 DEF HotInv, Seeding
  <2> QED BY <1>1, <2>1, <2>5, <2>6 DEF Seeding, Loaded
<1>6. ASSUME NEW k \in Hot \ (raced' \cup shadowed') PROVE LastInFlight(k)' /\ MemoryOf(k)'
  <2>1. k \in Hot \ (raced \cup shadowed) /\ k \in Keys
    BY <1>1, <1>6, HybridAssumption
  <2>2. LastInFlight(k) /\ MemoryOf(k)
    BY <2>1 DEF HotInv
  <2>3. CASE k \in o.keys
    <3>1. o.keys \subseteq Hot /\ k \notin seedRow /\ \A u \in Writers : k \notin inflight[u].keys
      BY <1>1, <1>2, <1>6, <2>1, <2>3 DEF OneTier
    <3>2. inflight'[w] = o /\ \A u \in Writers : k \in inflight'[u].keys => u = w
      BY <1>3, <3>1
    <3>3. kv'[k] = o.val
      BY <1>1, <2>1, <2>3 DEF Apply
    <3>4. Found(k)'
      <4>1. CASE o.op = "delprefix"
        <5> DEFINE tomb == [keys |-> o.keys, seq |-> nextSeq + 1]
        <5>1. tomb \in tombstones'
          BY <1>1, <4>1
        <5>2. k \in tomb.keys
          BY <2>3
        <5> HIDE DEF tomb
        <5> QED BY <5>1, <5>2 DEF Found
      <4>2. CASE o.op # "delprefix"
        <5>1. dirty'[k] = [val |-> o.val, seq |-> nextSeq + 1]
          BY <1>1, <2>1, <2>3, <4>2 DEF PerKey
        <5> QED BY <1>2, <5>1 DEF Found, HasEntry
      <4> QED BY <4>1, <4>2
    <3>5. Resolve(k).found'
      BY <3>4, FoundMeans
    <3>6. LastInFlight(k)'
      BY <3>2, <3>3, <3>5 DEF LastInFlight
    <3>7. ~Settled(k)'
      BY <2>3, <3>2 DEF Settled
    <3>8. MemoryOf(k)'
      BY <1>1, <3>1, <3>5, <3>7 DEF MemoryOf
    <3> QED BY <3>6, <3>8
  <2>4. CASE k \notin o.keys
    <3>1. dirty'[k] = dirty[k] /\ kv'[k] = kv[k]
      BY <1>1, <2>1, <2>4 DEF PerKey, Apply
    <3>2. Found(k)' <=> Found(k)
      BY <1>1, <2>4, <3>1 DEF Found
    <3>3. Resolve(k).found' <=> Resolve(k).found
      BY <3>2, FoundMeans
    <3>4. \A u \in Writers : /\ k \in inflight'[u].keys <=> k \in inflight[u].keys
                             /\ k \in inflight[u].keys => inflight'[u] = inflight[u]
      BY <1>1, <1>3, <2>4 DEF Idle
    <3>5. LastInFlight(k)'
      BY <1>1, <2>2, <3>1, <3>3, <3>4 DEF LastInFlight
    <3>6. Settled(k)' <=> Settled(k)
      BY <3>4 DEF Settled
    <3>7. MemoryOf(k)'
      BY <1>1, <2>2, <3>1, <3>3, <3>6 DEF MemoryOf
    <3> QED BY <3>5, <3>7
  <2> QED BY <2>3, <2>4
<1> QED BY <1>4, <1>5, <1>6 DEF HotInv

\* The write reaches memory: it is the last accepted one.
LEMMA HotWriteMem ==
    ASSUME IInv, HotInv, NEW w \in Writers, WriteMem(w)
    PROVE  HotInv'
<1>1. /\ inflight[w] # Idle /\ mem' = Apply(mem, inflight[w])
      /\ inflight' = [inflight EXCEPT ![w] = Idle]
      /\ UNCHANGED <<log, sqlite, seed, pendingOps, dirty, tombstones, batch, flushing,
                     flushingTombstones, kv, raced, shadowed, dirtySnapshot, seedTodo, seedRow>>
  BY DEF WriteMem, diskVars, overlayVars, flushVars, seederVars, ghostVars
<1>2. inflight'[w] = Idle /\ \A u \in Writers : u # w => inflight'[u] = inflight[u]
  BY <1>1 DEF IInv, TypeOK
<1>3. TiersApart' /\ Seeding'
  BY <1>1, <1>2 DEF HotInv, TiersApart, Seeding, Loaded
<1>4. \A k : Resolve(k)' = Resolve(k)
  BY <1>1 DEF Resolve
<1>5. ASSUME NEW k \in Hot \ (raced \cup shadowed) PROVE LastInFlight(k)' /\ MemoryOf(k)'
  <2>1. LastInFlight(k) /\ MemoryOf(k) /\ k \in Keys
    BY HybridAssumption DEF HotInv
  <2>2. \A u \in Writers : k \in inflight'[u].keys =>
                              u # w /\ k \in inflight[u].keys /\ inflight'[u] = inflight[u]
    BY <1>2 DEF Idle
  <2>3. LastInFlight(k)'
    BY <1>1, <1>4, <2>1, <2>2 DEF LastInFlight
  <2>4. CASE k \in inflight[w].keys
    <3>1. mem'[k] = kv[k]
      BY <1>1, <2>1, <2>4 DEF Apply, LastInFlight
    <3>2. seed = "loaded" \/ Resolve(k).found
      BY <2>1, <2>4 DEF LastInFlight
    <3>3. seed # "replay"
      BY <1>1 DEF HotInv, Seeding
    <3> QED BY <1>1, <1>4, <2>1, <2>3, <3>1, <3>2, <3>3 DEF MemoryOf
  <2>5. CASE k \notin inflight[w].keys
    <3>1. mem'[k] = mem[k]
      BY <1>1, <2>1, <2>5 DEF Apply
    <3>2. Settled(k)' => Settled(k)
      BY <1>2, <2>5 DEF Settled
    <3> QED BY <1>1, <1>4, <2>1, <2>3, <3>1, <3>2 DEF MemoryOf
  <2> QED BY <2>4, <2>5
<1> QED BY <1>1, <1>3, <1>5 DEF HotInv

\* The flush moves ops between the lists, and memory does not change.
LEMMA HotFlush ==
    ASSUME IInv, HotInv,
           \/ FlushSteal \/ FlushExec \/ FlushCommit \/ FlushCompact \/ FlushEnd
           \/ FlushChunkFail \/ FlushCompactFail
    PROVE  HotInv'
<1>1. /\ seed = "loaded"
      /\ UNCHANGED <<seed, mem, seedRow, inflight, kv, raced, shadowed>>
  BY DEF IInv, BatchProgress, FlushSteal, FlushExec, FlushCommit, FlushCompact, FlushEnd,
         FlushChunkFail, FlushCompactFail, FlushRestore, seederVars, ghostVars
<1>2. log \in Seq(WalOp) /\ pendingOps \in Seq(SeqOp) /\ batch \in Seq(SeqOp) /\ TiersApart
  BY DEF IInv, TypeOK, HotInv
<1>3. CASE FlushSteal
  <2>1. log' = log /\ batch' = pendingOps /\ pendingOps' = <<>>
    BY <1>3 DEF FlushSteal, diskVars
  <2> QED BY <1>1, <1>2, <2>1, HotLoaded DEF TiersApart
<1>4. CASE FlushExec \/ FlushCommit
  <2>1. UNCHANGED <<log, batch, pendingOps>>
    BY <1>4 DEF FlushExec, FlushCommit, diskVars, overlayVars
  <2> QED BY <1>1, <1>2, <2>1, HotLoaded DEF TiersApart
<1>5. CASE FlushCompact
  <2>1. UNCHANGED <<batch, pendingOps>>
    BY <1>5 DEF FlushCompact, overlayVars
  <2>2. log' = [i \in 1..Len(pendingOps) |-> WalEntry(pendingOps[i])]
    BY <1>5 DEF FlushCompact, CompactedLog
  <2>3. DOMAIN log' = DOMAIN pendingOps
    BY <1>2, <2>2
  <2>4. \A i \in DOMAIN log' : log'[i].keys = pendingOps[i].keys
    BY <1>2, <2>2, <2>3 DEF WalEntry
  <2> QED BY <1>1, <1>2, <2>1, <2>3, <2>4, HotLoaded DEF TiersApart, OneTier
<1>6. CASE FlushEnd
  <2>1. UNCHANGED <<log, pendingOps>> /\ batch' = <<>>
    BY <1>6 DEF FlushEnd, ResetBatch, diskVars, overlayVars
  <2> QED BY <1>1, <1>2, <2>1, HotLoaded DEF TiersApart
<1>7. CASE FlushChunkFail \/ FlushCompactFail
  <2>1. log' = log /\ batch' = <<>> /\ pendingOps' = batch \o pendingOps
    BY <1>7 DEF FlushChunkFail, FlushCompactFail, FlushRestore, ResetBatch, RestoredOps
  <2>2. \A i \in DOMAIN pendingOps' :
           \/ \E j \in DOMAIN batch : pendingOps'[i] = batch[j]
           \/ \E j \in DOMAIN pendingOps : pendingOps'[i] = pendingOps[j]
    <3> SUFFICES ASSUME NEW i \in DOMAIN (batch \o pendingOps)
                 PROVE  \/ \E j \in DOMAIN batch : (batch \o pendingOps)[i] = batch[j]
                        \/ \E j \in DOMAIN pendingOps : (batch \o pendingOps)[i] = pendingOps[j]
      BY <2>1
    <3>1. CASE i \in DOMAIN batch
      BY <1>2, <3>1
    <3>2. CASE i \notin DOMAIN batch
      <4>1. i - Len(batch) \in DOMAIN pendingOps
            /\ (batch \o pendingOps)[i] = pendingOps[i - Len(batch)]
        BY <1>2, <3>2
      <4> QED BY <4>1
    <3> QED BY <3>1, <3>2
  <2>3. \A i \in DOMAIN pendingOps' : OneTier(pendingOps'[i])
    BY <1>2, <2>2 DEF TiersApart
  <2> QED BY <1>1, <1>2, <2>1, <2>3, HotLoaded DEF TiersApart
<1> QED BY <1>3, <1>4, <1>5, <1>6, <1>7

\* A restart empties memory along with the overlay.
LEMMA HotCrash ==
    ASSUME IInv, HotInv, Crash
    PROVE  HotInv'
<1>1. /\ log' = log /\ pendingOps' = <<>> /\ batch' = <<>> /\ seed' = "replay"
      /\ seedRow' = {} /\ tombstones' = {} /\ inflight' = [w \in Writers |-> Idle]
      /\ mem' = Empty /\ dirty' = NoDirty
  BY DEF Crash, Restart
<1>2. TiersApart' /\ Seeding'
  BY <1>1 DEF HotInv, TiersApart, Seeding
<1>3. \A k \in Hot : LastInFlight(k)' /\ MemoryOf(k)'
  BY <1>1, HybridAssumption DEF LastInFlight, MemoryOf, Idle, Empty, NoDirty, NoEntry, HasEntry
<1> QED BY <1>2, <1>3 DEF HotInv

LEMMA HotStep == IInv /\ IInv' /\ HotInv /\ [Next]_vars => HotInv'
<1> SUFFICES ASSUME IInv, IInv', HotInv, [Next]_vars PROVE HotInv'
  OBVIOUS
<1>1. CASE ReplayEntry BY <1>1, HotReplay
<1>2. CASE OpenLog \/ SeedReady \/ SeedStart \/ SeedStoreRow \/ SeedLoaded \/ SeedDegrade
  BY <1>2, HotStartup
<1>3. CASE \E k \in Hot : SeedCheckRow(k) BY <1>3, HotCheckRow
<1>4. CASE \E w \in Writers, o \in Ops : Write(w, o) BY <1>4, HotWrite
<1>5. CASE \E w \in Writers : WriteMem(w) BY <1>5, HotWriteMem
<1>6. CASE \/ FlushSteal \/ FlushExec \/ FlushCommit \/ FlushCompact \/ FlushEnd
           \/ FlushChunkFail \/ FlushCompactFail
  BY <1>6, HotFlush
<1>7. CASE CloseBegin \/ CloseFlushEmpty \/ CloseFile \/ UNCHANGED vars
  BY <1>7, HotFrame DEF CloseBegin, CloseFlushEmpty, CloseFile, vars, diskVars, overlayVars,
                        flushVars, ghostVars
<1>8. CASE Crash BY <1>8, HotCrash
<1> QED BY <1>1, <1>2, <1>3, <1>4, <1>5, <1>6, <1>7, <1>8 DEF Next

\* The invariant of the memory layer holds for every instance.
THEOREM MemoryFollows == Spec => []HotInv
BY HotInit, HotStep, InvariantHolds, PTL DEF Spec

\* After the seed memory has the last accepted write of every TierHot key, but
\* for the two races with the seeder and between writers that the code admits.
THEOREM HotReadsHold == Spec => []HotReadsCurrent
<1>1. HotInv => HotReadsCurrent
  <2> SUFFICES ASSUME HotInv, seed = "loaded", NEW k \in Hot \ (raced \cup shadowed), Settled(k)
               PROVE  Read(k) = kv[k]
    BY DEF HotReadsCurrent
  <2>1. mem[k] = kv[k]
    BY DEF HotInv, MemoryOf
  <2> QED BY <2>1 DEF Read, Loaded
<1> QED BY <1>1, MemoryFollows, PTL

\* A write that has returned is read back, whichever layer answers: the overlay,
\* SQLite, memory after the seed, or memory in a store degraded to it.
THEOREM WritesAreReadBack == Spec => []ReadYourWrites
<1>1. IInv /\ HotInv => ReadYourWrites
  <2> SUFFICES ASSUME IInv, HotInv, seed # "replay", NEW k \in Keys \ (raced \cup shadowed),
                      Resolve(k).found, Settled(k)
               PROVE  Read(k) = kv[k]
    BY DEF ReadYourWrites
  <2>1. CASE k \in Hot /\ Loaded
    <3>1. mem[k] = kv[k]
      BY <2>1 DEF HotInv, MemoryOf
    <3> QED BY <2>1, <3>1 DEF Read
  <2>2. CASE ~(k \in Hot /\ Loaded)
    BY <2>2, CurrentOf DEF Read
  <2> QED BY <2>1, <2>2
<1> QED BY <1>1, MemoryFollows, InvariantHolds, PTL

-----------------------------------------------------------------------------
(* The store is a persistent map. *)

\* A non-empty set of positions of a sequence has a last one.
LEMMA LastPosition ==
    ASSUME NEW n \in Nat, NEW S \in SUBSET (1..n), S # {}
    PROVE  \E j \in S : \A i \in S : i <= j
<1> DEFINE D == {m \in Nat : \E j \in S : m = n - j}
           R == OpToRel(<, Nat)
<1>1. D \subseteq Nat /\ D # {}
  <2>1. PICK j \in S : TRUE
    OBVIOUS
  <2>2. n - j \in Nat
    OBVIOUS
  <2> QED BY <2>2
<1>2. IsWellFoundedOn(R, Nat)
  BY NatLessThanWellFounded
<1>3. \E m \in D : \A l \in D : ~(<<l, m>> \in R)
  <2> HIDE DEF D, R
  <2> QED BY <1>1, <1>2, WFMin
<1>4. PICK m \in D : \A l \in D : ~(<<l, m>> \in R)
  BY <1>3
<1>5. \A l \in D : ~(l < m)
  BY <1>4 DEF OpToRel
<1>6. PICK j \in S : m = n - j
  BY <1>4
<1>7. ASSUME NEW i \in S PROVE i <= j
  <2>1. n - i \in D
    OBVIOUS
  <2>2. ~(n - i < n - j)
    BY <1>5, <1>6, <2>1
  <2> QED BY <2>2
<1> QED BY <1>7

\* What a restart would bring back is what the writes in the log add up to.
LEMMA RecoversSaved == IInv => Recovered = saved
<1> SUFFICES ASSUME IInv PROVE Recovered = saved
  OBVIOUS
<1>1. log \in Seq(WalOp) /\ saved \in Contents /\ Durable
  BY DEF IInv, TypeOK
<1>2. ASSUME NEW k \in Keys PROVE Recovered[k] = saved[k]
  <2> DEFINE covering == {j \in DOMAIN log : k \in log[j].keys}
             last == CHOOSE j \in covering : \A i \in covering : i <= j
  <2>1. Recovered[k] = IF covering = {} THEN sqlite[k] ELSE log[last].val
    BY DEF Recovered
  <2>2. CASE covering = {}
    BY <1>1, <2>1, <2>2 DEF Durable
  <2>3. CASE covering # {}
    <3>1. Len(log) \in Nat /\ covering \in SUBSET (1..Len(log))
      BY <1>1
    <3>2. \E j \in covering : \A i \in covering : i <= j
      <4> HIDE DEF covering
      <4> QED BY <2>3, <3>1, LastPosition
    <3>3. last \in covering /\ \A i \in covering : i <= last
      BY <3>2
    <3> HIDE DEF last
    <3>4. last \in DOMAIN log /\ k \in log[last].keys
      BY <3>3
    <3>5. \A i \in DOMAIN log : i > last => k \notin log[i].keys
      BY <1>1, <3>1, <3>3
    <3>6. log[last].val = saved[k]
      BY <1>1, <3>4, <3>5 DEF Durable
    <3> QED BY <2>1, <2>3, <3>6
  <2> QED BY <2>2, <2>3
<1>3. Recovered = [k \in Keys |-> Recovered[k]]
  BY DEF Recovered
<1>4. saved = [k \in Keys |-> saved[k]]
  BY <1>1 DEF Contents
<1> QED BY <1>2, <1>3, <1>4

\* What a reader sees is what the accepted writes add up to.
LEMMA ShowsAccepted == IInv => Visible = kv
<1> SUFFICES ASSUME IInv PROVE Visible = kv
  OBVIOUS
<1>1. kv \in Contents
  BY DEF IInv, TypeOK
<1>2. CASE seed = "replay"
  <2>1. kv = saved
    BY <1>2 DEF IInv, Replaying
  <2> QED BY <1>2, <2>1, RecoversSaved DEF Visible
<1>3. CASE seed # "replay"
  <2>1. \A k \in Keys : View(k) = kv[k]
    BY <1>3, ViewFromInvariant DEF ViewCurrent
  <2>2. kv = [k \in Keys |-> kv[k]]
    BY <1>1 DEF Contents
  <2>3. Visible = [k \in Keys |-> View(k)]
    BY <1>3 DEF Visible
  <2> QED BY <2>1, <2>2, <2>3
<1> QED BY <1>2, <1>3

\* A step of the store writes, writes unsaved, restarts, or is not seen.
LEMMA StepsOfMap ==
    ASSUME IInv, [Next]_vars
    PROVE  \/ \E o \in Ops : kv' = Apply(kv, o) /\ saved' = Apply(saved, o) /\ ~capped /\ capped' = capped
           \/ \E o \in Ops : kv' = Apply(kv, o) /\ saved' = saved /\ capped'
           \/ kv' = saved /\ saved' = saved /\ ~capped'
           \/ kv' = kv /\ saved' = saved /\ capped' = capped
<1>1. ASSUME NEW w \in Writers, NEW o \in Ops, Write(w, o)
      PROVE  /\ kv' = Apply(kv, o)
             /\ \/ saved' = Apply(saved, o) /\ ~capped /\ capped' = capped
                \/ saved' = saved /\ capped'
  <2>1. kv' = Apply(kv, o) /\ capped' = (capped \/ PastCap)
        /\ (PastCap => saved' = saved) /\ (~PastCap => saved' = Apply(saved, o))
    BY <1>1 DEF Write
  <2>2. capped => PastCap
    BY DEF IInv, Replaying, PastCap
  <2>3. capped \in BOOLEAN
    BY DEF IInv, TypeOK
  <2> QED BY <2>1, <2>2, <2>3
<1>2. CASE Crash
  BY <1>2 DEF Crash, Restart
<1>3. CASE UNCHANGED <<kv, saved, capped>>
  BY <1>3
<1>4. \/ \E w \in Writers, o \in Ops : Write(w, o)
      \/ Crash
      \/ UNCHANGED <<kv, saved, capped>>
  BY DEF Next, vars, ghostVars, ReplayEntry, OpenLog, SeedReady, SeedStart, SeedStoreRow,
         SeedLoaded, SeedDegrade, SeedCheckRow, WriteMem, FlushSteal, FlushExec, FlushCommit,
         FlushCompact, FlushEnd, FlushChunkFail, FlushCompactFail, FlushRestore, CloseBegin,
         CloseFlushEmpty, CloseFile
<1> QED BY <1>1, <1>2, <1>3, <1>4

\* The store implements the persistent map: through replays, flushes, failures,
\* compactions and restarts a reader sees one map, to which every write is
\* applied once, and which only a capped log separates from what is saved.
THEOREM Refinement == Spec => ImplementsPersistentKV
<1>1. Init => KV!Init
  <2> SUFFICES ASSUME Init PROVE KV!Init
    OBVIOUS
  <2>1. Visible = kv /\ Recovered = saved
    BY InvInit, ShowsAccepted, RecoversSaved
  <2>2. kv = Empty /\ saved = Empty /\ capped = FALSE
    BY DEF Init
  <2> QED BY <2>1, <2>2 DEF KV!Init, KV!Empty, Empty
<1>2. IInv /\ (Visible = kv /\ Recovered = saved) /\ (Visible = kv /\ Recovered = saved)'
      /\ [Next]_vars => [KV!Next]_(KV!vars)
  <2> SUFFICES ASSUME IInv, Visible = kv, Recovered = saved, Visible' = kv',
                      Recovered' = saved', [Next]_vars
               PROVE  [KV!Next]_(KV!vars)
    OBVIOUS
  <2>1. capped \in BOOLEAN /\ (KV!Ops = Ops) /\ \A m, o : KV!Apply(m, o) = Apply(m, o)
    BY DEF IInv, TypeOK, KV!Ops, KV!SetOps, KV!DeleteOps, KV!DeletePrefixOps, KV!Apply,
           Ops, SetOps, DeleteOps, DeletePrefixOps, Apply
  <2>2. ASSUME NEW o \in Ops, kv' = Apply(kv, o), saved' = Apply(saved, o), ~capped, capped' = capped
        PROVE  KV!Next
    <3>1. KV!Write(o)
      BY <2>1, <2>2 DEF KV!Write
    <3> QED BY <2>1, <3>1 DEF KV!Next
  <2>3. ASSUME NEW o \in Ops, kv' = Apply(kv, o), saved' = saved, capped'
        PROVE  KV!Next
    <3>1. KV!WriteUnsaved(o)
      BY <2>1, <2>3 DEF KV!WriteUnsaved
    <3> QED BY <2>1, <3>1 DEF KV!Next
  <2>4. CASE kv' = saved /\ saved' = saved /\ ~capped'
    <3>1. KV!Restart
      BY <2>4 DEF KV!Restart
    <3> QED BY <3>1 DEF KV!Next
  <2>5. CASE kv' = kv /\ saved' = saved /\ capped' = capped
    BY <2>5 DEF KV!vars
  <2> QED BY <2>2, <2>3, <2>4, <2>5, StepsOfMap
<1>3. IInv => Visible = kv /\ Recovered = saved
  BY ShowsAccepted, RecoversSaved
<1> QED BY <1>1, <1>2, <1>3, InvariantHolds, PTL DEF Spec, ImplementsPersistentKV, KV!Spec

-----------------------------------------------------------------------------
(* The reads that go through the overlay in two halves. *)

\* A key of which the overlay says nothing has its value in SQLite, and no op
\* that is still to be flushed covers it.
LEMMA UnfoundIsComing ==
    ASSUME IInv, seed # "replay", NEW k \in Keys, ~Resolve(k).found
    PROVE  Coming(k, {kv[k]})
<1>1. /\ ~HasEntry(dirty[k]) /\ ~HasEntry(flushing[k])
      /\ \A t \in tombstones \cup flushingTombstones : k \notin t.keys
  BY FoundMeans DEF Found
<1>2. /\ CacheOf(pendingOps, dirty, tombstones)
      /\ CacheOf(batch, flushing, flushingTombstones)
      /\ SeqsOrdered /\ TypeOK
  BY DEF IInv, CachesMatch
<1>3. dirty[k].seq \in Nat /\ flushing[k].seq \in Nat
  BY <1>2 DEF TypeOK, Entry
<1>4. ASSUME NEW i \in DOMAIN pendingOps PROVE k \notin pendingOps[i].keys
  <2>1. ~PerKey(pendingOps[i], k)
    BY <1>1, <1>2, <1>3 DEF CacheOf, SeqsOrdered, TypeOK, HasEntry
  <2>2. ASSUME pendingOps[i].op = "delprefix" PROVE k \notin pendingOps[i].keys
    <3> DEFINE t == [keys |-> pendingOps[i].keys, seq |-> pendingOps[i].seq]
    <3>1. t \in tombstones
      BY <1>2, <2>2 DEF CacheOf
    <3>2. t.keys = pendingOps[i].keys
      OBVIOUS
    <3> HIDE DEF t
    <3> QED BY <1>1, <3>1, <3>2
  <2> QED BY <2>1, <2>2 DEF PerKey
<1>5. ASSUME NEW i \in DOMAIN batch PROVE k \notin batch[i].keys
  <2>1. ~PerKey(batch[i], k)
    BY <1>1, <1>2, <1>3 DEF CacheOf, SeqsOrdered, TypeOK, HasEntry
  <2>2. ASSUME batch[i].op = "delprefix" PROVE k \notin batch[i].keys
    <3> DEFINE t == [keys |-> batch[i].keys, seq |-> batch[i].seq]
    <3>1. t \in flushingTombstones
      BY <1>2, <2>2 DEF CacheOf
    <3>2. t.keys = batch[i].keys
      OBVIOUS
    <3> HIDE DEF t
    <3> QED BY <1>1, <3>1, <3>2
  <2> QED BY <2>1, <2>2 DEF PerKey
<1>6. \A o \in Unflushed : k \notin o.keys
  BY <1>4, <1>5 DEF Unflushed
<1>7. sqlite[k] = kv[k]
  BY <1>6 DEF IInv, UnflushedCurrent
<1>8. fpc # "idle" => tx[k] = kv[k]
  BY <1>4, <1>5 DEF IInv, BatchProgress
<1> QED BY <1>6, <1>7, <1>8 DEF Coming

\* Every step of a live store leaves SQLite with a value the key had since, or
\* has now.
LEMMA ComingStep ==
    ASSUME IInv, Next, crashes' = crashes, seed # "replay", NEW k \in Keys,
           NEW had, NEW next, had \subseteq next, kv'[k] \in next, Coming(k, had)
    PROVE  /\ seed' # "replay"
           /\ sqlite'[k] \in next /\ (fpc' # "idle" => tx'[k] \in next)
           /\ \A o \in Unflushed' : k \in o.keys => o.val \in next
<1> DEFINE Kept == /\ seed' # "replay"
                   /\ sqlite'[k] \in next /\ (fpc' # "idle" => tx'[k] \in next)
                   /\ \A o \in Unflushed' : k \in o.keys => o.val \in next
<1>0. /\ pendingOps \in Seq(SeqOp) /\ batch \in Seq(SeqOp) /\ txPos \in 0..Len(batch)
      /\ crashes \in Nat
      /\ \A i \in DOMAIN pendingOps : k \in pendingOps[i].keys => pendingOps[i].val \in next
      /\ \A i \in DOMAIN batch : k \in batch[i].keys => batch[i].val \in next
      /\ sqlite[k] \in next /\ (fpc # "idle" => tx[k] \in next)
  BY DEF IInv, TypeOK, Coming, Unflushed
<1>1. ASSUME seed' # "replay", UNCHANGED <<sqlite, pendingOps, batch, fpc, tx>>
      PROVE  Kept
  BY <1>0, <1>1 DEF Unflushed
<1>2. ASSUME NEW w \in Writers, NEW o \in Ops, Write(w, o) PROVE Kept
  <2> DEFINE new == PendingOp(o, nextSeq + 1)
  <2>1. /\ seed' = seed /\ sqlite' = sqlite /\ batch' = batch /\ fpc' = fpc /\ tx' = tx
        /\ pendingOps' = Append(pendingOps, new) /\ kv' = Apply(kv, o)
    BY <1>2 DEF Write, ApplyOverlay, flushVars
  <2>2. new.keys = o.keys /\ new.val = o.val
    BY DEF PendingOp
  <2>3. k \in new.keys => new.val \in next
    BY <2>1, <2>2 DEF Apply
  <2> HIDE DEF new
  <2>4. \A i \in DOMAIN pendingOps' : \/ i \in DOMAIN pendingOps /\ pendingOps'[i] = pendingOps[i]
                                      \/ pendingOps'[i] = new
    BY <1>0, <2>1
  <2> QED BY <1>0, <2>1, <2>3, <2>4 DEF Unflushed
<1>3. ASSUME FlushSteal PROVE Kept
  BY <1>0, <1>3 DEF FlushSteal, Unflushed, diskVars
<1>4. ASSUME FlushExec PROVE Kept
  <2>1. /\ tx' = Apply(tx, batch[txPos + 1]) /\ txPos + 1 \in DOMAIN batch /\ fpc # "idle"
        /\ UNCHANGED <<seed, sqlite, pendingOps, batch, fpc>>
    BY <1>0, <1>4 DEF FlushExec, diskVars, overlayVars
  <2>2. tx'[k] \in next
    BY <1>0, <2>1 DEF Apply
  <2> QED BY <1>0, <2>1, <2>2 DEF Unflushed
<1>5. ASSUME FlushCommit PROVE Kept
  BY <1>0, <1>5 DEF FlushCommit, Unflushed, overlayVars
<1>6. ASSUME FlushCompact PROVE Kept
  BY <1>0, <1>6 DEF FlushCompact, Unflushed, overlayVars
<1>7. ASSUME FlushEnd PROVE Kept
  BY <1>0, <1>7 DEF FlushEnd, ResetBatch, Unflushed, diskVars, overlayVars
<1>8. ASSUME FlushChunkFail \/ FlushCompactFail PROVE Kept
  <2>1. /\ pendingOps' = batch \o pendingOps /\ batch' = <<>> /\ fpc' = "idle"
        /\ seed' = seed /\ sqlite' = sqlite
    BY <1>8 DEF FlushChunkFail, FlushCompactFail, FlushRestore, RestoredOps, ResetBatch
  <2>2. \A i \in DOMAIN pendingOps' : \/ \E j \in DOMAIN batch : pendingOps'[i] = batch[j]
                                      \/ \E j \in DOMAIN pendingOps : pendingOps'[i] = pendingOps[j]
    BY <1>0, <2>1
  <2> QED BY <1>0, <2>1, <2>2 DEF Unflushed
<1>9. ~Crash /\ ~ReplayEntry /\ ~OpenLog
  BY <1>0 DEF Crash, Restart, ReplayEntry, OpenLog
<1> HIDE DEF Kept
<1>10. ASSUME SeedReady \/ SeedStart \/ SeedStoreRow \/ SeedLoaded \/ SeedDegrade PROVE Kept
  <2>1. CASE SeedReady
    BY <1>1, <2>1 DEF SeedReady, diskVars, overlayVars, flushVars
  <2>2. CASE SeedStart
    BY <1>1, <2>2 DEF SeedStart, diskVars, overlayVars, flushVars
  <2>3. CASE SeedStoreRow
    BY <1>1, <2>3 DEF SeedStoreRow, diskVars, overlayVars, flushVars
  <2>4. CASE SeedLoaded
    BY <1>1, <2>4 DEF SeedLoaded, diskVars, overlayVars, flushVars
  <2>5. CASE SeedDegrade
    BY <1>1, <2>5 DEF SeedDegrade, diskVars, overlayVars, flushVars
  <2> QED BY <1>10, <2>1, <2>2, <2>3, <2>4, <2>5
<1>11. ASSUME NEW x \in Hot, SeedCheckRow(x) PROVE Kept
  BY <1>1, <1>11 DEF SeedCheckRow, diskVars, overlayVars, flushVars
<1>12. ASSUME NEW w \in Writers, WriteMem(w) PROVE Kept
  BY <1>1, <1>12 DEF WriteMem, diskVars, overlayVars, flushVars
<1>13. ASSUME CloseBegin \/ CloseFlushEmpty \/ CloseFile PROVE Kept
  <2>1. CASE CloseBegin
    BY <1>1, <2>1 DEF CloseBegin, diskVars, overlayVars, flushVars
  <2>2. CASE CloseFlushEmpty
    BY <1>1, <2>2 DEF CloseFlushEmpty, diskVars, overlayVars, flushVars
  <2>3. CASE CloseFile
    BY <1>1, <2>3 DEF CloseFile, diskVars, overlayVars, flushVars
  <2> QED BY <1>13, <2>1, <2>2, <2>3
<1>14. Kept
  BY <1>2, <1>3, <1>4, <1>5, <1>6, <1>7, <1>8, <1>9, <1>10, <1>11, <1>12, <1>13 DEF Next
<1> QED BY <1>14 DEF Kept

\* The first half of a read.
LEMMA ReadsSnapshot ==
    ASSUME IInv, ReadInv, NEW r \in Readers, ReadSnapshot(r)
    PROVE  ReadInv'
<1>1. /\ snap' = [snap EXCEPT ![r] = SnapshotOverlay]
      /\ window' = [window EXCEPT ![r] = {kv}]
      /\ result' = result /\ seed # "replay" /\ seed' = seed
      /\ UNCHANGED <<sqlite, pendingOps, batch, fpc, tx>>
  BY DEF ReadSnapshot, vars, diskVars, overlayVars, flushVars, sqliteReadyNow
<1>2. ReadersKnown'
  BY <1>1 DEF ReadInv, ReadersKnown
<1>3. ASSUME NEW q \in Readers, snap'[q] # NoSnap, NEW k \in Keys
      PROVE  Bound(q, k)'
  <2>1. CASE q = r
    <3>1. snap'[q] = SnapshotOverlay /\ window'[q] = {kv}
      BY <1>1, <2>1 DEF ReadInv, ReadersKnown
    <3>2. snap'[q][k] = Resolve(k) /\ Had(q, k)' = {kv[k]}
      BY <3>1 DEF SnapshotOverlay, Had
    <3>3. CASE Resolve(k).found
      BY <1>1, <3>2, <3>3, CurrentOf DEF Bound
    <3>4. CASE ~Resolve(k).found
      <4>1. Coming(k, {kv[k]})
        BY <1>1, <3>4, UnfoundIsComing
      <4>2. Coming(k, Had(q, k))'
        BY <1>1, <3>2, <4>1 DEF Coming, Unflushed
      <4> QED BY <3>2, <3>4, <4>2 DEF Bound
    <3> QED BY <3>3, <3>4
  <2>2. CASE q # r
    <3>1. snap'[q] = snap[q] /\ window'[q] = window[q]
      BY <1>1, <2>2 DEF ReadInv, ReadersKnown
    <3>2. Bound(q, k)
      BY <1>3, <3>1 DEF ReadInv
    <3> QED BY <1>1, <3>1, <3>2 DEF Bound, Had, Coming, Unflushed
  <2> QED BY <2>1, <2>2
<1>4. ReadIsCurrentPerKey'
  BY <1>1 DEF ReadInv, ReadIsCurrentPerKey
<1> QED BY <1>1, <1>2, <1>3, <1>4 DEF ReadInv

\* The second half: the rows, under what the snapshot had to say.
LEMMA ReadsBase ==
    ASSUME IInv, ReadInv, NEW r \in Readers, ReadBase(r)
    PROVE  ReadInv'
<1> DEFINE merged == MergeOverlay(snap[r], sqlite)
<1>1. /\ snap[r] # NoSnap /\ snap' = [snap EXCEPT ![r] = NoSnap]
      /\ window' = [window EXCEPT ![r] = {}]
      /\ result' = [result EXCEPT ![r] = [val |-> merged, window |-> window[r]]]
      /\ seed' = seed /\ UNCHANGED <<sqlite, pendingOps, batch, fpc, tx>>
  BY DEF ReadBase, vars, diskVars, overlayVars, flushVars
<1>2. ReadersKnown'
  BY <1>1 DEF ReadInv, ReadersKnown
<1>3. ASSUME NEW q \in Readers, snap'[q] # NoSnap
      PROVE  seed' # "replay" /\ \A k \in Keys : Bound(q, k)'
  <2>1. q # r /\ snap'[q] = snap[q] /\ window'[q] = window[q]
    BY <1>1, <1>3 DEF ReadInv, ReadersKnown
  <2>2. seed # "replay" /\ \A k \in Keys : Bound(q, k)
    BY <1>3, <2>1 DEF ReadInv
  <2> QED BY <1>1, <2>1, <2>2 DEF Bound, Had, Coming, Unflushed
<1>4. ASSUME NEW k \in Keys PROVE merged[k] \in {m[k] : m \in window[r]}
  <2>1. Bound(r, k)
    BY <1>1 DEF ReadInv
  <2>2. merged[k] = IF snap[r][k].found THEN snap[r][k].val ELSE sqlite[k]
    BY DEF MergeOverlay
  <2> QED BY <2>1, <2>2 DEF Bound, Had, Coming
<1>5. ReadIsCurrentPerKey'
  <2> SUFFICES ASSUME NEW q \in Readers, NEW k \in Keys
               PROVE  result'[q].val[k] \in {m[k] : m \in result'[q].window}
    BY DEF ReadIsCurrentPerKey
  <2>1. CASE q = r
    <3>1. result'[q].val = merged /\ result'[q].window = window[r]
      BY <1>1, <2>1 DEF ReadInv, ReadersKnown
    <3> QED BY <1>4, <3>1
  <2>2. CASE q # r
    <3>1. result'[q] = result[q]
      BY <1>1, <2>2 DEF ReadInv, ReadersKnown
    <3> QED BY <3>1 DEF ReadInv, ReadIsCurrentPerKey
  <2> QED BY <2>1, <2>2
<1> QED BY <1>2, <1>3, <1>5 DEF ReadInv

\* A step of the store beside the readers.
LEMMA ReadsStore ==
    ASSUME IInv, ReadInv, StoreStep
    PROVE  ReadInv'
<1>1. /\ Next /\ result' = result
      /\ snap' = IF crashes' # crashes THEN [r \in Readers |-> NoSnap] ELSE snap
      /\ window' = [r \in Readers |->
                      IF snap'[r] = NoSnap THEN {} ELSE window[r] \cup {kv'}]
  BY DEF StoreStep
<1>2. ReadersKnown'
  BY <1>1 DEF ReadInv, ReadersKnown
<1>3. ASSUME NEW q \in Readers, snap'[q] # NoSnap
      PROVE  seed' # "replay" /\ \A k \in Keys : Bound(q, k)'
  <2>1. crashes' = crashes /\ snap' = snap /\ window'[q] = window[q] \cup {kv'}
    BY <1>1, <1>3
  <2>2. seed # "replay" /\ \A k \in Keys : Bound(q, k)
    BY <1>3, <2>1 DEF ReadInv
  <2>3. seed' # "replay"
    BY <1>1, <1>3, <2>1, <2>2 DEF Next, OpenLog, SeedReady, SeedStart, SeedStoreRow, SeedLoaded,
         SeedDegrade, SeedCheckRow, ReplayEntry, Write, WriteMem, FlushSteal, FlushExec,
         FlushCommit, FlushCompact, FlushEnd, FlushChunkFail, FlushCompactFail, FlushRestore,
         CloseBegin, CloseFlushEmpty, CloseFile, Crash, Restart, IInv, TypeOK
  <2>4. ASSUME NEW k \in Keys PROVE Bound(q, k)'
    <3> DEFINE next == {m[k] : m \in window'[q]}
    <3>1. Had(q, k) \subseteq next /\ kv'[k] \in next /\ Had(q, k)' = next
      BY <2>1 DEF Had
    <3> HIDE DEF next
    <3>2. CASE snap[q][k].found
      <4>1. snap[q][k].val \in Had(q, k)
        BY <2>2, <3>2 DEF Bound
      <4> QED BY <2>1, <3>1, <3>2, <4>1 DEF Bound
    <3>3. CASE ~snap[q][k].found
      <4>1. Coming(k, Had(q, k))
        BY <2>2, <3>3 DEF Bound
      <4>2. /\ sqlite'[k] \in next /\ (fpc' # "idle" => tx'[k] \in next)
            /\ \A o \in Unflushed' : k \in o.keys => o.val \in next
        BY <1>1, <2>1, <2>2, <3>1, <4>1, ComingStep
      <4>3. Coming(k, Had(q, k))'
        BY <3>1, <4>2 DEF Coming
      <4> QED BY <2>1, <3>3, <4>3 DEF Bound
    <3> QED BY <3>2, <3>3
  <2> QED BY <2>3, <2>4
<1>4. ReadIsCurrentPerKey'
  BY <1>1 DEF ReadInv, ReadIsCurrentPerKey
<1> QED BY <1>2, <1>3, <1>4 DEF ReadInv

\* The readers change nothing of the store, and die with it.
LEMMA ReadsStep == IInv /\ ReadInv /\ [ReadsNext]_allVars => IInv' /\ ReadInv'
<1> SUFFICES ASSUME IInv, ReadInv, [ReadsNext]_allVars PROVE IInv' /\ ReadInv'
  OBVIOUS
<1>1. [Next]_vars
  BY DEF ReadsNext, StoreStep, ReadSnapshot, ReadBase, allVars
<1>2. IInv'
  BY <1>1, InvStep
<1>3. CASE StoreStep
  BY <1>2, <1>3, ReadsStore
<1>4. ASSUME NEW r \in Readers, ReadSnapshot(r) PROVE ReadInv'
  BY <1>4, ReadsSnapshot
<1>5. ASSUME NEW r \in Readers, ReadBase(r) PROVE ReadInv'
  BY <1>5, ReadsBase
<1>6. CASE UNCHANGED allVars
  <2>1. /\ snap' = snap /\ window' = window /\ result' = result /\ seed' = seed
        /\ UNCHANGED <<sqlite, pendingOps, batch, fpc, tx>>
    BY <1>6 DEF allVars, readVars, vars, diskVars, overlayVars, flushVars
  <2>2. ReadersKnown' /\ ReadIsCurrentPerKey'
    BY <2>1 DEF ReadInv, ReadersKnown, ReadIsCurrentPerKey
  <2>3. ASSUME NEW r \in Readers, NEW k \in Keys, Bound(r, k)
        PROVE  Bound(r, k)'
    BY <2>1, <2>3 DEF Bound, Had, Coming, Unflushed
  <2>4. ReadInv'
    BY <2>1, <2>2, <2>3 DEF ReadInv
  <2> QED BY <1>2, <2>4
<1> QED BY <1>2, <1>3, <1>4, <1>5, <1>6 DEF ReadsNext

LEMMA ReadsStart == ReadsInit => IInv /\ ReadInv
<1> SUFFICES ASSUME ReadsInit PROVE IInv /\ ReadInv
  OBVIOUS
<1>1. IInv
  BY InvInit DEF ReadsInit
<1>2. /\ snap = [r \in Readers |-> NoSnap] /\ window = [r \in Readers |-> {}]
      /\ result = [r \in Readers |-> NoResult]
  BY DEF ReadsInit
<1>3. \A k \in Keys : NoResult.val[k] \in {m[k] : m \in NoResult.window}
  BY DEF NoResult
<1> QED BY <1>1, <1>2, <1>3 DEF ReadInv, ReadersKnown, ReadIsCurrentPerKey

\* A read that copies the overlay under the mutex and queries SQLite after it
\* returns, of every key, a value the key had in between, whatever writes, chunk
\* commits, failures, compactions and ends of flushes run between the halves.
THEOREM ReadsAreCurrent == ReadsSpec => []ReadIsCurrentPerKey
<1>1. ReadInv => ReadIsCurrentPerKey
  BY DEF ReadInv
<1> QED BY <1>1, ReadsStart, ReadsStep, PTL DEF ReadsSpec

=============================================================================

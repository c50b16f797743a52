--------------------------- MODULE WALStoreProofs ---------------------------
(* Proofs about WALStore: a restart brings back what readers saw, for every
   number of callers and keys, every sync mode and every log limit.           *)

EXTENDS WALStore, FiniteSetTheorems, WellFoundedInduction, TLAPS

-----------------------------------------------------------------------------
(* Operators. *)

\* Every mutation a caller can issue is a line of the log.
LEMMA OpsAreLines == Ops \subseteq Line
BY StoreOpsAssumption
   DEF Ops, SetOps, DeleteOps, DeletePrefixOps, Line, ValuesOrAbsent

\* A non-empty set of positions of a sequence has a last one.
LEMMA LastPosition ==
    ASSUME NEW n \in Nat, NEW S, S \subseteq 1..n, S # {}
    PROVE  \E j \in S : \A i \in S : i <= j
<1> DEFINE T == {n - j : j \in S}
           R == OpToRel(<, Nat)
<1>1. T \subseteq Nat /\ T # {}
  <2>1. \A j \in S : n - j \in Nat
    OBVIOUS
  <2>2. \E j \in S : n - j \in T
    OBVIOUS
  <2> QED BY <2>1, <2>2
<1>2. IsWellFoundedOn(R, Nat)
  BY NatLessThanWellFounded
<1>3. \E x \in T : \A y \in T : ~(<<y, x>> \in R)
  <2> HIDE DEF T, R
  <2> QED BY <1>1, <1>2, WFMin
<1>4. PICK x \in T : \A y \in T : ~(<<y, x>> \in R)
  BY <1>3
<1>5. ASSUME NEW y \in T PROVE x <= y
  <2>1. x \in Nat /\ y \in Nat
    BY <1>1
  <2>2. y < x => <<y, x>> \in R
    BY <2>1 DEF OpToRel
  <2>3. ~(y < x)
    <3> HIDE DEF R, T
    <3> QED BY <1>4, <2>2
  <2> QED BY <2>1, <2>3
<1>6. PICK j \in S : x = n - j
  OBVIOUS
<1>7. \A i \in S : n - j <= n - i
  BY <1>5, <1>6
<1> QED BY <1>7

\* Replay of a log computes a value for every key, and ReplaysTo describes it.
LEMMA ReplayCorrect ==
    ASSUME NEW l \in Seq(Line)
    PROVE  /\ Replay(l) \in Contents
           /\ \A k \in Keys : ReplaysTo(l, k, Replay(l)[k])
<1> SUFFICES ASSUME NEW k \in Keys
             PROVE  /\ Replay(l)[k] \in ValuesOrAbsent
                    /\ ReplaysTo(l, k, Replay(l)[k])
  BY DEF Replay, Contents
<1>1. CASE ReplayedBy(l, k) = {}
  BY <1>1 DEF Replay, ReplaysTo, ValuesOrAbsent
<1>2. CASE ReplayedBy(l, k) # {}
  <2> DEFINE S == ReplayedBy(l, k)
             j == CHOOSE j \in S : \A i \in S : i <= j
  <2>1. S \subseteq 1..Len(l) /\ Len(l) \in Nat
    BY DEF ReplayedBy
  <2>2. \E m \in S : \A i \in S : i <= m
    <3> HIDE DEF S
    <3> QED BY <1>2, <2>1, LastPosition DEF S
  <2>3. j \in S /\ \A i \in S : i <= j
    BY <2>2
  <2>4. Replay(l)[k] = l[j].val
    BY <1>2 DEF Replay
  <2>5. l[j] \in Line
    BY <2>1, <2>3
  <2>6. \A i \in S : (\A m \in S : m <= i) => i = j
    BY <2>1, <2>3
  <2> HIDE DEF j
  <2> QED BY <1>2, <2>3, <2>4, <2>5, <2>6 DEF ReplaysTo, Line
<1> QED BY <1>1, <1>2

\* A line appended to the log decides the keys it mentions and no others.
LEMMA ReplayAppend ==
    ASSUME NEW l \in Seq(Line), NEW e \in Line, NEW k \in Keys, NEW v
    PROVE  /\ k \in e.keys => ReplaysTo(Append(l, e), k, e.val)
           /\ k \notin e.keys /\ ReplaysTo(l, k, v) => ReplaysTo(Append(l, e), k, v)
<1> DEFINE m == Append(l, e)
<1>1. /\ DOMAIN m = 1..(Len(l) + 1) /\ DOMAIN l = 1..Len(l) /\ Len(l) \in Nat
      /\ m[Len(l) + 1] = e /\ \A i \in 1..Len(l) : m[i] = l[i]
  OBVIOUS
<1> HIDE DEF m
<1>2. k \in e.keys => ReplaysTo(m, k, e.val)
  BY <1>1 DEF ReplaysTo, ReplayedBy
<1>3. k \notin e.keys => ReplayedBy(m, k) = ReplayedBy(l, k)
  BY <1>1 DEF ReplayedBy
<1>4. \A j \in ReplayedBy(l, k) : m[j] = l[j]
  BY <1>1 DEF ReplayedBy
<1> QED BY <1>2, <1>3, <1>4 DEF ReplaysTo, m

\* A snapshot is a log, and replaying it gives memory back.
LEMMA SnapshotReplay ==
    ASSUME mem \in Contents, NEW s \in Snapshots
    PROVE  /\ s \in Seq(Line)
           /\ \A k \in Keys : ReplaysTo(s, k, mem[k])
<1> DEFINE E == SnapshotEntries
           P == {k \in Keys : mem[k] # Absent}
           c == Cardinality(E)
<1>1. E \subseteq Line
  BY DEF SnapshotEntries, Line, Contents
<1>2. c \in Nat
  <2>1. IsFiniteSet(P)
    BY WALAssumption, FS_Subset
  <2>2. E = {[op |-> "set", keys |-> {k}, val |-> mem[k]] : k \in P}
    BY DEF SnapshotEntries
  <2>3. IsFiniteSet({[op |-> "set", keys |-> {k}, val |-> mem[k]] : k \in P})
    <3> HIDE DEF P
    <3> DEFINE g == [k \in P |-> [op |-> "set", keys |-> {k}, val |-> mem[k]]]
    <3>1. g \in Surjection(P, {g[k] : k \in P})
      BY DEF Surjection
    <3>2. IsFiniteSet({g[k] : k \in P})
      <4> HIDE DEF g
      <4> QED BY <2>1, <3>1, FS_Surjection
    <3> QED BY <3>2
  <2> QED BY <2>2, <2>3, FS_CardinalityType
<1>3. s \in [1..c -> E] /\ \A e \in E : \E i \in DOMAIN s : s[i] = e
  BY DEF Snapshots
<1>4. s \in Seq(Line)
  <2> HIDE DEF E, c
  <2> QED BY <1>1, <1>2, <1>3
<1>5. ASSUME NEW k \in Keys PROVE ReplaysTo(s, k, mem[k])
  <2>1. ASSUME NEW i \in ReplayedBy(s, k) PROVE s[i].val = mem[k]
    <3>1. s[i] \in E /\ k \in s[i].keys
      BY <1>3 DEF ReplayedBy
    <3>2. PICK q \in Keys : s[i] = [op |-> "set", keys |-> {q}, val |-> mem[q]]
      BY <3>1 DEF SnapshotEntries
    <3> QED BY <3>1, <3>2
  <2>2. ASSUME mem[k] # Absent PROVE ReplayedBy(s, k) # {}
    <3>1. [op |-> "set", keys |-> {k}, val |-> mem[k]] \in E
      BY <2>2 DEF SnapshotEntries
    <3>2. PICK i \in DOMAIN s : s[i] = [op |-> "set", keys |-> {k}, val |-> mem[k]]
      BY <1>3, <3>1
    <3> QED BY <3>2 DEF ReplayedBy
  <2> QED BY <2>1, <2>2 DEF ReplaysTo
<1> QED BY <1>4, <1>5

\* A mutation of memory is a mutation of a map.
LEMMA ApplyMem ==
    ASSUME mem \in Contents, NEW o \in Ops
    PROVE  Apply(mem, o) \in Contents
BY OpsAreLines DEF Apply, Contents, Line

-----------------------------------------------------------------------------
(* The inductive invariant. *)

\* A first process on an empty directory satisfies the invariant.
LEMMA InvInit == Init => WALInv
<1> SUFFICES ASSUME Init PROVE WALInv
  OBVIOUS
<1>0. log = <<>> /\ log \in Seq(Line) /\ Len(log) = 0 /\ DOMAIN log = {}
  BY DEF Init
<1>1. mem \in Contents
  BY DEF Init, Contents, Empty, ValuesOrAbsent
<1>2. /\ pc \in [Writers -> {"idle", "append", "compact"}]
      /\ inflight \in [Writers -> Line \cup {Idle}]
      /\ \A w \in Writers : pc[w] = "append" <=> inflight[w] # Idle
  BY DEF Init
<1>3. TypeOK
  <2>1. synced \in 0..Len(log)
    BY <1>0 DEF Init
  <2>2. openLen \in Nat /\ diverged \in SUBSET Keys
        /\ writes \in Nat /\ crashes \in Nat /\ fails \in Nat
    BY DEF Init
  <2>3. /\ syncMode \in SyncModes /\ dirty = FALSE /\ closeDirty = FALSE
        /\ f = "open" /\ life = "open"
    BY DEF Init
  <2>4. dirty \in BOOLEAN /\ closeDirty \in BOOLEAN
    BY <2>3
  <2>5. /\ f \in {"open", "closed"}
        /\ life \in {"open", "closing", "closed", "closefailed"}
    BY <2>3
  <2> QED BY <1>0, <1>1, <1>2, <2>1, <2>2, <2>3, <2>4, <2>5 DEF TypeOK
<1>4. RecoversMemory
  <2> SUFFICES ASSUME NEW k \in Keys PROVE ReplaysTo(log, k, mem[k])
    BY DEF RecoversMemory
  <2>1. ReplayedBy(log, k) = {}
    BY <1>0 DEF ReplayedBy
  <2> QED BY <2>1 DEF Init, ReplaysTo, Empty
<1>5. InFlightIsVisible
  BY DEF Init, InFlightIsVisible, Idle
<1> QED BY <1>3, <1>4, <1>5 DEF Init, WALInv, CleanLogIsSynced

\* The memory half of a mutation: the key is now in flight.
LEMMA InvWriteMem ==
    ASSUME WALInv, NEW w \in Writers, NEW o \in Ops, WriteMem(w, o)
    PROVE  WALInv'
<1> USE DEF WriteMem
<1>0. TypeOK /\ RecoversMemory /\ InFlightIsVisible
  BY DEF WALInv
<1>1. o \in Line /\ o # Idle
  BY OpsAreLines DEF Line, Idle
<1>2. inflight' = [inflight EXCEPT ![w] = o] /\ inflight'[w] = o
      /\ \A u \in Writers : u # w => inflight'[u] = inflight[u]
  BY <1>0 DEF TypeOK
<1>3. inflight[w] = Idle
  BY <1>0 DEF TypeOK
<1>4. mem' \in Contents
  BY <1>0, ApplyMem DEF TypeOK
<1>5. TypeOK'
  <2>1. /\ pc' \in [Writers -> {"idle", "append", "compact"}]
        /\ inflight' \in [Writers -> Line \cup {Idle}]
        /\ \A u \in Writers : pc'[u] = "append" <=> inflight'[u] # Idle
    BY <1>0, <1>1, <1>2 DEF TypeOK
  <2>2. diverged' \in SUBSET Keys
    BY <1>0, <1>1 DEF TypeOK, Line
  <2> QED BY <1>0, <1>4, <2>1, <2>2 DEF TypeOK, diskVars, closeVars
<1>6. RecoversMemory'
  <2> SUFFICES ASSUME NEW k \in Keys, k \notin diverged', ~InFlight(k)'
               PROVE  ReplaysTo(log', k, mem'[k])
    BY DEF RecoversMemory, ReplaysTo, ReplayedBy
  <2>1. k \notin o.keys
    BY <1>2 DEF InFlight
  <2>2. k \notin diverged /\ ~InFlight(k)
    BY <1>2, <1>3, <2>1 DEF InFlight, Idle
  <2>3. mem'[k] = mem[k] /\ log' = log
    BY <2>1 DEF Apply, diskVars
  <2> QED BY <1>0, <2>2, <2>3 DEF RecoversMemory
<1>7. InFlightIsVisible'
  <2> SUFFICES ASSUME NEW u \in Writers, NEW k \in inflight'[u].keys, k \notin diverged'
               PROVE  /\ mem'[k] = inflight'[u].val
                      /\ \A v \in Writers : k \in inflight'[v].keys => v = u
    BY DEF InFlightIsVisible
  <2>0. k \in Keys
    BY <1>5 DEF TypeOK, Line, Idle
  <2>1. CASE k \in o.keys
    <3>1. ~InFlight(k)
      BY <2>1
    <3>2. u = w /\ \A v \in Writers : k \in inflight'[v].keys => v = w
      BY <1>2, <3>1 DEF InFlight
    <3> QED BY <1>2, <2>0, <2>1, <3>2 DEF Apply
  <2>2. CASE k \notin o.keys
    <3>1. k \notin diverged /\ u # w
      BY <1>2, <2>2
    <3> QED BY <1>0, <1>2, <2>0, <2>2, <3>1 DEF Apply, InFlightIsVisible
  <2> QED BY <2>1, <2>2
<1> QED BY <1>5, <1>6, <1>7
        DEF WALInv, CleanLogIsSynced, diskVars, closeVars

\* A caller that lets go of its op leaves the others as they are.
LEMMA ReleaseType ==
    ASSUME TypeOK, NEW w \in Writers, NEW s \in {"idle", "compact"},
           pc' = [pc EXCEPT ![w] = s], inflight' = [inflight EXCEPT ![w] = Idle]
    PROVE  /\ pc' \in [Writers -> {"idle", "append", "compact"}]
           /\ inflight' \in [Writers -> Line \cup {Idle}]
           /\ \A u \in Writers : pc'[u] = "append" <=> inflight'[u] # Idle
           /\ inflight'[w] = Idle
           /\ \A u \in Writers : u # w => inflight'[u] = inflight[u]
BY DEF TypeOK

\* The log half: the entry decides its keys, and they are no longer in flight.
LEMMA InvAppend ==
    ASSUME WALInv, NEW w \in Writers, AppendEntry(w) \/ AppendSyncFail(w)
    PROVE  WALInv'
<1> DEFINE o == inflight[w]
<1>0. TypeOK /\ RecoversMemory /\ InFlightIsVisible
  BY DEF WALInv
<1>1. /\ pc[w] = "append" /\ life = "open" /\ f = "open"
      /\ log' = Append(log, o)
      /\ \E s \in {"idle", "compact"} : pc' = [pc EXCEPT ![w] = s]
      /\ inflight' = [inflight EXCEPT ![w] = Idle]
      /\ UNCHANGED <<syncMode, mem, f, closeVars, openLen, diverged, writes, crashes>>
  BY <1>0 DEF AppendEntry, AppendSyncFail, Return
<1>2. /\ pc' \in [Writers -> {"idle", "append", "compact"}]
      /\ inflight' \in [Writers -> Line \cup {Idle}]
      /\ \A u \in Writers : pc'[u] = "append" <=> inflight'[u] # Idle
      /\ inflight'[w] = Idle
      /\ \A u \in Writers : u # w => inflight'[u] = inflight[u]
  BY <1>0, <1>1, ReleaseType
<1>3. o \in Line
  BY <1>0, <1>1 DEF TypeOK
<1>4. log' \in Seq(Line) /\ Len(log') = Len(log) + 1 /\ Len(log) \in Nat
  BY <1>0, <1>1, <1>3 DEF TypeOK
<1>5. /\ synced' \in 0..Len(log') /\ dirty' \in BOOLEAN /\ fails' \in Nat
      /\ ~dirty' => synced' = Len(log')
  <2>1. CASE AppendEntry(w)
    <3>1. dirty' = (syncMode # "always") /\ UNCHANGED fails
      BY <2>1 DEF AppendEntry, DirtyAfterAppend
    <3>2. synced' = IF syncMode = "always" THEN Len(log') ELSE synced
      BY <2>1 DEF AppendEntry
    <3>3. dirty' \in BOOLEAN /\ (~dirty' => syncMode = "always")
      BY <3>1, Zenon
    <3>4. synced' \in 0..Len(log') /\ fails' \in Nat
      BY <1>0, <1>4, <3>1, <3>2 DEF TypeOK
    <3> QED BY <3>2, <3>3, <3>4
  <2>2. CASE AppendSyncFail(w)
    <3>1. dirty' = TRUE
      BY <2>2, Zenon DEF AppendSyncFail, DirtyAfterSync
    <3>2. fails' = fails + 1 /\ UNCHANGED synced
      BY <2>2 DEF AppendSyncFail
    <3> QED BY <1>0, <1>4, <3>1, <3>2 DEF TypeOK
  <2> QED BY <2>1, <2>2
<1>6. TypeOK'
  BY <1>0, <1>1, <1>2, <1>4, <1>5 DEF TypeOK, closeVars
<1>7. RecoversMemory'
  <2> SUFFICES ASSUME NEW k \in Keys, k \notin diverged', ~InFlight(k)'
               PROVE  ReplaysTo(log', k, mem'[k])
    BY DEF RecoversMemory, ReplaysTo, ReplayedBy
  <2>1. CASE k \in o.keys
    <3>1. mem'[k] = o.val
      BY <1>0, <1>1, <2>1 DEF InFlightIsVisible
    <3> QED BY <1>0, <1>1, <1>3, <2>1, <3>1, ReplayAppend DEF TypeOK
  <2>2. CASE k \notin o.keys
    <3>1. ~InFlight(k)
      BY <1>2, <2>2 DEF InFlight
    <3>2. ReplaysTo(log, k, mem[k])
      BY <1>0, <1>1, <3>1 DEF RecoversMemory
    <3> QED BY <1>0, <1>1, <1>3, <2>2, <3>2, ReplayAppend DEF TypeOK
  <2> QED BY <2>1, <2>2
<1>8. InFlightIsVisible'
  BY <1>0, <1>1, <1>2 DEF InFlightIsVisible, Idle
<1>9. CleanLogIsSynced'
  BY <1>1, <1>5 DEF CleanLogIsSynced, closeVars
<1> QED BY <1>1, <1>6, <1>7, <1>8, <1>9 DEF WALInv, closeVars

\* An append that returns an error leaves the log, and its keys are diverged.
LEMMA InvRefused ==
    ASSUME WALInv, NEW w \in Writers, AppendRefused(w) \/ AppendFail(w)
    PROVE  WALInv'
<1>0. TypeOK /\ RecoversMemory /\ InFlightIsVisible
  BY DEF WALInv
<1>1. /\ Return(w) /\ diverged' = diverged \cup inflight[w].keys
      /\ UNCHANGED <<diskVars, syncMode, mem, f, dirty, closeVars, openLen, writes, crashes>>
      /\ fails' \in Nat
  BY <1>0 DEF AppendRefused, AppendFail, TypeOK
<1>2. /\ pc' \in [Writers -> {"idle", "append", "compact"}]
      /\ inflight' \in [Writers -> Line \cup {Idle}]
      /\ \A u \in Writers : pc'[u] = "append" <=> inflight'[u] # Idle
      /\ inflight'[w] = Idle
      /\ \A u \in Writers : u # w => inflight'[u] = inflight[u]
  BY <1>0, <1>1, ReleaseType DEF Return
<1>3. diverged' \in SUBSET Keys
  BY <1>0, <1>1 DEF TypeOK, Line, Idle
<1>4. TypeOK'
  BY <1>0, <1>1, <1>2, <1>3 DEF TypeOK, diskVars, closeVars
<1>5. RecoversMemory'
  <2> SUFFICES ASSUME NEW k \in Keys, k \notin diverged', ~InFlight(k)'
               PROVE  ReplaysTo(log', k, mem'[k])
    BY DEF RecoversMemory, ReplaysTo, ReplayedBy
  <2>1. k \notin diverged /\ ~InFlight(k)
    BY <1>1, <1>2 DEF InFlight
  <2> QED BY <1>0, <1>1, <2>1 DEF RecoversMemory, diskVars
<1>6. InFlightIsVisible'
  BY <1>0, <1>1, <1>2 DEF InFlightIsVisible, Idle
<1> QED BY <1>1, <1>4, <1>5, <1>6
        DEF WALInv, CleanLogIsSynced, diskVars, closeVars

\* The snapshot that replaces the log holds what callers in flight have put in
\* memory; only their keys stay diverged.
LEMMA InvCompact ==
    ASSUME WALInv, NEW w \in Writers, Compact(w) \/ CompactReopenFail(w)
    PROVE  WALInv'
<1>0. TypeOK /\ RecoversMemory /\ InFlightIsVisible
  BY DEF WALInv
<1>1. /\ pc[w] = "compact" /\ life = "open"
      /\ Compacted /\ Return(w)
      /\ UNCHANGED <<syncMode, mem, closeVars, openLen, writes, crashes>>
  BY DEF Compact, CompactReopenFail
<1>2. /\ pc' \in [Writers -> {"idle", "append", "compact"}]
      /\ inflight' \in [Writers -> Line \cup {Idle}]
      /\ \A u \in Writers : pc'[u] = "append" <=> inflight'[u] # Idle
      /\ inflight'[w] = Idle
      /\ \A u \in Writers : u # w => inflight'[u] = inflight[u]
  BY <1>0, <1>1, ReleaseType DEF Return
<1>3. \A u \in Writers : inflight'[u] = inflight[u]
  BY <1>0, <1>1, <1>2 DEF TypeOK
<1>4. log' \in Seq(Line) /\ \A k \in Keys : ReplaysTo(log', k, mem[k])
  BY <1>0, <1>1, SnapshotReplay DEF TypeOK, Compacted
<1>5. synced' = Len(log') /\ Len(log') \in Nat
  BY <1>1, <1>4 DEF Compacted
<1>6. f' \in {"open", "closed"} /\ dirty' \in BOOLEAN /\ fails' \in Nat
  <2>1. CASE Compact(w)
    BY <1>0, <2>1 DEF Compact, TypeOK
  <2>2. CASE CompactReopenFail(w)
    BY <1>0, <2>2 DEF CompactReopenFail, TypeOK
  <2> QED BY <2>1, <2>2
<1>7. diverged' \in SUBSET Keys /\ diverged' = {k \in diverged : InFlight(k)}
  BY <1>0, <1>1 DEF TypeOK, Compacted
<1>8. TypeOK'
  <2>1. synced' \in 0..Len(log')
    BY <1>5
  <2> QED BY <1>0, <1>1, <1>2, <1>4, <1>6, <1>7, <2>1 DEF TypeOK, closeVars
<1>9. RecoversMemory'
  BY <1>1, <1>4 DEF RecoversMemory, ReplaysTo, ReplayedBy
<1>10. InFlightIsVisible'
  <2> SUFFICES ASSUME NEW u \in Writers, NEW k \in inflight'[u].keys, k \notin diverged'
               PROVE  /\ mem'[k] = inflight'[u].val
                      /\ \A v \in Writers : k \in inflight'[v].keys => v = u
    BY DEF InFlightIsVisible
  <2>1. k \notin diverged
    BY <1>3, <1>7 DEF InFlight
  <2> QED BY <1>0, <1>1, <1>3, <2>1 DEF InFlightIsVisible
<1>11. CleanLogIsSynced'
  BY <1>5 DEF CleanLogIsSynced
<1> QED BY <1>1, <1>5, <1>8, <1>9, <1>10, <1>11 DEF WALInv, closeVars

\* The steps that change neither memory nor the log nor an op in flight.
LEMMA InvFrame ==
    ASSUME WALInv, TypeOK', CleanLogIsSynced', life' = "closing" => closeDirty' = dirty',
           \A w \in Writers : inflight'[w] = inflight[w],
           UNCHANGED <<log, mem, diverged>>
    PROVE  WALInv'
<1>1. RecoversMemory'
  BY DEF WALInv, RecoversMemory, InFlight, ReplaysTo, ReplayedBy
<1>2. InFlightIsVisible'
  BY DEF WALInv, InFlightIsVisible
<1> QED BY <1>1, <1>2 DEF WALInv

\* A caller that leaves maybeCompact without a new log.
LEMMA InvNoCompact ==
    ASSUME WALInv, NEW w \in Writers,
           CompactSkip(w) \/ CompactFail(w) \/ CompactNoHandle(w)
    PROVE  WALInv'
<1>0. TypeOK /\ CleanLogIsSynced
  BY DEF WALInv
<1>1. /\ pc[w] = "compact" /\ Return(w)
      /\ UNCHANGED <<diskVars, syncMode, mem, dirty, closeVars, openLen, diverged, writes, crashes>>
  BY DEF CompactSkip, CompactFail, CompactNoHandle
<1>2. f' \in {f, "closed"} /\ fails' \in Nat
  BY <1>0 DEF CompactSkip, CompactFail, CompactNoHandle, TypeOK
<1>3. /\ pc' \in [Writers -> {"idle", "append", "compact"}]
      /\ inflight' \in [Writers -> Line \cup {Idle}]
      /\ \A u \in Writers : pc'[u] = "append" <=> inflight'[u] # Idle
      /\ inflight'[w] = Idle
      /\ \A u \in Writers : u # w => inflight'[u] = inflight[u]
  BY <1>0, <1>1, ReleaseType DEF Return
<1>4. \A u \in Writers : inflight'[u] = inflight[u]
  BY <1>0, <1>1, <1>3 DEF TypeOK
<1>5. TypeOK'
  BY <1>0, <1>1, <1>2, <1>3 DEF TypeOK, diskVars, closeVars
<1>6. CleanLogIsSynced'
  BY <1>0, <1>1, <1>2 DEF CleanLogIsSynced, diskVars, closeVars
<1> QED BY <1>1, <1>4, <1>5, <1>6, InvFrame DEF WALInv, diskVars, closeVars

\* The sync goroutine and Close.
LEMMA InvSyncClose ==
    ASSUME WALInv, (\E ok \in BOOLEAN : SyncTick(ok)) \/ CloseBegin \/ CloseEnd \/ CloseFail
    PROVE  WALInv'
<1>0. TypeOK /\ CleanLogIsSynced /\ (life = "closing" => closeDirty = dirty)
  BY DEF WALInv
<1>1. ASSUME NEW ok \in BOOLEAN, SyncTick(ok) PROVE WALInv'
  <2>1. TypeOK'
    BY <1>0, <1>1 DEF SyncTick, DirtyAfterSync, TypeOK, closeVars
  <2>2. CleanLogIsSynced'
    BY <1>0, <1>1 DEF SyncTick, DirtyAfterSync, CleanLogIsSynced, closeVars, TypeOK
  <2> QED BY <1>1, <2>1, <2>2, InvFrame DEF SyncTick, closeVars
<1>2. ASSUME CloseBegin PROVE WALInv'
  <2>1. TypeOK'
    BY <1>0, <1>2 DEF CloseBegin, TypeOK, diskVars
  <2>2. CleanLogIsSynced'
    BY <1>0, <1>2 DEF CloseBegin, CleanLogIsSynced, diskVars
  <2> QED BY <1>2, <2>1, <2>2, InvFrame DEF CloseBegin, diskVars
<1>3. ASSUME CloseEnd PROVE WALInv'
  <2>1. TypeOK'
    BY <1>0, <1>3 DEF CloseEnd, TypeOK
  <2>2. CleanLogIsSynced'
    BY <1>0, <1>3 DEF CloseEnd, CleanLogIsSynced
  <2> QED BY <1>3, <2>1, <2>2, InvFrame DEF CloseEnd
<1>4. ASSUME CloseFail PROVE WALInv'
  <2>1. TypeOK'
    BY <1>0, <1>4 DEF CloseFail, TypeOK, diskVars
  <2>2. CleanLogIsSynced'
    BY <1>0, <1>4 DEF CloseFail, CleanLogIsSynced, diskVars
  <2> QED BY <1>4, <2>1, <2>2, InvFrame DEF CloseFail, diskVars
<1> QED BY <1>1, <1>2, <1>3, <1>4

\* A restart, on all of the log or on what a power loss left of it.
LEMMA InvRestart == ASSUME WALInv, Crash \/ PowerLoss PROVE WALInv'
<1>0. TypeOK
  BY DEF WALInv
<1>1. Restart /\ log' \in Seq(Line) /\ synced' \in 0..Len(log')
  <2>1. CASE Crash
    BY <1>0, <2>1 DEF Crash, TypeOK, diskVars
  <2>2. CASE PowerLoss
    <3>1. PICK n \in synced..Len(log) : log' = SubSeq(log, 1, n) /\ synced' = n
      BY <2>2 DEF PowerLoss
    <3>2. n \in Nat /\ n <= Len(log)
      BY <1>0, <3>1 DEF TypeOK
    <3>3. log' \in Seq(Line) /\ Len(log') = n
      BY <1>0, <3>1, <3>2 DEF TypeOK
    <3> QED BY <2>2, <3>1, <3>2, <3>3 DEF PowerLoss
  <2> QED BY <2>1, <2>2
<1>2. mem' \in Contents /\ \A k \in Keys : ReplaysTo(log', k, mem'[k])
  BY <1>1, ReplayCorrect DEF Restart
<1>3. TypeOK'
  <2>1. /\ pc' \in [Writers -> {"idle", "append", "compact"}]
        /\ inflight' \in [Writers -> Line \cup {Idle}]
        /\ \A u \in Writers : pc'[u] = "append" <=> inflight'[u] # Idle
    BY <1>1 DEF Restart
  <2>2. Len(log') \in Nat
    BY <1>1
  <2>3. /\ openLen' = Len(log') /\ diverged' = {} /\ crashes' = crashes + 1
        /\ f' = "open" /\ life' = "open" /\ syncMode' \in SyncModes
        /\ UNCHANGED <<writes, fails>>
    BY <1>1 DEF Restart
  <2>4. dirty' \in BOOLEAN /\ closeDirty' \in BOOLEAN
    BY <1>1, Zenon DEF Restart
  <2> QED BY <1>0, <1>1, <1>2, <2>1, <2>2, <2>3, <2>4 DEF TypeOK
<1>4. RecoversMemory'
  BY <1>2 DEF RecoversMemory, ReplaysTo, ReplayedBy
<1>5. InFlightIsVisible'
  BY <1>1 DEF Restart, InFlightIsVisible, Idle
<1>6. CleanLogIsSynced'
  BY <1>1 DEF Restart, CleanLogIsSynced
<1> QED BY <1>1, <1>3, <1>4, <1>5, <1>6 DEF WALInv, Restart

\* Every step keeps the invariant.
LEMMA InvStep == WALInv /\ [Next]_vars => WALInv'
<1> SUFFICES ASSUME WALInv, [Next]_vars PROVE WALInv'
  OBVIOUS
<1>1. CASE \E w \in Writers, o \in Ops : WriteMem(w, o)
  BY <1>1, InvWriteMem
<1>2. CASE \E w \in Writers : AppendEntry(w) \/ AppendSyncFail(w)
  BY <1>2, InvAppend
<1>3. CASE \E w \in Writers : AppendRefused(w) \/ AppendFail(w)
  BY <1>3, InvRefused
<1>4. CASE \E w \in Writers : Compact(w) \/ CompactReopenFail(w)
  BY <1>4, InvCompact
<1>5. CASE \E w \in Writers : CompactSkip(w) \/ CompactFail(w) \/ CompactNoHandle(w)
  BY <1>5, InvNoCompact
<1>6. CASE (\E ok \in BOOLEAN : SyncTick(ok)) \/ CloseBegin \/ CloseEnd \/ CloseFail
  BY <1>6, InvSyncClose
<1>7. CASE Crash \/ PowerLoss
  BY <1>7, InvRestart
<1>8. CASE UNCHANGED vars
  <2>1. TypeOK' /\ CleanLogIsSynced'
    BY <1>8 DEF WALInv, TypeOK, CleanLogIsSynced, vars, diskVars, closeVars
  <2> QED BY <1>8, <2>1, InvFrame DEF WALInv, vars, diskVars, closeVars
<1> QED BY <1>1, <1>2, <1>3, <1>4, <1>5, <1>6, <1>7, <1>8 DEF Next

-----------------------------------------------------------------------------
(* Theorems. *)

\* The inductive invariant holds in every instance of the store.
THEOREM InvariantHolds == Spec => []WALInv
BY InvInit, InvStep, PTL DEF Spec

\* A restart brings back what readers saw, for every key that was not written
\* by two callers at once or by an append that failed since the last
\* compaction: no compaction, failed compaction or failed sync loses anything.
THEOREM Recovery == Spec => []RecoversMemory
<1>1. WALInv => RecoversMemory
  BY DEF WALInv
<1> QED BY <1>1, InvariantHolds, PTL

\* The dirty flag never hides an unsynced append of this process from the sync
\* loop or from Close, and a Close without error has synced them all.
THEOREM CleanLog == Spec => []CleanLogIsSynced
<1>1. WALInv => CleanLogIsSynced
  BY DEF WALInv
<1> QED BY <1>1, InvariantHolds, PTL

=============================================================================

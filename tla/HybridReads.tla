---------------------------- MODULE HybridReads ----------------------------
(* The reads of HybridStore that go through the overlay: Get, List, Scan and
   ScanPage of a TierCached namespace, and of a TierHot one until it is loaded.

   Such a read takes no lock across its two halves: it copies the overlay under
   the mutex (snapshotOverlayLocked), releases it, and queries SQLite
   (scanMerged, listMerged).  Writes, chunk commits, compactions and the end of
   a flush may all happen in between.  One read of all keys stands for them
   all: Get is its restriction to one key.                                    *)

EXTENDS HybridStore

CONSTANTS
    Readers,     \* goroutines reading the store
    MaxReads     \* bound: reads started by each

ASSUME ReadsAssumption == MaxReads \in Nat

VARIABLES
    snap,        \* per reader: the copied overlay, or NoSnap when not reading
    window,      \* per reader: the contents the store has had since then
    result,      \* per reader: the last result, with the window it was read in
    reads

readVars == <<snap, window, result, reads>>
allVars == <<vars, readVars>>

NoSnap == <<>>
NoResult == [val |-> Empty, window |-> {Empty}]

\* Mutant: the snapshot forgets the batch that a flush has in hand.
SnapshotOverlayDirtyOnly ==
    [k \in Keys |-> [found |-> HasEntry(dirty[k]), val |-> dirty[k].val]]

\* snapshotOverlayLocked and hybridOverlaySnapshot.resolve.
SnapshotOverlay == [k \in Keys |-> Resolve(k)]

\* mergeOverlayPairs, mergeOverlayKeys: the snapshot decides where it has
\* something to say, the rows read from SQLite elsewhere.
MergeOverlay(overlay, base) ==
    [k \in Keys |-> IF overlay[k].found THEN overlay[k].val ELSE base[k]]

ReadSnapshot(r) ==
    /\ sqliteReadyNow
    /\ snap[r] = NoSnap /\ reads[r] < MaxReads
    /\ snap' = [snap EXCEPT ![r] = SnapshotOverlay]
    /\ window' = [window EXCEPT ![r] = {kv}]
    /\ reads' = [reads EXCEPT ![r] = @ + 1]
    /\ UNCHANGED <<vars, result>>

ReadBase(r) ==
    /\ snap[r] # NoSnap
    /\ result' = [result EXCEPT ![r] =
                    [val |-> MergeOverlay(snap[r], sqlite), window |-> window[r]]]
    /\ snap' = [snap EXCEPT ![r] = NoSnap]
    /\ window' = [window EXCEPT ![r] = {}]
    /\ UNCHANGED <<vars, reads>>

\* A step of the store: the readers only notice that the contents changed, or
\* die with the process.
StoreStep ==
    /\ Next
    /\ snap' = IF crashes' # crashes THEN [r \in Readers |-> NoSnap] ELSE snap
    /\ window' = [r \in Readers |->
                    IF snap'[r] = NoSnap THEN {} ELSE window[r] \cup {kv'}]
    /\ UNCHANGED <<result, reads>>

ReadsInit ==
    /\ Init
    /\ snap = [r \in Readers |-> NoSnap]
    /\ window = [r \in Readers |-> {}]
    /\ result = [r \in Readers |-> NoResult]
    /\ reads = [r \in Readers |-> 0]

ReadsNext ==
    \/ StoreStep
    \/ \E r \in Readers : ReadSnapshot(r) \/ ReadBase(r)

ReadsSpec == ReadsInit /\ [][ReadsNext]_allVars

-----------------------------------------------------------------------------
\* Whatever flushes and writes run between the two halves of a read, the value
\* it returns for a key is one the key had while the read was going on: no key
\* is lost between the overlay and SQLite, and none comes back from the dead.
ReadIsCurrentPerKey ==
    \A r \in Readers : \A k \in Keys :
        result[r].val[k] \in {m[k] : m \in result[r].window}

-----------------------------------------------------------------------------
(* The inductive invariant behind it. *)

\* SQLite may come to have only these values of a key without a further write:
\* the row, the one in the open transaction, and those of the ops still to flush.
Coming(k, had) ==
    /\ sqlite[k] \in had
    /\ fpc # "idle" => tx[k] \in had
    /\ \A o \in Unflushed : k \in o.keys => o.val \in had

\* What a read has to find for a key: what it took from the overlay, or, when
\* the overlay had nothing, whatever SQLite may have by the time it is asked.
Had(r, k) == {m[k] : m \in window[r]}
Bound(r, k) == IF snap[r][k].found THEN snap[r][k].val \in Had(r, k)
                                   ELSE Coming(k, Had(r, k))

ReadersKnown ==
    DOMAIN snap = Readers /\ DOMAIN window = Readers /\ DOMAIN result = Readers

ReadInv ==
    /\ ReadersKnown
    /\ \A r \in Readers : snap[r] # NoSnap =>
           seed # "replay" /\ \A k \in Keys : Bound(r, k)
    /\ ReadIsCurrentPerKey

=============================================================================

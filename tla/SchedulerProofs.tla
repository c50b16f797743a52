-------------------------- MODULE SchedulerProofs --------------------------
(* Proofs about Scheduler, for any number of keys, transitions and goroutines. *)

EXTENDS Scheduler, TLAPS

\* What is filed under a key is an entry.
LEMMA PendingIn == ASSUME TypeOK PROVE Pending \subseteq Entries
BY DEF TypeOK, Pending

\* A fresh scheduler satisfies the invariant.
LEMMA InvInit == Init => SchedInv
<1> SUFFICES ASSUME Init PROVE SchedInv
  OBVIOUS
<1>1. TypeOK
  BY DEF Init, TypeOK
<1>2. FiledIsUnclaimed
  BY DEF Init, FiledIsUnclaimed
<1>3. \A e \in Entries : EntryOwned(e)
  BY DEF Init, EntryOwned
<1> QED BY <1>1, <1>2, <1>3 DEF Init, SchedInv

\* What cancelling a set of filed entries does to them, and to no others.
LEMMA ReleaseFacts ==
    ASSUME SchedInv, NEW es, es \subseteq Pending, Release(es)
    PROVE  /\ es \subseteq Entries /\ Claimed(es) = es
           /\ settled' = settled \cup es /\ released' = released \cup es
           /\ \A e \in es : /\ cb[e] \in {"armed", "fired"} /\ e \notin settled
                            /\ closes'[e] = 1
                            /\ StopTimers(es)[e] \in {"fired", "over"}
           /\ \A e \in Entries : e \notin es =>
                 closes'[e] = closes[e] /\ StopTimers(es)[e] = cb[e]
           /\ closes' \in [Entries -> Nat]
           /\ StopTimers(es) \in
                [Entries -> {"unused", "armed", "fired", "fn", "unlisted", "closed", "over"}]
<1>0. TypeOK
  BY DEF SchedInv
<1>1. es \subseteq Entries
  BY <1>0, PendingIn
<1>2. \A e \in es : cb[e] \in {"armed", "fired"} /\ e \notin settled
  BY DEF SchedInv, FiledIsUnclaimed, Pending
<1>3. Claimed(es) = es
  BY <1>2 DEF Claimed
<1>4. closes' = [e \in Entries |-> IF e \in es THEN closes[e] + 1 ELSE closes[e]]
  BY <1>3 DEF Release, CloseAll
<1>5. closes' \in [Entries -> Nat]
  BY <1>0, <1>4 DEF TypeOK
<1>6. StopTimers(es) \in
         [Entries -> {"unused", "armed", "fired", "fn", "unlisted", "closed", "over"}]
  BY <1>0 DEF StopTimers, TypeOK
<1>7. ASSUME NEW e \in es
      PROVE  closes'[e] = 1 /\ StopTimers(es)[e] \in {"fired", "over"}
  <2>1. closes[e] = 0
    BY <1>1, <1>2 DEF SchedInv, EntryOwned
  <2> QED BY <1>1, <1>2, <1>4, <2>1 DEF StopTimers
<1> QED BY <1>1, <1>2, <1>3, <1>4, <1>5, <1>6, <1>7 DEF Release, StopTimers

\* Cancelling everything filed under a set of keys.
LEMMA ReleaseKeys ==
    ASSUME SchedInv, NEW ks, ks \subseteq Keys,
           NEW es, es = {pending[k] : k \in ks} \ {None},
           Release(es), wg' = wg \ Claimed(es), cb' = StopTimers(es),
           pending' = [k \in Keys |-> IF k \in ks THEN None ELSE pending[k]],
           UNCHANGED <<inflight, key>>
    PROVE  /\ wg' \in SUBSET Entries /\ released' \in SUBSET Entries
           /\ settled' \in SUBSET Entries /\ closes' \in [Entries -> Nat]
           /\ pending' \in [Keys -> Entries \cup {None}]
           /\ cb' \in [Entries -> {"unused", "armed", "fired", "fn", "unlisted", "closed", "over"}]
           /\ FiledIsUnclaimed'
           /\ \A e \in Entries : EntryOwned(e)'
<1>0. TypeOK /\ FiledIsUnclaimed /\ \A e \in Entries : EntryOwned(e)
  BY DEF SchedInv
<1>1. es \subseteq Pending
  BY DEF Pending
<1> DEFINE F == /\ es \subseteq Entries /\ Claimed(es) = es
                /\ settled' = settled \cup es /\ released' = released \cup es
                /\ \A e \in es : /\ cb[e] \in {"armed", "fired"} /\ e \notin settled
                                 /\ closes'[e] = 1
                                 /\ cb'[e] \in {"fired", "over"}
                /\ \A e \in Entries : e \notin es =>
                      closes'[e] = closes[e] /\ cb'[e] = cb[e]
                /\ closes' \in [Entries -> Nat]
                /\ cb' \in [Entries -> {"unused", "armed", "fired", "fn", "unlisted", "closed", "over"}]
<1>2. F
  <2>1. StopTimers(es) = cb'
    OBVIOUS
  <2>2. /\ es \subseteq Entries /\ Claimed(es) = es
        /\ settled' = settled \cup es /\ released' = released \cup es
        /\ closes' \in [Entries -> Nat]
    BY <1>1, ReleaseFacts
  <2>3. \A e \in es : /\ cb[e] \in {"armed", "fired"} /\ e \notin settled
                      /\ closes'[e] = 1
                      /\ StopTimers(es)[e] \in {"fired", "over"}
    BY <1>1, ReleaseFacts
  <2>4. \A e \in Entries : e \notin es =>
            closes'[e] = closes[e] /\ StopTimers(es)[e] = cb[e]
    BY <1>1, ReleaseFacts
  <2>5. StopTimers(es) \in
          [Entries -> {"unused", "armed", "fired", "fn", "unlisted", "closed", "over"}]
    BY <1>1, ReleaseFacts
  <2> QED BY <2>1, <2>2, <2>3, <2>4, <2>5
<1>3. /\ wg' \in SUBSET Entries /\ released' \in SUBSET Entries
      /\ settled' \in SUBSET Entries
      /\ pending' \in [Keys -> Entries \cup {None}]
  BY <1>0, <1>2 DEF TypeOK
<1>4. \A k \in Keys : k \notin ks => pending'[k] = pending[k] /\ pending[k] \notin es
  BY <1>0 DEF FiledIsUnclaimed
<1>5. FiledIsUnclaimed'
  BY <1>0, <1>2, <1>4 DEF FiledIsUnclaimed, TypeOK
<1>6. ASSUME NEW e \in Entries PROVE EntryOwned(e)'
  <2>1. CASE e \in es
    BY <1>0, <1>2, <2>1 DEF EntryOwned
  <2>2. CASE e \notin es
    <3>1. /\ cb'[e] = cb[e] /\ closes'[e] = closes[e] /\ key'[e] = key[e]
          /\ (e \in settled' <=> e \in settled) /\ (e \in released' <=> e \in released)
          /\ (e \in wg' <=> e \in wg) /\ (e \in inflight' <=> e \in inflight)
      BY <1>2, <2>2
    <3>2. pending[key[e]] = e => pending'[key[e]] = e
      <4>1. pending[key[e]] = e => key[e] \notin ks
        BY <2>2, SchedulerAssumption
      <4> QED BY <1>0, <4>1 DEF TypeOK
    <3> QED BY <1>0, <3>1, <3>2 DEF EntryOwned
  <2> QED BY <2>1, <2>2
<1> QED BY <1>2, <1>3, <1>5, <1>6

\* A delayed After: the entry it replaces is finished, the new one is filed.
LEMMA InvAfter == ASSUME SchedInv, NEW e \in Entries, After(e) PROVE SchedInv'
<1> DEFINE k == key[e]
           old == {pending[k]} \ {None}
<1>0. /\ TypeOK /\ FiledIsUnclaimed /\ \A d \in Entries : EntryOwned(d)
      /\ k \in Keys /\ e # None
  BY SchedulerAssumption DEF SchedInv, TypeOK
<1>1. /\ ~stopped /\ cb[e] = "unused" /\ Release(old)
      /\ wg' = (wg \ Claimed(old)) \cup {e}
      /\ cb' = [StopTimers(old) EXCEPT ![e] = "armed"]
      /\ pending' = [pending EXCEPT ![k] = e]
      /\ UNCHANGED <<inflight, stopped, key, inline, settleVars, stopping>>
  BY DEF After, AfterAllowed
<1>2. old \subseteq Pending
  BY <1>0 DEF Pending
<1>3. /\ old \subseteq Entries /\ Claimed(old) = old
      /\ settled' = settled \cup old /\ released' = released \cup old
      /\ closes' \in [Entries -> Nat]
      /\ \A d \in old : /\ cb[d] \in {"armed", "fired"} /\ d \notin settled
                        /\ closes'[d] = 1
                        /\ StopTimers(old)[d] \in {"fired", "over"}
      /\ \A d \in Entries : d \notin old =>
            closes'[d] = closes[d] /\ StopTimers(old)[d] = cb[d]
      /\ StopTimers(old) \in
            [Entries -> {"unused", "armed", "fired", "fn", "unlisted", "closed", "over"}]
  <2> HIDE DEF old
  <2> QED BY <1>1, <1>2, ReleaseFacts
<1>4. e \notin old
  BY <1>1, <1>3
<1> HIDE DEF old
<1>5. /\ cb' \in [Entries -> {"unused", "armed", "fired", "fn", "unlisted", "closed", "over"}]
      /\ cb'[e] = "armed"
      /\ \A d \in old : cb'[d] \in {"fired", "over"}
      /\ \A d \in Entries : d \notin old /\ d # e => cb'[d] = cb[d]
  BY <1>1, <1>3, <1>4
<1>6. /\ pending' \in [Keys -> Entries \cup {None}] /\ pending'[k] = e
      /\ \A q \in Keys : q # k => pending'[q] = pending[q] /\ pending[q] \notin old \cup {e}
  BY <1>0, <1>1 DEF TypeOK, FiledIsUnclaimed, old
<1>7. TypeOK'
  BY <1>0, <1>1, <1>3, <1>5, <1>6 DEF TypeOK
<1>8. FiledIsUnclaimed'
  <2> SUFFICES ASSUME NEW q \in Keys, pending'[q] # None
               PROVE  /\ key'[pending'[q]] = q /\ pending'[q] \notin settled'
                      /\ cb'[pending'[q]] \in {"armed", "fired"}
    BY DEF FiledIsUnclaimed
  <2>1. CASE q = k
    BY <1>0, <1>1, <1>3, <1>4, <1>5, <1>6, <2>1 DEF EntryOwned
  <2>2. CASE q # k
    BY <1>0, <1>1, <1>3, <1>5, <1>6, <2>2 DEF FiledIsUnclaimed, TypeOK
  <2> QED BY <2>1, <2>2
<1>9. ASSUME NEW d \in Entries PROVE EntryOwned(d)'
  <2>1. CASE d = e
    <3>1. e \notin settled /\ e \notin released /\ closes[e] = 0 /\ e \notin inflight
      BY <1>0, <1>1 DEF EntryOwned
    <3> QED BY <1>1, <1>3, <1>4, <1>5, <1>6, <2>1, <3>1 DEF EntryOwned
  <2>2. CASE d \in old
    BY <1>0, <1>1, <1>3, <1>4, <1>5, <2>2 DEF EntryOwned
  <2>3. CASE d \notin old /\ d # e
    <3>1. /\ cb'[d] = cb[d] /\ closes'[d] = closes[d] /\ key'[d] = key[d]
          /\ (d \in settled' <=> d \in settled) /\ (d \in released' <=> d \in released)
          /\ (d \in wg' <=> d \in wg) /\ (d \in inflight' <=> d \in inflight)
      BY <1>1, <1>3, <1>5, <2>3
    <3>2. pending[key[d]] = d => pending'[key[d]] = d
      <4>1. pending[key[d]] = d => key[d] # k
        BY <1>0, <2>3, SchedulerAssumption DEF old
      <4> QED BY <1>0, <1>6, <4>1 DEF TypeOK
    <3> QED BY <1>0, <3>1, <3>2 DEF EntryOwned
  <2> QED BY <2>1, <2>2, <2>3
<1> QED BY <1>1, <1>7, <1>8, <1>9 DEF SchedInv

\* The three other ways out of `pending': Cancel, a zero-delay After, Stop.
LEMMA InvRelease ==
    ASSUME SchedInv,
           \/ \E k \in Keys : Cancel(k)
           \/ \E i \in Inlines, k \in Keys : AfterInline(i, k)
           \/ StopBegin
    PROVE  SchedInv'
<1>0. TypeOK /\ (stopped => \A k \in Keys : pending[k] = None)
      /\ (stopping # "no" => stopped) /\ (stopping = "done" => wg = {})
  BY DEF SchedInv
<1>1. ASSUME NEW ks \in SUBSET Keys,
             LET es == {pending[k] : k \in ks} \ {None} IN
                Release(es) /\ wg' = wg \ Claimed(es) /\ cb' = StopTimers(es),
             pending' = [k \in Keys |-> IF k \in ks THEN None ELSE pending[k]],
             UNCHANGED <<inflight, key>>,
             inline' \in [Inlines -> {"no", "unlocked", "fn", "over"}],
             \/ stopped' = stopped /\ stopping' = stopping
             \/ stopped' = TRUE /\ stopping' = "waiting" /\ ks = Keys
      PROVE  SchedInv'
  <2> DEFINE es == {pending[k] : k \in ks} \ {None}
  <2>1. Release(es) /\ wg' = wg \ Claimed(es) /\ cb' = StopTimers(es)
    BY <1>1
  <2>2. /\ wg' \in SUBSET Entries /\ released' \in SUBSET Entries
        /\ settled' \in SUBSET Entries /\ closes' \in [Entries -> Nat]
        /\ pending' \in [Keys -> Entries \cup {None}]
        /\ cb' \in [Entries -> {"unused", "armed", "fired", "fn", "unlisted", "closed", "over"}]
        /\ FiledIsUnclaimed'
        /\ \A e \in Entries : EntryOwned(e)'
    <3> HIDE DEF es
    <3>1. es = {pending[k] : k \in ks} \ {None}
      BY DEF es
    <3> QED BY <1>1, <2>1, <3>1, ReleaseKeys
  <2>3. stopped' \in BOOLEAN /\ stopping' \in {"no", "waiting", "done", "timedout"}
    BY <1>0, <1>1 DEF TypeOK
  <2>4. TypeOK'
    BY <1>0, <1>1, <2>2, <2>3 DEF TypeOK
  <2>5. /\ stopping' # "no" => stopped'
        /\ stopped' => \A k \in Keys : pending'[k] = None
        /\ stopping' = "done" => wg' = {}
    BY <1>0, <1>1, <2>1
  <2> QED BY <2>2, <2>4, <2>5 DEF SchedInv
<1>2. ASSUME NEW k \in Keys, Cancel(k) PROVE SchedInv'
  <2>1. {pending[q] : q \in {k}} \ {None} = {pending[k]}
    BY <1>2 DEF Cancel
  <2>2. pending' = [q \in Keys |-> IF q \in {k} THEN None ELSE pending[q]]
    BY <1>0, <1>2 DEF Cancel, TypeOK
  <2>3. /\ UNCHANGED <<inflight, key, stopped, stopping>>
        /\ inline' \in [Inlines -> {"no", "unlocked", "fn", "over"}]
    BY <1>0, <1>2 DEF Cancel, TypeOK
  <2>4. LET es == {pending[q] : q \in {k}} \ {None} IN
           Release(es) /\ wg' = wg \ Claimed(es) /\ cb' = StopTimers(es)
    BY <1>2, <2>1 DEF Cancel, Balance
  <2>5. {k} \in SUBSET Keys
    OBVIOUS
  <2> QED BY <1>1, <2>2, <2>3, <2>4, <2>5
<1>3. ASSUME NEW i \in Inlines, NEW k \in Keys, AfterInline(i, k) PROVE SchedInv'
  <2>1. {pending[q] : q \in {k}} \ {None} = {pending[k]} \ {None}
    OBVIOUS
  <2>2. pending' = [q \in Keys |-> IF q \in {k} THEN None ELSE pending[q]]
    BY <1>0, <1>3 DEF AfterInline, TypeOK
  <2>3. /\ UNCHANGED <<inflight, key, stopped, stopping>>
        /\ inline' \in [Inlines -> {"no", "unlocked", "fn", "over"}]
    BY <1>0, <1>3 DEF AfterInline, TypeOK
  <2>4. LET es == {pending[q] : q \in {k}} \ {None} IN
           Release(es) /\ wg' = wg \ Claimed(es) /\ cb' = StopTimers(es)
    BY <1>3, <2>1 DEF AfterInline, Balance
  <2>5. {k} \in SUBSET Keys
    OBVIOUS
  <2> QED BY <1>1, <2>2, <2>3, <2>4, <2>5
<1>4. ASSUME StopBegin PROVE SchedInv'
  <2>1. {pending[q] : q \in Keys} \ {None} = Pending
    BY DEF Pending
  <2>2. pending' = [q \in Keys |-> IF q \in Keys THEN None ELSE pending[q]]
    BY <1>4 DEF StopBegin
  <2>3. UNCHANGED <<inflight, key, inline>> /\ stopped' = TRUE /\ stopping' = "waiting"
    BY <1>4 DEF StopBegin
  <2> QED BY <1>0, <1>1, <1>4, <2>1, <2>2, <2>3 DEF StopBegin, Balance, TypeOK
<1> QED BY <1>2, <1>3, <1>4

\* A timer's function, from its first critical section to its last step.
LEMMA InvCallback == ASSUME SchedInv, NEW e \in Entries, Callback(e) PROVE SchedInv'
<1>0. TypeOK /\ FiledIsUnclaimed /\ \A d \in Entries : EntryOwned(d)
  BY DEF SchedInv
<1>1. UNCHANGED <<stopped, key, released, inline, settleVars, stopping>>
  BY DEF Callback, Fire, Claim, Unlist, CloseDone, WgDone
<1>2. ASSUME TypeOK', FiledIsUnclaimed', EntryOwned(e)',
             \A d \in Entries : d # e =>
                /\ cb'[d] = cb[d] /\ closes'[d] = closes[d]
                /\ (d \in settled' <=> d \in settled) /\ (d \in wg' <=> d \in wg)
                /\ (d \in inflight' <=> d \in inflight),
             \A k \in Keys : pending'[k] = pending[k] \/ (pending[k] = e /\ pending'[k] = None),
             wg' \subseteq wg
      PROVE  SchedInv'
  <2>1. ASSUME NEW d \in Entries, d # e PROVE EntryOwned(d)'
    <3>1. pending[key[d]] = d => pending'[key[d]] = d
      BY <1>0, <1>2, <2>1 DEF TypeOK
    <3>2. EntryOwned(d) /\ key'[d] = key[d]
      BY <1>0, <1>1
    <3> QED BY <1>1, <1>2, <2>1, <3>1, <3>2 DEF EntryOwned
  <2>2. stopped' => \A k \in Keys : pending'[k] = None
    BY <1>1, <1>2 DEF SchedInv
  <2> QED BY <1>1, <1>2, <2>1, <2>2 DEF SchedInv
<1>3. CASE Fire(e)
  <2>1. TypeOK'
    BY <1>0, <1>1, <1>3 DEF Fire, TypeOK, settleVars
  <2>2. FiledIsUnclaimed'
    BY <1>0, <1>3 DEF Fire, FiledIsUnclaimed, TypeOK
  <2>3. EntryOwned(e)'
    BY <1>0, <1>3 DEF Fire, EntryOwned, TypeOK
  <2> QED BY <1>0, <1>2, <1>3, <2>1, <2>2, <2>3 DEF Fire, TypeOK
<1>4. CASE Claim(e)
  <2>1. pending' \in [Keys -> Entries \cup {None}]
        /\ pending'[key[e]] # e
        /\ \A k \in Keys : pending'[k] = pending[k] \/ (pending[k] = e /\ pending'[k] = None)
    BY <1>0, <1>4, SchedulerAssumption DEF Claim, Unfile, TypeOK
  <2>2. /\ settled' = settled \cup {e} /\ UNCHANGED <<wg, closes>>
        /\ IF e \in settled
           THEN cb' = [cb EXCEPT ![e] = "over"] /\ inflight' = inflight
           ELSE cb' = [cb EXCEPT ![e] = "fn"] /\ inflight' = inflight \cup {e}
    BY <1>4 DEF Claim, Claimed
  <2>3. cb[e] = "fired"
    BY <1>4 DEF Claim
  <2>4. TypeOK'
    BY <1>0, <1>1, <2>1, <2>2 DEF TypeOK
  <2>5. FiledIsUnclaimed'
    <3> SUFFICES ASSUME NEW k \in Keys, pending'[k] # None
                 PROVE  /\ key'[pending'[k]] = k /\ pending'[k] \notin settled'
                        /\ cb'[pending'[k]] \in {"armed", "fired"}
      BY DEF FiledIsUnclaimed
    <3>1. pending'[k] = pending[k]
      BY <2>1
    <3>2. pending[k] # e
      BY <1>0, <2>1, <3>1 DEF FiledIsUnclaimed
    <3> QED BY <1>0, <1>1, <2>2, <3>1, <3>2 DEF FiledIsUnclaimed, TypeOK
  <2>6. EntryOwned(e)'
    BY <1>0, <1>1, <2>2, <2>3 DEF EntryOwned, TypeOK
  <2>7. \A d \in Entries : d # e =>
                /\ cb'[d] = cb[d] /\ closes'[d] = closes[d]
                /\ (d \in settled' <=> d \in settled) /\ (d \in wg' <=> d \in wg)
                /\ (d \in inflight' <=> d \in inflight)
    BY <1>0, <2>2 DEF TypeOK
  <2> QED BY <1>2, <2>1, <2>2, <2>4, <2>5, <2>6, <2>7
<1>5. CASE Unlist(e)
  <2>1. TypeOK'
    BY <1>0, <1>1, <1>5 DEF Unlist, TypeOK, settleVars
  <2>2. FiledIsUnclaimed'
    BY <1>0, <1>5 DEF Unlist, FiledIsUnclaimed, TypeOK
  <2>3. EntryOwned(e)'
    BY <1>0, <1>5 DEF Unlist, EntryOwned, TypeOK
  <2> QED BY <1>0, <1>2, <1>5, <2>1, <2>2, <2>3 DEF Unlist, TypeOK
<1>6. CASE CloseDone(e)
  <2>1. TypeOK'
    BY <1>0, <1>1, <1>6 DEF CloseDone, TypeOK, settleVars
  <2>2. FiledIsUnclaimed'
    BY <1>0, <1>6 DEF CloseDone, FiledIsUnclaimed, TypeOK
  <2>3. EntryOwned(e)'
    BY <1>0, <1>6 DEF CloseDone, EntryOwned, TypeOK
  <2> QED BY <1>0, <1>2, <1>6, <2>1, <2>2, <2>3 DEF CloseDone, TypeOK
<1>7. CASE WgDone(e)
  <2>1. TypeOK'
    BY <1>0, <1>1, <1>7 DEF WgDone, TypeOK, settleVars
  <2>2. FiledIsUnclaimed'
    BY <1>0, <1>7 DEF WgDone, FiledIsUnclaimed, TypeOK
  <2>3. EntryOwned(e)'
    BY <1>0, <1>7 DEF WgDone, EntryOwned, TypeOK
  <2> QED BY <1>0, <1>2, <1>7, <2>1, <2>2, <2>3 DEF WgDone, TypeOK
<1> QED BY <1>3, <1>4, <1>5, <1>6, <1>7 DEF Callback

\* Every step keeps the invariant.
LEMMA InvStep == SchedInv /\ [Next]_vars => SchedInv'
<1> SUFFICES ASSUME SchedInv, [Next]_vars PROVE SchedInv'
  OBVIOUS
<1>1. CASE \E e \in Entries : After(e)
  BY <1>1, InvAfter
<1>2. CASE \E e \in Entries : Callback(e)
  BY <1>2, InvCallback
<1>3. CASE \/ \E k \in Keys : Cancel(k)
           \/ \E i \in Inlines, k \in Keys : AfterInline(i, k)
           \/ StopBegin
  BY <1>3, InvRelease
<1>4. CASE \/ \E i \in Inlines : InlineRun(i)
           \/ \E s \in Settlers : SettleBegin(s) \/ SettleReturn(s)
           \/ StopReturn \/ UNCHANGED vars
  <2>1. UNCHANGED <<pending, inflight, settled, wg, stopped, entryVars>>
    BY <1>4 DEF InlineRun, SettleBegin, SettleReturn, StopReturn, vars
  <2>2. inline' \in [Inlines -> {"no", "unlocked", "fn", "over"}]
    BY <1>4 DEF InlineRun, SettleBegin, SettleReturn, StopReturn, vars, SchedInv, TypeOK
  <2>3. \/ stopping' = stopping
        \/ stopping = "waiting" /\ stopping' = "timedout"
        \/ stopping = "waiting" /\ stopping' = "done" /\ wg = {}
    BY <1>4 DEF InlineRun, SettleBegin, SettleReturn, StopReturn, vars
  <2>4. TypeOK'
    BY <2>1, <2>2, <2>3 DEF SchedInv, TypeOK, entryVars
  <2>5. FiledIsUnclaimed' /\ \A e \in Entries : EntryOwned(e)'
    BY <2>1 DEF SchedInv, FiledIsUnclaimed, EntryOwned, entryVars
  <2> QED BY <2>1, <2>3, <2>4, <2>5 DEF SchedInv
<1> QED BY <1>1, <1>2, <1>3, <1>4 DEF Next, Callback

-----------------------------------------------------------------------------
(* Settle. *)

\* Whose done channel is closed is finished.
LEMMA ClosedIsFinished ==
    ASSUME SchedInv, NEW e \in Entries, closes[e] > 0 PROVE Finished(e)
<1>1. EntryOwned(e) /\ cb[e] \in {"unused", "armed", "fired", "fn", "unlisted", "closed", "over"}
  BY DEF SchedInv, TypeOK
<1> QED BY <1>1 DEF EntryOwned, Finished

\* No step revives a finished transition.
LEMMA FinishedStays ==
    ASSUME SchedInv, [Next]_vars, NEW e \in Entries, Finished(e) PROVE Finished(e)'
<1>0. TypeOK /\ EntryOwned(e)
  BY DEF SchedInv
<1>1. e \in settled /\ cb[e] \in {"fired", "closed", "over"}
  BY <1>0 DEF EntryOwned, Finished
<1>2. CASE \E d \in Entries : After(d)
  <2>1. PICK d \in Entries : After(d)
    BY <1>2
  <2>2. d # e /\ released \subseteq released'
    BY <1>1, <2>1 DEF After, Release
  <2>3. cb'[e] = cb[e]
    BY <1>0, <1>1, <2>1, <2>2 DEF After, StopTimers, TypeOK
  <2> QED BY <2>2, <2>3 DEF Finished
<1>3. CASE \/ \E k \in Keys : Cancel(k)
           \/ \E i \in Inlines, k \in Keys : AfterInline(i, k)
           \/ StopBegin
  <2>1. released \subseteq released'
    BY <1>3 DEF Cancel, AfterInline, StopBegin, Release
  <2>2. PICK es : cb' = StopTimers(es)
    BY <1>3 DEF Cancel, AfterInline, StopBegin
  <2>3. cb'[e] = cb[e]
    BY <1>1, <2>2 DEF StopTimers
  <2> QED BY <2>1, <2>3 DEF Finished
<1>4. CASE \E d \in Entries : Callback(d)
  <2>1. PICK d \in Entries : Callback(d)
    BY <1>4
  <2>2. released' = released
    BY <2>1 DEF Callback, Fire, Claim, Unlist, CloseDone, WgDone
  <2>3. CASE d # e
    BY <1>0, <2>1, <2>2, <2>3
       DEF Callback, Fire, Claim, Unlist, CloseDone, WgDone, Finished, TypeOK
  <2>4. CASE d = e
    BY <1>0, <1>1, <2>1, <2>2, <2>4
       DEF Callback, Fire, Claim, Claimed, Unlist, CloseDone, WgDone, Finished, TypeOK
  <2> QED BY <2>3, <2>4
<1>5. CASE \/ \E i \in Inlines : InlineRun(i)
           \/ \E s \in Settlers : SettleBegin(s) \/ SettleReturn(s)
           \/ StopReturn \/ UNCHANGED vars
  BY <1>5 DEF InlineRun, SettleBegin, SettleReturn, StopReturn, vars, entryVars, Finished
<1> QED BY <1>2, <1>3, <1>4, <1>5 DEF Next, Callback

\* dueBy misses no outstanding transition.
LEMMA DueSeesAll == ASSUME SchedInv PROVE Outstanding \subseteq Due /\ Due \subseteq Entries
<1>1. TypeOK /\ \A e \in Entries : EntryOwned(e)
  BY DEF SchedInv
<1>2. Due \subseteq Entries
  BY <1>1, PendingIn DEF Due, TypeOK
<1>3. ASSUME NEW e \in Outstanding PROVE e \in Due
  <2>1. e \in Entries /\ EntryOwned(e)
    BY <1>1 DEF Outstanding
  <2>2. CASE cb[e] = "fn"
    BY <2>1, <2>2 DEF EntryOwned, Due
  <2>3. CASE cb[e] \in {"armed", "fired"} /\ e \notin settled
    <3>1. pending[key[e]] = e /\ key[e] \in Keys
      BY <1>1, <2>1, <2>3 DEF EntryOwned, TypeOK
    <3> QED BY <2>1, <3>1, SchedulerAssumption DEF Due, Pending
  <2> QED BY <2>2, <2>3 DEF Outstanding
<1> QED BY <1>2, <1>3

\* Every step keeps what the Settle calls know.
LEMMA SettleStep == SettleInv /\ [Next]_vars => SettleInv'
<1> SUFFICES ASSUME SettleInv, [Next]_vars PROVE SettleInv'
  OBVIOUS
<1>0. SchedInv /\ SchedInv'
  BY InvStep DEF SettleInv
<1>1. \A e \in Entries : Finished(e) => Finished(e)'
  BY <1>0, FinishedStays
<1>2. CASE UNCHANGED settleVars
  BY <1>0, <1>1, <1>2 DEF SettleInv, SettleKnows, settleVars
<1>3. ASSUME NEW s \in Settlers, SettleBegin(s) PROVE SettleInv'
  <2>1. /\ settle' = [settle EXCEPT ![s] = Due]
        /\ settleSaw' = [settleSaw EXCEPT ![s] = Outstanding]
    BY <1>3 DEF SettleBegin
  <2>2. Due \in SUBSET Entries /\ Outstanding \subseteq Due /\ Due # None
    BY <1>0, DueSeesAll, SchedulerAssumption
  <2>3. /\ settle' \in [Settlers -> (SUBSET Entries) \cup {None}]
        /\ settleSaw' \in [Settlers -> SUBSET Entries]
    BY <2>1, <2>2 DEF SettleInv
  <2>4. ASSUME NEW t \in Settlers PROVE SettleKnows(t)'
    <3>1. CASE t = s
      BY <2>1, <2>2, <3>1 DEF SettleInv, SettleKnows
    <3>2. CASE t # s
      <4>1. settle'[t] = settle[t] /\ settleSaw'[t] = settleSaw[t]
        BY <2>1, <3>2 DEF SettleInv
      <4> QED BY <1>1, <4>1 DEF SettleInv, SettleKnows
    <3> QED BY <3>1, <3>2
  <2> QED BY <1>0, <2>3, <2>4 DEF SettleInv
<1>4. ASSUME NEW s \in Settlers, SettleReturn(s) PROVE SettleInv'
  <2>1. /\ settle[s] # None /\ \A e \in settle[s] : closes[e] > 0
        /\ settle' = [settle EXCEPT ![s] = None] /\ settleSaw' = settleSaw
    BY <1>4 DEF SettleReturn
  <2>2. \A e \in settleSaw[s] : Finished(e)'
    BY <1>0, <1>1, <2>1, ClosedIsFinished DEF SettleInv, SettleKnows
  <2>3. settle' \in [Settlers -> (SUBSET Entries) \cup {None}]
    BY <2>1 DEF SettleInv
  <2>4. ASSUME NEW t \in Settlers PROVE SettleKnows(t)'
    <3>1. CASE t = s
      BY <2>1, <2>2, <3>1 DEF SettleInv, SettleKnows
    <3>2. CASE t # s
      <4>1. settle'[t] = settle[t] /\ settleSaw'[t] = settleSaw[t]
        BY <2>1, <3>2 DEF SettleInv
      <4> QED BY <1>1, <4>1 DEF SettleInv, SettleKnows
    <3> QED BY <3>1, <3>2
  <2> QED BY <1>0, <2>1, <2>3, <2>4 DEF SettleInv
<1>5. \/ UNCHANGED settleVars
      \/ \E s \in Settlers : SettleBegin(s) \/ SettleReturn(s)
  BY DEF Next, After, Fire, Claim, Unlist, CloseDone, WgDone, AfterInline, InlineRun,
         Cancel, StopBegin, StopReturn, vars
<1> QED BY <1>2, <1>3, <1>4, <1>5

-----------------------------------------------------------------------------
(* Theorems. *)

\* The invariant holds for any number of keys, transitions and callers.
THEOREM InvariantHolds == Spec => []SchedInv
BY InvInit, InvStep, PTL DEF Spec

\* No race between a firing timer and Cancel, Stop or a replacement closes a
\* done channel twice.
THEOREM ClosedOnce == Spec => []DoneClosedOnce
<1>1. SchedInv => DoneClosedOnce
  <2> SUFFICES ASSUME SchedInv, NEW e \in Entries PROVE closes[e] <= 1
    BY DEF DoneClosedOnce
  <2> QED BY DEF SchedInv, TypeOK, EntryOwned
<1> QED BY <1>1, InvariantHolds, PTL

\* True from Cancel means that fn will not run; so do a replacement and Stop.
THEOREM CancelIsFinal == Spec => []ReleasedNeverRuns
<1>1. SchedInv => ReleasedNeverRuns
  BY DEF SchedInv, TypeOK, EntryOwned, ReleasedNeverRuns
<1> QED BY <1>1, InvariantHolds, PTL

\* A superseded callback never takes the entry that replaced its own.
THEOREM NothingOrphaned == Spec => []NoOrphans
<1>1. SchedInv => NoOrphans
  BY DEF SchedInv, EntryOwned, NoOrphans
<1> QED BY <1>1, InvariantHolds, PTL

\* Once Stop has returned in time, no timer's fn is running or ever will.
THEOREM StoppedIsQuiet == Spec => []StopIsFinal
<1>1. SchedInv => StopIsFinal
  <2> SUFFICES ASSUME SchedInv, stopping = "done", NEW e \in Entries
               PROVE  \/ cb[e] \in {"unused", "over"}
                      \/ cb[e] = "fired" /\ e \in settled
    BY DEF StopIsFinal
  <2>1. wg = {} /\ EntryOwned(e)
    BY DEF SchedInv
  <2>2. cb[e] \in {"unused", "armed", "fired", "fn", "unlisted", "closed", "over"}
    BY DEF SchedInv, TypeOK
  <2> QED BY <2>1, <2>2 DEF EntryOwned
<1> QED BY <1>1, InvariantHolds, PTL

\* Settle misses no transition: when it returns, all that were outstanding at
\* its call, timers and callbacks at work alike, have ended or were cancelled.
THEOREM SettleIsComplete == Spec => []SettleSeesAll
<1>1. Init => SettleInv
  <2> SUFFICES ASSUME Init PROVE SettleInv
    OBVIOUS
  <2>1. SchedInv
    BY InvInit
  <2> QED BY <2>1 DEF Init, SettleInv, SettleKnows
<1>2. SettleInv => SettleSeesAll
  BY DEF SettleInv, SettleKnows, SettleSeesAll, Finished
<1> QED BY <1>1, <1>2, SettleStep, PTL DEF Spec

=============================================================================

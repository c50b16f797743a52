----------------------------- MODULE Scheduler -----------------------------
(* lifecycle.Scheduler: keyed delayed callbacks that may be replaced, cancelled
   and stopped while their timers fire.

   Every operation is one critical section of the scheduler's mutex.  Between
   them run the timers, which cannot be called back once they have fired, the
   callbacks, which first have to claim their entry, and the deferred end of a
   callback, which is three separate steps.  A callback may itself call After
   and Cancel: they are steps that anyone may take at any time.              *)

EXTENDS Naturals

CONSTANTS
    Keys,        \* transition keys
    Entries,     \* bound: the calls of After that create a timer
    Inlines,     \* bound: the zero-delay calls of After that run their fn
    Settlers,    \* bound: the calls of Settle
    None         \* no entry is filed under a key

\* nil is neither an entry nor a list of entries.
ASSUME SchedulerAssumption == None \notin Entries /\ \A es \in SUBSET Entries : None # es

VARIABLES
    pending,     \* per key: the entry filed under it
    inflight,    \* entries whose callback has claimed them and is at work
    settled,     \* entries somebody has taken responsibility for finishing
    wg,          \* entries whose wg.Add is not balanced yet
    stopped,
    \* --- the entries
    key,         \* the key an entry was created for
    cb,          \* its callback: "unused", "armed" (timer not fired), "fired",
                 \* "fn", "unlisted", "closed" (its deferred end), "over"
    closes,      \* how often its done channel was closed
    released,    \* entries that Cancel, Stop or a replacement has finished
    \* --- other goroutines
    inline,      \* per zero-delay After: "no", "unlocked", "fn", "over"
    settle,      \* per Settle: the channels it waits for, or None
    settleSaw,   \* per Settle: the transitions that were outstanding
    stopping     \* Stop: "no", "waiting", "done", "timedout"

entryVars == <<key, cb, closes, released>>
settleVars == <<settle, settleSaw>>
vars == <<pending, inflight, settled, wg, stopped, entryVars, inline,
          settleVars, stopping>>

-----------------------------------------------------------------------------
Init ==
    /\ pending = [k \in Keys |-> None]
    /\ inflight = {} /\ settled = {} /\ wg = {} /\ stopped = FALSE
    /\ key \in [Entries -> Keys]
    /\ cb = [e \in Entries |-> "unused"]
    /\ closes = [e \in Entries |-> 0]
    /\ released = {}
    /\ inline = [i \in Inlines |-> "no"]
    /\ settle = [s \in Settlers |-> None]
    /\ settleSaw = [s \in Settlers |-> {}]
    /\ stopping = "no"

Pending == {pending[k] : k \in Keys} \ {None}

\* Mutant: whoever comes second finishes the entry again.
ClaimedAlways(es) == es

\* claimLocked: those of the entries that the caller is the first to claim.
Claimed(es) == es \ settled

\* timer.Stop: a timer that has not fired never will.
StopTimers(es) ==
    [e \in Entries |-> IF e \in es /\ cb[e] = "armed" THEN "over" ELSE cb[e]]

Balance(es) == wg' = wg \ es

\* Mutant: the cancelling side leaves the done channel open.
CloseNothing(es) == UNCHANGED closes

CloseAll(es) ==
    closes' = [e \in Entries |-> IF e \in es THEN closes[e] + 1 ELSE closes[e]]

\* releaseLocked, for the entries that leave `pending'.
Release(es) ==
    /\ settled' = settled \cup es
    /\ CloseAll(Claimed(es))
    /\ released' = released \cup Claimed(es)

\* Mutant: After does not look at stopped.
AfterAllowedAlways == TRUE

AfterAllowed == ~stopped

\* After with a delay: the entry under the key is replaced.
After(e) ==
    /\ AfterAllowed /\ cb[e] = "unused"
    /\ LET old == {pending[key[e]]} \ {None} IN
         /\ Release(old)
         /\ wg' = (wg \ Claimed(old)) \cup {e}
         /\ cb' = [StopTimers(old) EXCEPT ![e] = "armed"]
    /\ pending' = [pending EXCEPT ![key[e]] = e]
    /\ UNCHANGED <<inflight, stopped, key, inline, settleVars, stopping>>

\* After without a delay on a real clock: fn runs in the caller, unlocked.
AfterInline(i, k) ==
    /\ AfterAllowed /\ inline[i] = "no"
    /\ LET old == {pending[k]} \ {None} IN
         /\ Release(old)
         /\ Balance(Claimed(old))
         /\ cb' = StopTimers(old)
    /\ pending' = [pending EXCEPT ![k] = None]
    /\ inline' = [inline EXCEPT ![i] = "unlocked"]
    /\ UNCHANGED <<inflight, stopped, key, settleVars, stopping>>

InlineRun(i) ==
    /\ inline[i] \in {"unlocked", "fn"}
    /\ inline' = [inline EXCEPT ![i] = IF inline[i] = "unlocked" THEN "fn" ELSE "over"]
    /\ UNCHANGED <<pending, inflight, settled, wg, stopped, entryVars,
                   settleVars, stopping>>

-----------------------------------------------------------------------------
(* The timer's function. *)

Fire(e) ==
    /\ cb[e] = "armed"
    /\ cb' = [cb EXCEPT ![e] = "fired"]
    /\ UNCHANGED <<pending, inflight, settled, wg, stopped, key, closes,
                   released, inline, settleVars, stopping>>

\* Mutant: the callback clears its key whoever holds it.
UnfileAnyone(e) == [pending EXCEPT ![key[e]] = None]

\* The key is cleared only if it still holds this entry.
Unfile(e) ==
    [pending EXCEPT ![key[e]] = IF pending[key[e]] = e THEN None ELSE pending[key[e]]]

\* The callback's first critical section: it runs fn if it gets the claim.
Claim(e) ==
    /\ cb[e] = "fired"
    /\ pending' = Unfile(e)
    /\ settled' = settled \cup {e}
    /\ IF e \in Claimed({e})
       THEN /\ inflight' = inflight \cup {e}
            /\ cb' = [cb EXCEPT ![e] = "fn"]
       ELSE /\ cb' = [cb EXCEPT ![e] = "over"]
            /\ UNCHANGED inflight
    /\ UNCHANGED <<wg, stopped, key, closes, released, inline, settleVars, stopping>>

\* fn has returned: the deferred function, step by step.
Unlist(e) ==
    /\ cb[e] = "fn"
    /\ inflight' = inflight \ {e}
    /\ cb' = [cb EXCEPT ![e] = "unlisted"]
    /\ UNCHANGED <<pending, settled, wg, stopped, key, closes, released, inline,
                   settleVars, stopping>>

CloseDone(e) ==
    /\ cb[e] = "unlisted"
    /\ closes' = [closes EXCEPT ![e] = @ + 1]
    /\ cb' = [cb EXCEPT ![e] = "closed"]
    /\ UNCHANGED <<pending, inflight, settled, wg, stopped, key, released,
                   inline, settleVars, stopping>>

WgDone(e) ==
    /\ cb[e] = "closed"
    /\ wg' = wg \ {e}
    /\ cb' = [cb EXCEPT ![e] = "over"]
    /\ UNCHANGED <<pending, inflight, settled, stopped, key, closes, released,
                   inline, settleVars, stopping>>

-----------------------------------------------------------------------------
(* Cancel, Settle and Stop. *)

Cancel(k) ==
    /\ pending[k] # None
    /\ Release({pending[k]})
    /\ Balance(Claimed({pending[k]}))
    /\ cb' = StopTimers({pending[k]})
    /\ pending' = [pending EXCEPT ![k] = None]
    /\ UNCHANGED <<inflight, stopped, key, inline, settleVars, stopping>>

\* A transition that was scheduled, and whose fn may still run or is running.
Outstanding == {e \in Entries : \/ cb[e] = "fn"
                                \/ cb[e] \in {"armed", "fired"} /\ e \notin settled}

\* Mutant: callbacks at work are not looked for.
DuePendingOnly == Pending

\* dueBy, with a zero target.
Due == inflight \cup Pending

SettleBegin(s) ==
    /\ settle[s] = None /\ settleSaw[s] = {}
    /\ settle' = [settle EXCEPT ![s] = Due]
    /\ settleSaw' = [settleSaw EXCEPT ![s] = Outstanding]
    /\ UNCHANGED <<pending, inflight, settled, wg, stopped, entryVars, inline, stopping>>

SettleReturn(s) ==
    /\ settle[s] # None /\ \A e \in settle[s] : closes[e] > 0
    /\ settle' = [settle EXCEPT ![s] = None]
    /\ UNCHANGED <<pending, inflight, settled, wg, stopped, entryVars, inline,
                   settleSaw, stopping>>

\* The critical section of Stop.
StopBegin ==
    /\ stopping = "no"
    /\ stopping' = "waiting"
    /\ stopped' = TRUE
    /\ Release(Pending)
    /\ Balance(Claimed(Pending))
    /\ cb' = StopTimers(Pending)
    /\ pending' = [k \in Keys |-> None]
    /\ UNCHANGED <<inflight, key, inline, settleVars>>

\* wg.Wait returns, or the context expires first.
StopReturn ==
    /\ stopping = "waiting"
    /\ stopping' \in {"timedout"} \cup (IF wg = {} THEN {"done"} ELSE {})
    /\ UNCHANGED <<pending, inflight, settled, wg, stopped, entryVars, inline, settleVars>>

Next ==
    \/ \E e \in Entries : After(e) \/ Fire(e) \/ Claim(e)
    \/ \E e \in Entries : Unlist(e) \/ CloseDone(e) \/ WgDone(e)
    \/ \E i \in Inlines, k \in Keys : AfterInline(i, k)
    \/ \E i \in Inlines : InlineRun(i)
    \/ \E k \in Keys : Cancel(k)
    \/ \E s \in Settlers : SettleBegin(s) \/ SettleReturn(s)
    \/ StopBegin \/ StopReturn

Spec == Init /\ [][Next]_vars

Callback(e) == Fire(e) \/ Claim(e) \/ Unlist(e) \/ CloseDone(e) \/ WgDone(e)

\* Timers fire, and a callback that has started goes on: every fn returns.
FairSpec ==
    /\ Spec
    /\ \A e \in Entries : WF_vars(Callback(e))
    /\ \A s \in Settlers : WF_vars(SettleReturn(s))

-----------------------------------------------------------------------------
(* Properties. *)

\* The variables have their types.
TypeOK ==
    /\ pending \in [Keys -> Entries \cup {None}]
    /\ {inflight, settled, wg, released} \subseteq SUBSET Entries
    /\ stopped \in BOOLEAN
    /\ key \in [Entries -> Keys]
    /\ cb \in [Entries -> {"unused", "armed", "fired", "fn", "unlisted", "closed", "over"}]
    /\ closes \in [Entries -> Nat]
    /\ inline \in [Inlines -> {"no", "unlocked", "fn", "over"}]
    /\ stopping \in {"no", "waiting", "done", "timedout"}

\* A done channel is closed at most once (a second close panics the process),
\* however a Cancel, a Stop or a replacement races with the firing timer.
DoneClosedOnce == \A e \in Entries : closes[e] <= 1

\* A transition that was cancelled, replaced or stopped never runs its fn.
ReleasedNeverRuns ==
    \A e \in released : cb[e] \in {"fired", "over"}

\* A timer that may still run its fn is the one filed under its key: it can be
\* cancelled, Stop will find it, and no superseded callback orphans it.
NoOrphans ==
    \A e \in Entries :
        cb[e] \in {"armed", "fired"} /\ e \notin settled => pending[key[e]] = e

\* Once Stop has returned without timing out, no timer's fn is running, and
\* none will.
StopIsFinal ==
    stopping = "done" =>
        \A e \in Entries : \/ cb[e] \in {"unused", "over"}
                           \/ cb[e] = "fired" /\ e \in settled

\* When Settle returns, every transition that was outstanding when it was
\* called has run to the end or was cancelled.
SettleSeesAll ==
    \A s \in Settlers : settle[s] = None =>
        \A e \in settleSaw[s] : e \in released \/ cb[e] \in {"closed", "over"}

\* What is filed under a key belongs there, and nobody has claimed it.
FiledIsUnclaimed ==
    \A k \in Keys : pending[k] # None =>
        /\ key[pending[k]] = k
        /\ pending[k] \notin settled
        /\ cb[pending[k]] \in {"armed", "fired"}

\* Who has claimed an entry, and who still owes its wg.Done and its close.
EntryOwned(e) ==
    /\ e \in inflight <=> cb[e] = "fn"
    /\ cb[e] = "unused" => e \notin settled /\ e \notin wg /\ closes[e] = 0
    /\ cb[e] = "armed" => e \notin settled
    /\ cb[e] \in {"armed", "fired"} /\ e \notin settled =>
          e \in wg /\ closes[e] = 0 /\ pending[key[e]] = e
    /\ cb[e] = "fired" /\ e \in settled => e \in released
    /\ cb[e] \in {"fn", "unlisted"} =>
          e \in settled /\ e \notin released /\ e \in wg /\ closes[e] = 0
    /\ cb[e] = "closed" =>
          e \in settled /\ e \notin released /\ e \in wg /\ closes[e] = 1
    /\ cb[e] = "over" => e \in settled /\ e \notin wg /\ closes[e] = 1
    /\ e \in released =>
          /\ cb[e] \in {"fired", "over"} /\ e \in settled
          /\ e \notin wg /\ closes[e] = 1

\* The inductive invariant.
SchedInv ==
    /\ TypeOK
    /\ FiledIsUnclaimed
    /\ \A e \in Entries : EntryOwned(e)
    /\ stopping # "no" => stopped
    /\ stopped => \A k \in Keys : pending[k] = None
    /\ stopping = "done" => wg = {}

\* An entry whose transition is finished: it ran to the end or was released.
Finished(e) == e \in released \/ cb[e] \in {"closed", "over"}

\* What a Settle call knows: it waits for all that it saw outstanding, and once
\* it has returned all of that is finished.
SettleKnows(s) ==
    /\ settle[s] # None => settleSaw[s] \subseteq settle[s]
    /\ settle[s] = None => \A e \in settleSaw[s] : Finished(e)

\* The inductive invariant with the calls of Settle.
SettleInv ==
    /\ SchedInv
    /\ settle \in [Settlers -> (SUBSET Entries) \cup {None}]
    /\ settleSaw \in [Settlers -> SUBSET Entries]
    /\ \A s \in Settlers : SettleKnows(s)

\* Settle ends, and so does every scheduled transition: it runs or is released.
\* Stop never has to give up on a callback that ends: its WaitGroup drains.
EverythingSettles ==
    /\ \A e \in Entries : cb[e] = "armed" ~> cb[e] = "over"
    /\ \A s \in Settlers : settle[s] # None ~> settle[s] = None
    /\ stopping = "waiting" ~> wg = {}

\* Nothing that goes through the scheduler starts new work once Stop has been
\* called: neither a timer's callback nor a zero-delay After.
NothingStartsAfterStop ==
    [][stopped => /\ \A e \in Entries : cb'[e] = "fn" => cb[e] = "fn"
                  /\ \A i \in Inlines : inline'[i] = "fn" => inline[i] = "fn"]_vars

=============================================================================

----------------------------- MODULE LambdaPool -----------------------------
(* lambda.InstancePool: the warm containers of every Lambda function, and the
   admission of invocations against reserved concurrency, the instance limits
   and the memory budget.

   A call is one goroutine: an invocation (Acquire, the invocation itself,
   Release), a management call (update, deletion, reservation, sweep, a died
   container, Stop), or a background goroutine that fills a reservation or
   initialises a function ahead of traffic.  The unit of interleaving is one
   critical section of p.mu.  A container that has left the maps is closed
   after the unlock, by the goroutine that took it out: it is in that call's
   `drop', and the call does nothing else until its drop is empty.

   A Config is the snapshot of a function record that a call holds: it stands
   for functionInstanceIdentity, MemorySize and ReservedConcurrency together.
   Which of several equally eligible idle containers is taken (lastUsed) and
   when one is idle for too long are left open.                              *)

EXTENDS Integers, FiniteSets

CONSTANTS
    Functions,       \* function names
    Configs,         \* snapshots of function records
    NameOf,          \* the function a snapshot is of
    MemoryOf,        \* its MemorySize
    ReservedOf,      \* its reserved concurrency, or -1
    PinsOf,          \* what debugPinned may find of a function whenever it is asked
    MaxWarm, MaxInstances, MaxPerFunction,
    MaxMemory,       \* the memory budget; 0 is unlimited
    Targets,         \* the targets SetProvisionedConcurrency is called with
    Calls,           \* bound: the goroutines of a behaviour
    Instances,       \* bound: the containers of a behaviour
    None

ASSUME PoolAssumption ==
    /\ IsFiniteSet(Functions) /\ NameOf \in [Configs -> Functions]
    /\ MemoryOf \in [Configs -> Nat \ {0}]
    /\ ReservedOf \in [Configs -> Nat \cup {-1}]
    /\ PinsOf \in [Functions -> (SUBSET BOOLEAN) \ {{}}]
    /\ MaxWarm \in Nat \ {0} /\ MaxInstances \in Nat \ {0} /\ MaxPerFunction \in Nat \ {0}
    /\ MaxMemory \in Nat
    /\ Targets \subseteq Nat \ {0}
    /\ Calls \subseteq Nat /\ IsFiniteSet(Calls)
    /\ Instances \subseteq Nat /\ IsFiniteSet(Instances)
    /\ None \notin Configs /\ None \notin Instances

VARIABLES
    \* --- InstancePool
    warm,            \* the idle instances (entries)
    checkedOut,      \* per function: slots granted
    expected,        \* per function: the identity it should run with, or None
    evicted,         \* functions deleted and not seen since
    provisioned,     \* per function: the snapshot behind its reservation, or None
    target,          \* per function: the size of its reservation
    provInst,        \* provisionedInstances: environments that hold a reservation
    provPending,     \* per function: starts claimed by replenish goroutines
    booked,          \* instances with an entry in liveMemMB
    pendingMem, reservedMem,
    stopped,         \* "no", "closing" (stopCh closed), "yes" (maps are nil)
    \* --- the goroutines
    pc, kind,
    cfg,             \* the snapshot a call works with
    inst,            \* the instance it holds
    drop,            \* instances it has taken out of the maps and must close
    doomed,          \* cold starts marked by EvictFunction (coldStart.evicted)
    left, claimed,   \* of a replenish goroutine: starts to do, starts claimed
    limit,           \* admit's perFunction, computed once, of a call that has queued
    \* --- the containers
    made,            \* what an instance was created from, None if it was not
    closed,          \* destroyed
    prewarmed        \* history: created for a reservation

bookVars == <<booked, pendingMem, reservedMem>>
provVars == <<provisioned, target, provInst, provPending>>
callVars == <<pc, kind, cfg, inst, drop, doomed, left, claimed, limit>>
contVars == <<made, closed, prewarmed>>
vars == <<warm, checkedOut, expected, evicted, provVars, bookVars, stopped,
          callVars, contVars>>

Init ==
    /\ warm = {} /\ evicted = {} /\ provInst = {} /\ booked = {}
    /\ checkedOut = [f \in Functions |-> 0]
    /\ expected = [f \in Functions |-> None]
    /\ provisioned = [f \in Functions |-> None]
    /\ target = [f \in Functions |-> 0]
    /\ provPending = [f \in Functions |-> 0]
    /\ pendingMem = 0 /\ reservedMem = 0
    /\ stopped = "no"
    /\ pc = [g \in Calls |-> "unused"]
    /\ kind = [g \in Calls |-> "none"]
    /\ cfg = [g \in Calls |-> None]
    /\ inst = [g \in Calls |-> None]
    /\ drop = [g \in Calls |-> {}]
    /\ doomed = {}
    /\ left = [g \in Calls |-> 0] /\ claimed = [g \in Calls |-> 0]
    /\ limit = [g \in Calls |-> 0]
    /\ made = [i \in Instances |-> None]
    /\ closed = {} /\ prewarmed = {}

-----------------------------------------------------------------------------
(* Helpers of the critical sections. *)

Nil == stopped = "yes"

Fn(g) == NameOf[cfg[g]]
FnOf(i) == NameOf[made[i]]
WarmOf(f) == {i \in warm : FnOf(i) = f}

\* The next goroutine, the next container.
FreshCall(g) ==
    /\ pc[g] = "unused"
    /\ \A h \in Calls : h < g => pc[h] # "unused"
FreshInst(i) ==
    /\ made[i] = None
    /\ \A j \in Instances : j < i => made[j] # None

\* A call that may take its next step: it has nothing left to close.
At(g, label) == pc[g] = label /\ drop[g] = {}

\* signalSlotFreedLocked, on the labels p: everybody queued looks again.
Woken(p) ==
    [g \in Calls |-> CASE p[g] = "admitWait" -> "admit"
                       [] p[g] = "containerWait" -> "container"
                       [] OTHER -> p[g]]

Goto(g, label) == [pc EXCEPT ![g] = label]

\* noteFunctionPresentLocked
NotePresent(c) ==
    /\ expected' = [expected EXCEPT ![NameOf[c]] = c]
    /\ evicted' = evicted \ {NameOf[c]}

\* decCheckedOutLocked
Decremented(f) ==
    IF Nil THEN checkedOut
           ELSE [checkedOut EXCEPT ![f] = IF @ <= 1 THEN 0 ELSE @ - 1]

\* totalLiveLocked: idle instances and granted slots.
TotalLive ==
    Cardinality(warm) + Cardinality(UNION {{f} \X (1..checkedOut[f]) : f \in Functions})

\* Mutant: the container about to be created is not counted.
MemoryFitsNow(m) == MaxMemory = 0 \/ reservedMem <= MaxMemory

MemoryFits(m) == MaxMemory = 0 \/ reservedMem + m <= MaxMemory

OverHighWater == MaxMemory > 0 /\ reservedMem * 100 >= MaxMemory * 90

WarmCapacity(f) ==
    IF provisioned[f] # None /\ target[f] > MaxWarm THEN target[f] ELSE MaxWarm

\* The slots that a call with snapshot c may fill; one if it is debugPinned.
PerFunction(c, pin) ==
    LET cap == IF pin THEN 1 ELSE MaxPerFunction
    IN  IF ReservedOf[c] >= 0 /\ ReservedOf[c] < cap THEN ReservedOf[c] ELSE cap

OverReserved(c) == ReservedOf[c] >= 0 /\ checkedOut[NameOf[c]] >= ReservedOf[c]

-----------------------------------------------------------------------------
(* acquire: admit, takeWarm, admitContainer. *)

\* A call of Acquire that is about to look at the slots: new, or woken.
Admitting(g, c) ==
    \/ FreshCall(g)
    \/ At(g, "admit") /\ cfg[g] = c

\* perFunction: a queued call keeps the limit it came with, although the debug
\* target may come or go while it waits.
Limits(g, c) ==
    IF pc[g] = "unused" THEN {PerFunction(c, pin) : pin \in PinsOf[NameOf[c]]}
                        ELSE {limit[g]}

Invocation(g, c) ==
    /\ kind' = [kind EXCEPT ![g] = "invoke"]
    /\ cfg' = [cfg EXCEPT ![g] = c]

AdmitThrottle(g, c) ==
    /\ Admitting(g, c) /\ (Nil \/ OverReserved(c))
    /\ Invocation(g, c)
    /\ pc' = Goto(g, "over")
    /\ UNCHANGED <<warm, checkedOut, expected, evicted, provVars, bookVars,
                   stopped, inst, drop, doomed, left, claimed, limit, contVars>>

\* Mutant: an invocation is let in when the slots are all taken.
SlotFreeOffByOne(c, n) == ~OverReserved(c) /\ checkedOut[NameOf[c]] <= n

SlotFree(c, n) == ~OverReserved(c) /\ checkedOut[NameOf[c]] < n

AdmitGrant(g, c) ==
    /\ Admitting(g, c) /\ ~Nil
    /\ \E n \in Limits(g, c) : SlotFree(c, n)
    /\ Invocation(g, c)
    /\ checkedOut' = [checkedOut EXCEPT ![NameOf[c]] = @ + 1]
    /\ pc' = Goto(g, "takeWarm")
    /\ UNCHANGED <<warm, expected, evicted, provVars, bookVars, stopped, inst,
                   drop, doomed, left, claimed, limit, contVars>>

AdmitQueue(g, c) ==
    /\ Admitting(g, c) /\ ~Nil /\ ~OverReserved(c)
    /\ \E n \in Limits(g, c) : ~SlotFree(c, n) /\ limit' = [limit EXCEPT ![g] = n]
    /\ Invocation(g, c)
    /\ pc' = Goto(g, "admitWait")
    /\ UNCHANGED <<warm, checkedOut, expected, evicted, provVars, bookVars,
                   stopped, inst, drop, doomed, left, claimed, contVars>>

\* The idle instances of a function that were built from something else.
Stale(c) == {i \in WarmOf(NameOf[c]) : made[i] # c}

TakeWarm(g) ==
    /\ At(g, "takeWarm") /\ ~Nil
    /\ NotePresent(cfg[g])
    /\ LET c == cfg[g]
           usable == WarmOf(NameOf[c]) \ Stale(c) IN
         \/ \E i \in usable :
              /\ inst' = [inst EXCEPT ![g] = i]
              /\ warm' = warm \ (Stale(c) \cup {i})
              /\ pc' = Goto(g, "running")
         \/ /\ usable = {}
            /\ warm' = warm \ Stale(c)
            /\ pc' = Goto(g, "container")
            /\ UNCHANGED inst
    /\ drop' = [drop EXCEPT ![g] = Stale(cfg[g])]
    /\ UNCHANGED <<checkedOut, provVars, bookVars, stopped, kind, cfg, doomed,
                   left, claimed, limit, contVars>>

\* The pool stopped meanwhile.
AcquireStopped(g) ==
    /\ Nil
    /\ \/ At(g, "takeWarm") /\ pc' = Goto(g, "container")
       \/ At(g, "container") /\ pc' = Goto(g, "releaseSlot")
    /\ UNCHANGED <<warm, checkedOut, expected, evicted, provVars, bookVars,
                   stopped, kind, cfg, inst, drop, doomed, left, claimed, limit, contVars>>

\* Mutant: only memory is checked.
FitsMemory(c) == MemoryFits(MemoryOf[c])

Fits(c) == TotalLive <= MaxInstances /\ MemoryFits(MemoryOf[c])

AdmitContainer(g) ==
    /\ At(g, "container") /\ ~Nil /\ Fits(cfg[g])
    /\ pendingMem' = pendingMem + MemoryOf[cfg[g]]
    /\ reservedMem' = reservedMem + MemoryOf[cfg[g]]
    /\ pc' = Goto(g, "start")
    /\ UNCHANGED <<warm, checkedOut, expected, evicted, provVars, booked,
                   stopped, kind, cfg, inst, drop, doomed, left, claimed, limit, contVars>>

\* Idle, and not holding a reservation.
Reclaimable == warm \ provInst

\* reclaimIdleLocked: another function's instance before one's own.
Victims(f) ==
    IF Reclaimable \ WarmOf(f) # {} THEN Reclaimable \ WarmOf(f) ELSE Reclaimable

ReclaimIdle(g) ==
    /\ At(g, "container") /\ ~Nil /\ ~Fits(cfg[g])
    /\ \E i \in Victims(Fn(g)) :
         /\ warm' = warm \ {i}
         /\ drop' = [drop EXCEPT ![g] = {i}]
    /\ pc' = Goto(g, "reclaimed")
    /\ UNCHANGED <<checkedOut, expected, evicted, provVars, bookVars, stopped,
                   kind, cfg, inst, doomed, left, claimed, limit, contVars>>

\* The victim is closed: signal, and try again.
Reclaimed(g) ==
    /\ At(g, "reclaimed")
    /\ pc' = Woken(Goto(g, "container"))
    /\ UNCHANGED <<warm, checkedOut, expected, evicted, provVars, bookVars,
                   stopped, kind, cfg, inst, drop, doomed, left, claimed, limit, contVars>>

ContainerQueue(g) ==
    /\ At(g, "container") /\ ~Nil /\ ~Fits(cfg[g]) /\ Victims(Fn(g)) = {}
    /\ pc' = Goto(g, "containerWait")
    /\ UNCHANGED <<warm, checkedOut, expected, evicted, provVars, bookVars,
                   stopped, kind, cfg, inst, drop, doomed, left, claimed, limit, contVars>>

\* waitForSlot: the context ends first.
WaitTimeout(g) ==
    /\ \/ At(g, "admitWait") /\ pc' = Goto(g, "over")
       \/ At(g, "containerWait") /\ pc' = Goto(g, "releaseSlot")
    /\ UNCHANGED <<warm, checkedOut, expected, evicted, provVars, bookVars,
                   stopped, kind, cfg, inst, drop, doomed, left, claimed, limit, contVars>>

-----------------------------------------------------------------------------
(* Cold starts. *)

Admitted(g) == kind[g] \in {"invoke", "proactive"}

BeginColdStart(g) ==
    /\ At(g, "start")
    /\ pc' = Goto(g, "creating")
    /\ UNCHANGED <<warm, checkedOut, expected, evicted, provVars, bookVars,
                   stopped, kind, cfg, inst, drop, doomed, left, claimed, limit, contVars>>

\* The runtime has made a container, i, or failed, and finishColdStart: an
\* admitted call gives everything back if it failed or its function went away.
FinishAdmitted(g, made1, i) ==
    /\ Admitted(g)
    /\ inst' = [inst EXCEPT ![g] = i]
    /\ pc' = Goto(g, IF g \in doomed \/ i = None THEN "unreserve" ELSE "commit")
    /\ made' = made1
    /\ UNCHANGED <<drop, left, prewarmed>>

\* A replenish goroutine goes on after a failure and stops if the function
\* went away.
FinishReserved(g, made1, i) ==
    /\ kind[g] = "replenish"
    /\ made' = made1
    /\ prewarmed' = prewarmed \cup ({i} \ {None})
    /\ IF g \in doomed
       THEN /\ drop' = [drop EXCEPT ![g] = {i} \ {None}]
            /\ left' = [left EXCEPT ![g] = 0]
            /\ pc' = Goto(g, "loop")
            /\ UNCHANGED inst
       ELSE /\ inst' = [inst EXCEPT ![g] = i]
            /\ left' = [left EXCEPT ![g] = @ - 1]
            /\ pc' = Goto(g, IF i = None THEN "loop" ELSE "mark")
            /\ UNCHANGED drop

FinishColdStart(g) ==
    /\ At(g, "creating")
    /\ \/ \E i \in Instances :
            /\ FreshInst(i)
            /\ LET made1 == [made EXCEPT ![i] = cfg[g]]
               IN  FinishAdmitted(g, made1, i) \/ FinishReserved(g, made1, i)
       \/ FinishAdmitted(g, made, None) \/ FinishReserved(g, made, None)
    /\ UNCHANGED <<warm, checkedOut, expected, evicted, provVars, bookVars,
                   stopped, kind, cfg, doomed, claimed, limit, closed>>

\* Mutant: a failed cold start keeps its reservation of memory.
UnreserveNothing(g) ==
    /\ At(g, "unreserve")
    /\ pc' = Goto(g, "releaseSlot")
    /\ UNCHANGED <<warm, checkedOut, expected, evicted, provVars, bookVars,
                   stopped, kind, cfg, inst, drop, doomed, left, claimed, limit, contVars>>

\* unreservePendingMem
UnreservePendingMem(g) ==
    /\ At(g, "unreserve")
    /\ IF Nil
       THEN pc' = Goto(g, "releaseSlot") /\ UNCHANGED <<pendingMem, reservedMem>>
       ELSE /\ pendingMem' = pendingMem - MemoryOf[cfg[g]]
            /\ reservedMem' = reservedMem - MemoryOf[cfg[g]]
            /\ pc' = Woken(Goto(g, "releaseSlot"))
    /\ UNCHANGED <<warm, checkedOut, expected, evicted, provVars, booked,
                   stopped, kind, cfg, inst, drop, doomed, left, claimed, limit, contVars>>

\* releaseSlot, and what is left of abandonColdStart: the container that came
\* up for a deleted function is closed.
ReleaseSlot(g) ==
    /\ At(g, "releaseSlot")
    /\ checkedOut' = Decremented(Fn(g))
    /\ drop' = [drop EXCEPT ![g] = {inst[g]} \ {None}]
    /\ inst' = [inst EXCEPT ![g] = None]
    /\ pc' = Woken(Goto(g, "over"))
    /\ UNCHANGED <<warm, expected, evicted, provVars, bookVars, stopped, kind,
                   cfg, doomed, left, claimed, limit, contVars>>

CommitPendingMem(g) ==
    /\ At(g, "commit")
    /\ IF Nil THEN UNCHANGED bookVars
              ELSE /\ pendingMem' = pendingMem - MemoryOf[cfg[g]]
                   /\ booked' = booked \cup {inst[g]}
                   /\ UNCHANGED reservedMem
    /\ pc' = Goto(g, "running")
    /\ UNCHANGED <<warm, checkedOut, expected, evicted, provVars, stopped, kind,
                   cfg, inst, drop, doomed, left, claimed, limit, contVars>>

-----------------------------------------------------------------------------
(* Release and closeInstance. *)

\* Mutant: the marker of a deleted function is not looked at.
RetiredByIdentityOnly(i) ==
    expected[FnOf(i)] # None /\ expected[FnOf(i)] # made[i]

\* The function was deleted or changed while the invocation was in flight.
Retired(i) ==
    \/ FnOf(i) \in evicted
    \/ expected[FnOf(i)] # None /\ expected[FnOf(i)] # made[i]

Kept(i) ==
    /\ ~Nil /\ ~Retired(i)
    /\ ~(OverHighWater /\ i \notin provInst)
    /\ Cardinality(WarmOf(FnOf(i))) < WarmCapacity(FnOf(i))

\* Where a call goes on when Release and what follows it is done.
AfterRelease(g) == IF kind[g] = "replenish" THEN "loop" ELSE "over"

Release(g, usable) ==
    /\ At(g, "running")
    /\ checkedOut' = Decremented(Fn(g))
    /\ LET i == inst[g]
           keep == usable /\ Kept(i)
           again == ~usable \/ (~Nil /\ Retired(i)) IN
         /\ warm' = IF keep THEN warm \cup {i} ELSE warm
         /\ drop' = [drop EXCEPT ![g] = IF keep THEN {} ELSE {i}]
         /\ pc' = Woken(Goto(g, IF again THEN "replenish" ELSE AfterRelease(g)))
    /\ inst' = [inst EXCEPT ![g] = None]
    /\ UNCHANGED <<expected, evicted, provVars, bookVars, stopped, kind, cfg,
                   doomed, left, claimed, limit, contVars>>

\* Mutant: memory is given back without a signal.
ReleaseUnsignalled(i) ==
    IF i \in booked
    THEN /\ booked' = booked \ {i}
         /\ reservedMem' = reservedMem - MemoryOf[made[i]]
         /\ UNCHANGED pc
    ELSE UNCHANGED <<booked, reservedMem, pc>>

\* releaseLiveMemLocked
ReleaseLiveMem(i) ==
    IF i \in booked
    THEN /\ booked' = booked \ {i}
         /\ reservedMem' = reservedMem - MemoryOf[made[i]]
         /\ pc' = Woken(pc)
    ELSE UNCHANGED <<booked, reservedMem, pc>>

\* closeInstance, of one of the instances the call has taken out.
CloseInstance(g) ==
    /\ \E i \in drop[g] :
         /\ provInst' = provInst \ {i}
         /\ ReleaseLiveMem(i)
         /\ closed' = closed \cup {i}
         /\ drop' = [drop EXCEPT ![g] = @ \ {i}]
    /\ UNCHANGED <<warm, checkedOut, expected, evicted, provisioned, target,
                   provPending, pendingMem, stopped, kind, cfg, inst, doomed,
                   left, claimed, limit, made, prewarmed>>

-----------------------------------------------------------------------------
(* Provisioned concurrency: replenishProvisioned and its goroutine. *)

Room(f, pin) ==
    IF pin THEN 1 - Cardinality(WarmOf(f)) - checkedOut[f] - provPending[f]
           ELSE target[f]

Shortfall(f, pin) ==
    LET want == target[f] - Cardinality({i \in provInst : FnOf(i) = f}) - provPending[f]
    IN  IF want > Room(f, pin) THEN Room(f, pin) ELSE want

NeedsReplenish(f, n) == ~Nil /\ provisioned[f] # None /\ n > 0

Replenish(g) ==
    /\ At(g, "replenish")
    /\ LET f == Fn(g)
           more == AfterRelease(g) IN
         \E pin \in PinsOf[f] : LET n == Shortfall(f, pin) IN
         \/ /\ ~NeedsReplenish(f, n)
            /\ pc' = Goto(g, more)
            /\ UNCHANGED <<provPending, kind, cfg, left, claimed>>
         \/ \E h \in Calls :
              /\ NeedsReplenish(f, n) /\ FreshCall(h)
              /\ provPending' = [provPending EXCEPT ![f] = @ + n]
              /\ pc' = [pc EXCEPT ![g] = more, ![h] = "spawned"]
              /\ kind' = [kind EXCEPT ![h] = "replenish"]
              /\ cfg' = [cfg EXCEPT ![h] = provisioned[f]]
              /\ left' = [left EXCEPT ![h] = n]
              /\ claimed' = [claimed EXCEPT ![h] = n]
    /\ UNCHANGED <<warm, checkedOut, expected, evicted, provisioned, target,
                   provInst, bookVars, stopped, inst, drop, doomed, limit, contVars>>

\* warmWG.Add, and the goroutine starts.
Spawn(g) ==
    /\ At(g, "spawned")
    /\ pc' = Goto(g, IF kind[g] = "replenish" THEN "loop" ELSE "start")
    /\ UNCHANGED <<warm, checkedOut, expected, evicted, provVars, bookVars,
                   stopped, kind, cfg, inst, drop, doomed, left, claimed, limit, contVars>>

\* The loop of a replenish goroutine: the next start, or, when all are done or
\* the pool is stopping, clearProvisionedPending.
ReplenishStart(g) ==
    /\ At(g, "loop") /\ left[g] > 0 /\ stopped = "no"
    /\ pc' = Goto(g, "creating")
    /\ UNCHANGED <<warm, checkedOut, expected, evicted, provVars, bookVars,
                   stopped, kind, cfg, inst, drop, doomed, left, claimed, limit, contVars>>

ReplenishEnd(g) ==
    /\ At(g, "loop") /\ (left[g] = 0 \/ stopped # "no")
    /\ pc' = Goto(g, "over")
    /\ provPending' = IF Nil THEN provPending
                             ELSE [provPending EXCEPT ![Fn(g)] = @ - claimed[g]]
    /\ UNCHANGED <<warm, checkedOut, expected, evicted, provisioned, target,
                   provInst, bookVars, stopped, kind, cfg, inst, drop, doomed,
                   left, claimed, limit, contVars>>

MarkProvisioned(g) ==
    /\ At(g, "mark")
    /\ provInst' = IF Nil THEN provInst ELSE provInst \cup {inst[g]}
    /\ pc' = Goto(g, "register")
    /\ UNCHANGED <<warm, checkedOut, expected, evicted, provisioned, target,
                   provPending, bookVars, stopped, kind, cfg, inst, drop, doomed,
                   left, claimed, limit, contVars>>

RegisterLiveMem(g) ==
    /\ At(g, "register")
    /\ IF Nil THEN UNCHANGED <<booked, reservedMem>>
              ELSE /\ booked' = booked \cup {inst[g]}
                   /\ reservedMem' = reservedMem + MemoryOf[cfg[g]]
    /\ pc' = Goto(g, "borrow")
    /\ UNCHANGED <<warm, checkedOut, expected, evicted, provVars, pendingMem,
                   stopped, kind, cfg, inst, drop, doomed, left, claimed, limit, contVars>>

\* Mutant: the slot that Release gives back is not borrowed first.
BorrowNothing(g) ==
    /\ At(g, "borrow")
    /\ pc' = Goto(g, "running")
    /\ UNCHANGED <<warm, checkedOut, expected, evicted, provVars, bookVars,
                   stopped, kind, cfg, inst, drop, doomed, left, claimed, limit, contVars>>

\* The slot that Release will give back.
BorrowSlot(g) ==
    /\ At(g, "borrow")
    /\ checkedOut' = IF Nil THEN checkedOut ELSE [checkedOut EXCEPT ![Fn(g)] = @ + 1]
    /\ pc' = Goto(g, "running")
    /\ UNCHANGED <<warm, expected, evicted, provVars, bookVars, stopped, kind,
                   cfg, inst, drop, doomed, left, claimed, limit, contVars>>

\* ProactiveInit, when nothing stands in the way.
ProactiveInit(g, c) ==
    /\ FreshCall(g) /\ ~Nil
    /\ ReservedOf[c] # 0
    /\ provisioned[NameOf[c]] = None
    /\ WarmOf(NameOf[c]) = {} /\ checkedOut[NameOf[c]] = 0
    /\ TotalLive + 1 <= MaxInstances /\ MemoryFits(MemoryOf[c]) /\ ~OverHighWater
    /\ NotePresent(c)
    /\ checkedOut' = [checkedOut EXCEPT ![NameOf[c]] = @ + 1]
    /\ pendingMem' = pendingMem + MemoryOf[c]
    /\ reservedMem' = reservedMem + MemoryOf[c]
    /\ pc' = Goto(g, "spawned")
    /\ kind' = [kind EXCEPT ![g] = "proactive"]
    /\ cfg' = [cfg EXCEPT ![g] = c]
    /\ UNCHANGED <<warm, provVars, booked, stopped, inst, drop, doomed, left,
                   claimed, limit, contVars>>

-----------------------------------------------------------------------------
(* Management calls. *)

\* A management call: it takes `out' out of the warm set, closes it and goes on
\* at label, with snapshot c if it needs one.
Manage(g, c, out, label) ==
    /\ FreshCall(g)
    /\ kind' = [kind EXCEPT ![g] = "manage"]
    /\ cfg' = [cfg EXCEPT ![g] = c]
    /\ warm' = warm \ out
    /\ drop' = [drop EXCEPT ![g] = out]
    /\ pc' = Goto(g, label)
    /\ UNCHANGED <<checkedOut, provPending, bookVars, stopped, inst, left,
                   claimed, limit, contVars>>

Starting(f) == {h \in Calls : pc[h] = "creating" /\ Fn(h) = f}

EvictFunction(g, f) ==
    /\ Manage(g, None, WarmOf(f), "over")
    /\ expected' = [expected EXCEPT ![f] = None]
    /\ provisioned' = [provisioned EXCEPT ![f] = None]
    /\ target' = [target EXCEPT ![f] = 0]
    /\ provInst' = {i \in provInst : FnOf(i) # f}
    /\ evicted' = evicted \cup {f}
    /\ doomed' = doomed \cup Starting(f)

InvalidateFunction(g, c) ==
    /\ ~Nil
    /\ NotePresent(c)
    /\ provisioned' = [provisioned EXCEPT ![NameOf[c]] = IF @ = None THEN None ELSE c]
    /\ Manage(g, c, Stale(c),
              IF provisioned[NameOf[c]] = None THEN "over" ELSE "replenish")
    /\ UNCHANGED <<target, provInst, doomed>>

\* handleContainerDied, of an idle container.
HandleContainerDied(g, i) ==
    /\ i \in warm
    /\ Manage(g, made[i], {i}, "replenish")
    /\ UNCHANGED <<expected, evicted, provisioned, target, provInst, doomed>>

SetProvisionedConcurrency(g, c, n) ==
    /\ ~Nil
    /\ NotePresent(c)
    /\ provisioned' = [provisioned EXCEPT ![NameOf[c]] = c]
    /\ target' = [target EXCEPT ![NameOf[c]] = n]
    /\ Manage(g, c, {}, "replenish")
    /\ UNCHANGED <<provInst, doomed>>

ClearProvisionedConcurrency(g, f) ==
    /\ provisioned' = [provisioned EXCEPT ![f] = None]
    /\ target' = [target EXCEPT ![f] = 0]
    /\ provInst' = {i \in provInst : FnOf(i) # f}
    /\ Manage(g, None, {}, "over")
    /\ UNCHANGED <<expected, evicted, doomed>>

\* sweep: instances that hold no reservation and have been idle for too long.
Sweep(g) ==
    /\ \E out \in SUBSET Reclaimable :
         out # {} /\ Manage(g, None, out, "over")
    /\ UNCHANGED <<expected, evicted, provisioned, target, provInst, doomed>>

\* Stop closes stopCh and waits for the background goroutines that have called
\* warmWG.Add, then drops all the maps and closes what was idle.
StopBegin(g) ==
    /\ FreshCall(g) /\ stopped = "no"
    /\ stopped' = "closing"
    /\ kind' = [kind EXCEPT ![g] = "manage"]
    /\ pc' = Goto(g, "stopWait")
    /\ UNCHANGED <<warm, checkedOut, expected, evicted, provVars, bookVars,
                   cfg, inst, drop, doomed, left, claimed, limit, contVars>>

Background == {h \in Calls : /\ kind[h] \in {"proactive", "replenish"}
                             /\ pc[h] # "spawned"
                             /\ ~At(h, "over")}

Stop(g) ==
    /\ At(g, "stopWait") /\ Background = {}
    /\ stopped' = "yes"
    /\ warm' = {} /\ drop' = [drop EXCEPT ![g] = warm]
    /\ checkedOut' = [f \in Functions |-> 0]
    /\ expected' = [f \in Functions |-> None]
    /\ provisioned' = [f \in Functions |-> None]
    /\ target' = [f \in Functions |-> 0]
    /\ provPending' = [f \in Functions |-> 0]
    /\ provInst' = {} /\ booked' = {} /\ pendingMem' = 0 /\ reservedMem' = 0
    /\ pc' = Woken(Goto(g, "over"))
    /\ UNCHANGED <<evicted, kind, cfg, inst, doomed, left, claimed, limit, contVars>>

-----------------------------------------------------------------------------
Acquire(g) ==
    \/ \E c \in Configs : AdmitThrottle(g, c) \/ AdmitGrant(g, c) \/ AdmitQueue(g, c)
    \/ TakeWarm(g) \/ AcquireStopped(g)
    \/ AdmitContainer(g) \/ ReclaimIdle(g) \/ Reclaimed(g) \/ ContainerQueue(g)
    \/ WaitTimeout(g)

ColdStart(g) ==
    \/ BeginColdStart(g) \/ FinishColdStart(g) \/ UnreservePendingMem(g)
    \/ ReleaseSlot(g) \/ CommitPendingMem(g)

ReplenishLoop(g) ==
    \/ Replenish(g) \/ Spawn(g) \/ ReplenishStart(g) \/ ReplenishEnd(g)
    \/ MarkProvisioned(g) \/ RegisterLiveMem(g) \/ BorrowSlot(g)

ReleaseAny(g) == \E usable \in BOOLEAN : Release(g, usable)

Management(g) ==
    \/ \E f \in Functions : EvictFunction(g, f) \/ ClearProvisionedConcurrency(g, f)
    \/ \E c \in Configs : InvalidateFunction(g, c) \/ ProactiveInit(g, c)
    \/ \E c \in Configs, n \in Targets : SetProvisionedConcurrency(g, c, n)
    \/ \E i \in Instances : HandleContainerDied(g, i)
    \/ Sweep(g) \/ StopBegin(g) \/ Stop(g)

Next == \E g \in Calls :
    Acquire(g) \/ ColdStart(g) \/ ReplenishLoop(g) \/ ReleaseAny(g)
        \/ CloseInstance(g) \/ Management(g)

Spec == Init /\ [][Next]_vars

-----------------------------------------------------------------------------
(* Properties. *)

Labels == {"unused", "admit", "admitWait", "takeWarm", "container", "reclaimed",
           "containerWait", "start", "creating", "unreserve", "releaseSlot",
           "commit", "running", "replenish", "spawned", "loop", "mark",
           "register", "borrow", "stopWait", "over"}

\* The variables have their types.
TypeOK ==
    /\ warm \subseteq Instances /\ provInst \subseteq Instances
    /\ booked \subseteq Instances /\ closed \subseteq Instances
    /\ prewarmed \subseteq Instances
    /\ evicted \subseteq Functions /\ doomed \subseteq Calls
    /\ checkedOut \in [Functions -> Nat] /\ target \in [Functions -> Nat]
    /\ provPending \in [Functions -> Int]
    /\ expected \in [Functions -> Configs \cup {None}]
    /\ provisioned \in [Functions -> Configs \cup {None}]
    /\ pendingMem \in Int /\ reservedMem \in Int
    /\ stopped \in {"no", "closing", "yes"}
    /\ pc \in [Calls -> Labels]
    /\ kind \in [Calls -> {"none", "invoke", "proactive", "replenish", "manage"}]
    /\ cfg \in [Calls -> Configs \cup {None}]
    /\ inst \in [Calls -> Instances \cup {None}]
    /\ drop \in [Calls -> SUBSET Instances]
    /\ left \in [Calls -> Nat] /\ claimed \in [Calls -> Nat] /\ limit \in [Calls -> Nat]
    /\ made \in [Instances -> Configs \cup {None}]

\* The calls that have been granted a slot and have not given it back.
SlotHolders ==
    {g \in Calls :
        \/ kind[g] = "invoke" /\ pc[g] \in {"takeWarm", "container", "reclaimed",
              "containerWait", "start", "creating", "unreserve", "releaseSlot",
              "commit", "running"}
        \/ kind[g] = "proactive" /\ pc[g] \in {"spawned", "start", "creating",
              "unreserve", "releaseSlot", "commit", "running"}
        \/ kind[g] = "replenish" /\ pc[g] = "running"}

HoldersOf(f) == {g \in SlotHolders : Fn(g) = f}

\* Every slot is given back exactly once, whichever way a call ends: the count
\* that admission goes by is the number of calls that hold a slot.
SlotBooks ==
    ~Nil => \A f \in Functions : checkedOut[f] = Cardinality(HoldersOf(f))

\* The calls that have reserved memory for a container that is not booked yet.
PendingCalls ==
    {g \in Calls : /\ Admitted(g)
                   /\ pc[g] \in {"spawned", "start", "creating", "unreserve", "commit"}}

\* One element per megabyte, so that a sum of sizes is a cardinality.
Units(S, mem) == UNION {{x} \X (1..mem[x]) : x \in S}
CallMem == [g \in Calls |-> IF cfg[g] = None THEN 0 ELSE MemoryOf[cfg[g]]]
InstMem == [i \in Instances |-> IF made[i] = None THEN 0 ELSE MemoryOf[made[i]]]
Sum(S, mem) == Cardinality(Units(S, mem))

\* The memory budget's books: what is reserved is what live containers and
\* cold starts in flight hold, through failures, evictions and late closes.
MemoryBooks ==
    ~Nil => /\ pendingMem = Sum(PendingCalls, CallMem)
            /\ reservedMem = pendingMem + Sum(booked, InstMem)

\* The containers that exist.
Live == {i \in Instances : made[i] # None} \ closed

Owns(g, i) == inst[g] = i \/ i \in drop[g]

\* Every container that exists has exactly one owner: the warm set, a call that
\* works with it, or a call that is about to close it.  Concurrent invocations
\* never share one, and there is none that nobody will reclaim.
OneOwner ==
    \A i \in Instances :
        /\ i \in warm \/ (\E g \in Calls : Owns(g, i)) <=> i \in Live
        /\ i \in warm => \A g \in Calls : ~Owns(g, i)
        /\ \A g, h \in Calls : Owns(g, i) /\ Owns(h, i) => g = h
        /\ \A g \in Calls : ~(inst[g] = i /\ i \in drop[g])

\* An invocation runs in an environment built from the snapshot it was made with.
RunsItsOwnConfig ==
    \A g \in Calls : inst[g] # None => made[inst[g]] = cfg[g]

\* A deleted function has no idle container until it is seen again, and a
\* stopped pool has none at all: what was in flight or starting at the time is
\* destroyed, never pooled.
NothingWarmIsDeleted == \A i \in warm : ~Nil /\ FnOf(i) \notin evicted

\* A container that is idle or at work is on the memory budget's books.
UsedIsBooked ==
    ~Nil => /\ warm \subseteq booked
            /\ \A g \in Calls : pc[g] \in {"borrow", "running"} => inst[g] \in booked

\* What the books hold for on-demand containers is within the budget.
WithinBudget ==
    MaxMemory > 0 /\ ~Nil => pendingMem + Sum(booked \ prewarmed, InstMem) <= MaxMemory

\* On-demand containers never take more than the memory budget, whatever
\* reservations add to the books meanwhile.
OnDemandWithinBudget == UsedIsBooked /\ WithinBudget

\* On-demand containers, without those that are being closed.
OnDemand == {i \in Live \ prewarmed : i \in warm \/ \E g \in Calls : inst[g] = i}

\* On-demand containers that exist or are being started stay within MaxInstances.
OnDemandWithinLimit ==
    ~Nil => Cardinality(OnDemand) + Cardinality({g \in PendingCalls : inst[g] = None})
               <= MaxInstances

\* Invocations of a function hold no more slots than the most generous of its
\* snapshots allows, whatever goes on in the background.
SlotLimit ==
    \A f \in Functions :
        LET held == {g \in HoldersOf(f) : Admitted(g)}
        IN  held # {} => \E c \in Configs, pin \in PinsOf[f] :
               NameOf[c] = f /\ Cardinality(held) <= PerFunction(c, pin)

\* What a queued call has found: the slots of its limit are taken, or no idle
\* container can be reclaimed, except one that lost its reservation meanwhile.
NothingToTake(g) ==
    /\ pc[g] = "admitWait" => ~Nil /\ checkedOut[Fn(g)] >= limit[g]
    /\ pc[g] = "containerWait" => ~Nil /\ Reclaimable \subseteq prewarmed

\* Somebody will signal: a container that has left the maps is still to be
\* closed, or an invocation has taken a reserved one from the warm set, and with
\* it a place, and will give back its slot.
SignalDue ==
    \E h \in Calls : \/ drop[h] \cap booked # {}
                     \/ kind[h] = "invoke" /\ inst[h] \in prewarmed

\* Nobody queues for what is there: whatever frees a slot, a place, memory or an
\* idle container wakes the queue at once, or soon.
QueuesJustified ==
    \A g \in Calls :
        /\ NothingToTake(g)
        /\ pc[g] = "containerWait" => ~Fits(cfg[g]) \/ SignalDue

\* Whoever queues for a container queues behind somebody: an idle container, or
\* a call that is not queued itself.
QueuedBehindSomebody ==
    \A g \in Calls : pc[g] = "containerWait" =>
        \/ warm # {}
        \/ \E h \in Calls : /\ pc[h] \notin {"unused", "admitWait", "containerWait"}
                            /\ ~At(h, "over")

\* Only an environment of a function that has a reservation is exempt from
\* reclaiming and from the idle sweep.
OnlyReservedIsProtected ==
    \A i \in warm \cap provInst : provisioned[FnOf(i)] # None

\* What a call at each of its labels has.
CallShape(g) ==
    /\ pc[g] = "unused" => kind[g] = "none" /\ drop[g] = {}
    /\ pc[g] \in {"admit", "admitWait", "takeWarm", "container", "reclaimed",
                  "containerWait"} => kind[g] = "invoke"
    /\ pc[g] \in {"start", "unreserve", "releaseSlot", "commit"} => Admitted(g)
    /\ pc[g] \in {"creating", "running"} => Admitted(g) \/ kind[g] = "replenish"
    /\ pc[g] = "spawned" => kind[g] \in {"proactive", "replenish"}
    /\ pc[g] = "creating" /\ kind[g] = "replenish" => left[g] > 0
    /\ pc[g] \in {"loop", "mark", "register", "borrow"} => kind[g] = "replenish"
    /\ pc[g] = "stopWait" => kind[g] = "manage"
    /\ Admitted(g) \/ kind[g] = "replenish" \/ pc[g] = "replenish" => cfg[g] \in Configs
    /\ inst[g] # None => pc[g] \in {"unreserve", "releaseSlot", "commit",
                                   "running", "mark", "register", "borrow"}
    /\ pc[g] \in {"commit", "running", "mark", "register", "borrow"} => inst[g] # None

\* What is known of the container a call holds: who has not booked it yet.
HeldShape(g) ==
    /\ inst[g] # None /\ pc[g] \in {"unreserve", "releaseSlot", "commit"} =>
          inst[g] \notin booked /\ inst[g] \notin prewarmed
    /\ pc[g] \in {"mark", "register"} => inst[g] \notin booked /\ inst[g] \in prewarmed
    /\ pc[g] = "borrow" => inst[g] \in prewarmed

\* And of the sets of containers.
ContainerShape ==
    /\ booked \cup prewarmed \cup closed \subseteq {i \in Instances : made[i] # None}
    /\ booked \cap closed = {}
    /\ provInst \subseteq prewarmed

\* Who has what: the containers, the calls and what they hold.
Ownership ==
    /\ TypeOK /\ ContainerShape
    /\ \A g \in Calls : CallShape(g) /\ HeldShape(g)
    /\ OneOwner /\ RunsItsOwnConfig /\ NothingWarmIsDeleted

\* The inductive invariant.
PoolInv == Ownership /\ SlotBooks /\ MemoryBooks

=============================================================================

------------------------------ MODULE EventBus ------------------------------
(* events.Bus and events.History: typed and wildcard subscriptions, a rolling
   history, and a pool of workers that run the handlers from one bounded queue.

   Publish is a critical section (number, history, copy of the subscribers), the
   start of the pool, and one blocking send per handler.  Publishers are the
   callers and the workers themselves, whose handlers may publish again.       *)

EXTENDS Integers, Sequences, SequencesExt, FiniteSets

CONSTANTS
    Types,         \* event types
    Noise,         \* the types IsNoise accepts
    All,           \* the wildcard type
    Cascade,       \* type -> the types its handlers publish in turn
    Callers,       \* goroutines that publish
    Workers,       \* the pool (workerCount)
    QueueSize,     \* workQueueSize
    HistoryCap,    \* HistoryCapacity
    MaxSubs,       \* bound: calls of Subscribe
    MaxEvents,     \* bound: events published, by number of subscriptions
    None           \* no item

ASSUME BusAssumption ==
    /\ All \notin Types /\ Noise \subseteq Types
    /\ Cascade \in [Types -> SUBSET Types]
    /\ {QueueSize, HistoryCap} \subseteq Nat \ {0}
    /\ MaxSubs \in Nat /\ MaxEvents \in [0..MaxSubs -> Nat]
    /\ \A i, j \in 0..MaxSubs : i <= j => MaxEvents[j] <= MaxEvents[i]
    /\ Workers # {} /\ Callers \cap Workers = {}
    /\ None \notin [seq : Nat, h : Nat]

Publishers == Callers \cup Workers

VARIABLES
    subscribers,   \* type or All -> handlers, in slice order
    subs,          \* the subscriptions in the order of the calls: the type, and
                   \* the index the cancel function captured
    cancelled,     \* subscriptions whose cancel function was called
    seq, history,  \* the last number, and the buffered events
    workersOnce,   \* "fresh", "started", or "claimed" by Stop
    workCh,        \* the queue
    pc,            \* publisher -> "idle", "start" (unlocked), "send"
    todo,          \* publisher -> what it still has to send
    work,          \* worker -> the item its handler runs on, or None
    worker,        \* worker -> "loop", "drain" (saw stopCh), "exited"
    stop,          \* "no", "closed" (stopCh), "returned"
    \* --- history variables
    snap,          \* subscription -> the newest event its snapshot covers
    types,         \* number -> type, of every event published
    got,           \* the items whose handler returned
    victims,       \* subscriptions that another one's cancel removed
    atStop         \* what was queued when Stop closed stopCh

subVars == <<subscribers, subs, cancelled, snap, victims>>
logVars == <<seq, history, types>>
poolVars == <<workersOnce, worker, stop, atStop>>
vars == <<subVars, logVars, poolVars, workCh, pc, todo, work, got>>

Init ==
    /\ subscribers = [t \in Types \cup {All} |-> <<>>]
    /\ subs = <<>> /\ cancelled = {} /\ seq = 0 /\ history = <<>>
    /\ workersOnce = "fresh" /\ workCh = <<>>
    /\ pc = [p \in Publishers |-> "idle"] /\ todo = [p \in Publishers |-> <<>>]
    /\ work = [w \in Workers |-> None] /\ worker = [w \in Workers |-> "loop"]
    /\ stop = "no" /\ snap = <<>> /\ types = <<>> /\ got = {}
    /\ victims = {} /\ atStop = <<>>

-----------------------------------------------------------------------------
(* Subscriptions. *)

\* Subscribe, SubscribeAll, and SnapshotAndSubscribeAll, whose snapshot is taken
\* under the same lock.
Subscribe(t) ==
    /\ Len(subs) < MaxSubs /\ seq <= MaxEvents[Len(subs) + 1]
    /\ subscribers' = [subscribers EXCEPT ![t] = Append(@, Len(subs) + 1)]
    /\ subs' = Append(subs, [type |-> t, idx |-> Len(subscribers[t]) + 1])
    /\ snap' = Append(snap, IF history = <<>> THEN 0 ELSE Last(history).seq)
    /\ UNCHANGED <<cancelled, victims, logVars, poolVars, workCh, pc, todo, work, got>>

\* The last handler moves into the slot, and the slice shrinks by one.
SwapRemove(hs, i) == SubSeq([hs EXCEPT ![i] = Last(hs)], 1, Len(hs) - 1)

\* The first call of a cancel function; more calls change nothing.
Cancel(s) ==
    LET t  == subs[s].type
        i  == subs[s].idx
        hs == subscribers[t]
    IN /\ s \notin cancelled
       /\ cancelled' = cancelled \cup {s}
       /\ IF i > Len(hs)
            THEN UNCHANGED <<subscribers, victims>>
            ELSE /\ subscribers' = [subscribers EXCEPT ![t] = SwapRemove(hs, i)]
                 /\ victims' = victims \cup ({hs[i]} \ {s})
       /\ UNCHANGED <<subs, snap, logVars, poolVars, workCh, pc, todo, work, got>>

-----------------------------------------------------------------------------
(* Publish. *)

\* Mutant: the oldest event goes, whatever its class.
EvictOldest(h) == Tail(h)

\* evictLocked: the oldest noise, or the oldest event if there is none.
Evict(h) ==
    LET noisy == {i \in DOMAIN h : h[i].type \in Noise}
    IN  RemoveAt(h, IF noisy = {} THEN 1 ELSE CHOOSE i \in noisy : \A j \in noisy : i <= j)

\* History.Append.
Remember(h, e) == Append(IF Len(h) >= HistoryCap THEN Evict(h) ELSE h, e)

\* Mutant: the typed subscribers hide the wildcard ones.
RecipientsFirst(t) == IF subscribers[t] = <<>> THEN subscribers[All] ELSE subscribers[t]

Recipients(t) == subscribers[t] \o subscribers[All]

\* The critical section.
Publish(p, t) ==
    LET e == [seq |-> seq + 1, type |-> t]
    IN /\ pc[p] = "idle" /\ seq < MaxEvents[Len(subs)]
       /\ seq' = seq + 1
       /\ types' = Append(types, t)
       /\ history' = Remember(history, e)
       /\ todo' = [todo EXCEPT ![p] =
                      [i \in DOMAIN Recipients(t) |-> [seq |-> seq + 1, h |-> Recipients(t)[i]]]]
       /\ pc' = [pc EXCEPT ![p] = "start"]
       /\ UNCHANGED <<subVars, poolVars, workCh, work, got>>

\* Mutant: a single handler does not start the pool.
NeedsWorkersMany(p) == Len(todo[p]) > 1

NeedsWorkers(p) == Len(todo[p]) > 0

\* startWorkers, if there is somebody to notify.
StartWorkers(p) ==
    /\ pc[p] = "start"
    /\ pc' = [pc EXCEPT ![p] = IF todo[p] = <<>> THEN "idle" ELSE "send"]
    /\ workersOnce' = IF workersOnce = "fresh" /\ NeedsWorkers(p) THEN "started"
                      ELSE workersOnce
    /\ UNCHANGED <<subVars, logVars, worker, stop, atStop, workCh, todo, work, got>>

\* One send; on the nil channel of a pool that Stop claimed it blocks for ever.
Send(p) ==
    /\ pc[p] = "send" /\ workersOnce = "started" /\ Len(workCh) < QueueSize
    /\ workCh' = Append(workCh, Head(todo[p]))
    /\ todo' = [todo EXCEPT ![p] = Tail(@)]
    /\ pc' = [pc EXCEPT ![p] = IF Len(todo[p]) = 1 THEN "idle" ELSE "send"]
    /\ UNCHANGED <<subVars, logVars, poolVars, work, got>>

-----------------------------------------------------------------------------
(* The pool. *)

\* A worker receives an item, in either of its loops.
Receive(w) ==
    /\ workersOnce = "started" /\ worker[w] # "exited" /\ work[w] = None
    /\ workCh # <<>>
    /\ work' = [work EXCEPT ![w] = Head(workCh)]
    /\ workCh' = Tail(workCh)
    /\ UNCHANGED <<subVars, logVars, poolVars, pc, todo, got>>

\* The handler publishes an event of its own.
HandlerPublish(w, t) ==
    /\ work[w] # None /\ t \in Cascade[types[work[w].seq]]
    /\ Publish(w, t)

\* The handler returns.
HandlerReturn(w) ==
    /\ work[w] # None /\ pc[w] = "idle"
    /\ got' = got \cup {work[w]}
    /\ work' = [work EXCEPT ![w] = None]
    /\ UNCHANGED <<subVars, logVars, poolVars, workCh, pc, todo>>

\* The select of the main loop picks stopCh, whether or not items are queued.
SeeStop(w) ==
    /\ workersOnce = "started" /\ worker[w] = "loop" /\ work[w] = None /\ stop # "no"
    /\ worker' = [worker EXCEPT ![w] = "drain"]
    /\ UNCHANGED <<subVars, logVars, workersOnce, stop, atStop, workCh, pc, todo, work, got>>

\* Mutant: a worker leaves its loop without draining the queue.
DrainedAlways == TRUE

Drained == workCh = <<>>

Exit(w) ==
    /\ worker[w] = "drain" /\ work[w] = None /\ Drained
    /\ worker' = [worker EXCEPT ![w] = "exited"]
    /\ UNCHANGED <<subVars, logVars, workersOnce, stop, atStop, workCh, pc, todo, work, got>>

\* Stop, up to its wait: a pool that was never started is claimed and left alone.
StopBegin ==
    /\ stop = "no"
    /\ IF workersOnce = "started"
         THEN stop' = "closed" /\ atStop' = workCh /\ UNCHANGED workersOnce
         ELSE stop' = "returned" /\ workersOnce' = "claimed" /\ UNCHANGED atStop
    /\ UNCHANGED <<subVars, logVars, worker, workCh, pc, todo, work, got>>

\* wg.Wait returns.
StopReturn ==
    /\ stop = "closed" /\ \A w \in Workers : worker[w] = "exited"
    /\ stop' = "returned"
    /\ UNCHANGED <<subVars, logVars, workersOnce, worker, atStop, workCh, pc, todo, work, got>>

Next ==
    \/ \E t \in Types \cup {All} : Subscribe(t)
    \/ \E s \in DOMAIN subs : Cancel(s)
    \/ \E c \in Callers, t \in Types : Publish(c, t)
    \/ \E p \in Publishers : StartWorkers(p) \/ Send(p)
    \/ \E w \in Workers, t \in Types : HandlerPublish(w, t)
    \/ \E w \in Workers : Receive(w) \/ HandlerReturn(w) \/ SeeStop(w) \/ Exit(w)
    \/ StopBegin \/ StopReturn

Spec == Init /\ [][Next]_vars

\* Goroutines that can run do, and handlers return.
FairSpec ==
    /\ Spec
    /\ \A p \in Publishers : WF_vars(StartWorkers(p)) /\ WF_vars(Send(p))
    /\ \A w \in Workers : WF_vars(Receive(w)) /\ WF_vars(HandlerReturn(w))
    /\ \A w \in Workers : WF_vars(SeeStop(w)) /\ WF_vars(Exit(w))
    /\ WF_vars(StopReturn)

-----------------------------------------------------------------------------
(* Properties. *)

Items == [seq : 1..MaxEvents[0], h : 1..MaxSubs]

\* The variables have their types; a publisher holds items only until it has
\* sent them, and items are in the queue and in handlers only once the pool runs.
TypeOK ==
    /\ subs \in Seq([type : Types \cup {All}, idx : Nat \ {0}]) /\ Len(subs) <= MaxSubs
    /\ subscribers \in [Types \cup {All} -> Seq(DOMAIN subs)]
    /\ cancelled \subseteq DOMAIN subs /\ victims \subseteq DOMAIN subs
    /\ snap \in [DOMAIN subs -> 0..MaxEvents[0]]
    /\ seq \in 0..MaxEvents[Len(subs)] /\ types \in Seq(Types) /\ Len(types) = seq
    /\ history \in Seq([seq : 1..seq, type : Types]) /\ Len(history) <= HistoryCap
    /\ workersOnce \in {"fresh", "started", "claimed"}
    /\ workCh \in Seq(Items) /\ Len(workCh) <= QueueSize
    /\ pc \in [Publishers -> {"idle", "start", "send"}]
    /\ todo \in [Publishers -> Seq(Items)]
    /\ \A p \in Publishers : /\ pc[p] = "idle" => todo[p] = <<>>
                             /\ pc[p] = "send" => todo[p] # <<>>
    /\ work \in [Workers -> Items \cup {None}]
    /\ workCh # <<>> \/ (\E w \in Workers : work[w] # None) => workersOnce = "started"
    /\ worker \in [Workers -> {"loop", "drain", "exited"}]
    /\ stop \in {"no", "closed", "returned"}
    /\ got \subseteq Items /\ atStop \in Seq(Items)

\* In how many places an item is: to be sent, queued, in a handler, handled.
Copies(x) ==
    Cardinality({q \in Publishers \X (1..MaxSubs) :
                    q[2] <= Len(todo[q[1]]) /\ todo[q[1]][q[2]] = x})
    + Cardinality({i \in DOMAIN workCh : workCh[i] = x})
    + Cardinality({w \in Workers : work[w] = x})
    + (IF x \in got THEN 1 ELSE 0)

\* No gap and no duplicate at the boundary between a snapshot and the live tail:
\* what the snapshot covers is never delivered, and every later event of the
\* subscribed type is underway or delivered exactly once, through cancels and
\* subscriptions of others, a full queue and Stop.  A subscription that another
\* one's cancel function removed has lost its claim (see CancelIsExact).
NoGapNoDup ==
    \A s \in DOMAIN subs, n \in 1..seq :
        LET c   == Copies([seq |-> n, h |-> s])
            due == n > snap[s] /\ subs[s].type \in {types[n], All}
        IN  /\ c <= 1
            /\ ~due => c = 0
            /\ due /\ s \notin cancelled \cup victims => c = 1

Buffered == {history[i].seq : i \in DOMAIN history}
Signals == {n \in 1..seq : types[n] \notin Noise}

\* Noise never crowds out a state change: an event that is not noise leaves the
\* history only when the history is full of newer ones, but for the one place
\* the next event takes.
NoiseGoesFirst ==
    \A n \in Signals \ Buffered :
        /\ Cardinality({m \in Signals : m > n}) >= HistoryCap - 1
        /\ \A m \in Buffered : m > n

\* Stop returns only after everything queued when it was called has been handled
\* and no handler is running.
StopDrainsQueue ==
    stop = "returned" => /\ \A i \in DOMAIN atStop : atStop[i] \in got
                         /\ \A w \in Workers : work[w] = None

Handling(x) == \E w \in Workers : work[w] = x
Queued(x) == \E j \in DOMAIN workCh : workCh[j] = x

\* Why: an item that was queued at Stop is handled, in a handler or queued, and
\* no longer queued once a worker has exited; a worker exits with its hands
\* empty; and a pool that Stop found unstarted never starts.
StopInv ==
    /\ \A i \in DOMAIN atStop :
          \/ atStop[i] \in got \/ Handling(atStop[i])
          \/ Queued(atStop[i]) /\ \A w \in Workers : worker[w] # "exited"
    /\ \A w \in Workers : worker[w] = "exited" => work[w] = None
    /\ stop = "no" => \A w \in Workers : worker[w] = "loop"
    /\ workersOnce # "started" \/ stop = "no" => atStop = <<>>
    /\ stop = "returned" => \/ workersOnce = "claimed"
                            \/ \A w \in Workers : worker[w] = "exited"

\* The inductive invariant of the pool.
PoolInv == TypeOK /\ StopInv

\* The history is a part of the log, in its order, up to the last event.
LogInv ==
    /\ history = <<>> <=> seq = 0
    /\ history # <<>> => Last(history).seq = seq
    /\ \A i, j \in DOMAIN history : i < j => history[i].seq < history[j].seq
    /\ \A i \in DOMAIN history : history[i].type = types[history[i].seq]

\* A handler is in the slice of its own type, once, until a cancel takes it out.
OwnSlice ==
    \A t \in Types \cup {All} : \A i, j \in DOMAIN subscribers[t] :
        /\ subs[subscribers[t][i]].type = t
        /\ subscribers[t][i] = subscribers[t][j] => i = j
InSlice ==
    \A s \in DOMAIN subs \ (cancelled \cup victims) :
        \E i \in DOMAIN subscribers[subs[s].type] : subscribers[subs[s].type][i] = s
RoomForAll == \A t \in Types : Len(subscribers[t]) + Len(subscribers[All]) <= Len(subs)
SnapPast == \A s \in DOMAIN subs : snap[s] <= seq

SlicesInv == OwnSlice /\ InSlice /\ RoomForAll /\ SnapPast

Sending(x) == \E p \in Publishers : \E i \in DOMAIN todo[p] : todo[p][i] = x
Somewhere(x) == Sending(x) \/ Queued(x) \/ Handling(x) \/ x \in got

\* No item is in two places.
OnePlace ==
    /\ \A p, q \in Publishers : \A i \in DOMAIN todo[p], j \in DOMAIN todo[q] :
          todo[p][i] = todo[q][j] => p = q /\ i = j
    /\ \A i, j \in DOMAIN workCh : workCh[i] = workCh[j] => i = j
    /\ \A u, w \in Workers : work[u] = work[w] /\ work[u] # None => u = w
    /\ \A x \in Items : /\ Sending(x) => ~Queued(x) /\ ~Handling(x) /\ x \notin got
                        /\ Queued(x) => ~Handling(x) /\ x \notin got
                        /\ Handling(x) => x \notin got

\* The items that subscriptions are owed: what is published after the snapshot.
Due(x) ==
    /\ x.seq \in 1..seq /\ x.h \in DOMAIN subs
    /\ x.seq > snap[x.h] /\ subs[x.h].type \in {types[x.seq], All}

\* What is underway or handled is due, and what is due to a subscription that no
\* cancel function has taken out is underway or handled.
DueInv ==
    \A x \in Items :
        /\ Somewhere(x) => Due(x)
        /\ Due(x) /\ x.h \notin cancelled \cup victims => Somewhere(x)

\* The inductive invariant of the deliveries.
DeliveryInv ==
    /\ LogInv /\ SlicesInv /\ OnePlace /\ DueInv
    /\ \A p \in Publishers : Len(todo[p]) <= MaxSubs

\* The inductive invariant of the bus.
BusInv == PoolInv /\ DeliveryInv

\* Every worker that is left waits in a handler to send into a full queue, for
\* ever.
PoolIsStuck ==
    /\ Len(workCh) = QueueSize
    /\ \A w \in Workers : worker[w] = "exited" \/ (work[w] # None /\ pc[w] = "send")

\* Some publisher, the queue or a handler still has an event to deliver.
Underway ==
    \/ \E p \in Publishers : todo[p] # <<>>
    \/ workCh # <<>>
    \/ \E w \in Workers : work[w] # None

\* No drops: once publishing pauses (the bound on events makes it pause), every
\* handler that Publish owes an event has been called and has returned, unless
\* the bus is stopped or handlers that publish have blocked the pool.
EventuallyDelivered == Underway ~> ~Underway \/ stop = "returned" \/ PoolIsStuck

\* A cancel function removes its subscription and no other.
CancelIsExact ==
    \A s \in DOMAIN subs :
        s \in ToSet(subscribers[subs[s].type]) <=> s \notin cancelled

=============================================================================

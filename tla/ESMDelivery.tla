----------------------------- MODULE ESMDelivery -----------------------------
(* lambda.esmDeliveryManager: who delivers events for which event source
   mapping.  API requests write a mapping's record and then tell the manager to
   start or stop; a delivery goroutine (a poller for an SQS queue, a worker for a
   DynamoDB stream) re-reads the record before it delivers; invocations report
   their result by reading the record and writing it back; ReloadAll resumes
   after a restart, and StopAll ends everything.

   Of a record only its State is kept.  The manager's mutex makes Start, Stop
   and the critical section of StopAll atomic (Stop calls cancel just after the
   unlock), and each access to the store is one step and may fail.  What happens
   to the messages is module SQS's matter.                                   *)

EXTENDS Integers, FiniteSets

CONSTANTS
    Mappings,      \* event source mappings
    Workers,       \* bound: delivery goroutines
    Invocations,   \* bound: invocations that pollers have under way at a time
    Requests,      \* bound: API requests
    Retries,       \* MaximumRetryAttempts of a stream mapping
    None

ASSUME ESMAssumption ==
    /\ IsFiniteSet(Workers) /\ Workers \cup Requests \subseteq Nat
    /\ Workers \cap Invocations = {} /\ Workers \cap Requests = {}
    /\ Invocations \cap Requests = {}
    /\ Retries \in Nat /\ None \notin Workers

Goroutines == Workers \cup Invocations \cup Requests

VARIABLES
    queues,        \* the mappings of SQS queues; the others are of streams
    rec,           \* mapping -> the State in its record, or "none"
    \* --- esmDeliveryManager
    stop,          \* mapping -> the worker its stop entry cancels, or None
    stopped,       \* the latch
    base,          \* baseCtx is cancelled
    \* --- the goroutines
    pc,
    of,            \* the mapping a goroutine works for, or None
    seen,          \* the State in its copy of the record
    ctx,           \* workers whose context was cancelled by their stop entry
    owner,         \* invocation -> the poller that spawned it
    attempts,      \* stream worker -> attempts left for its batch
    reload,        \* ReloadAll: "wait", "start", "done", or "failed" with nothing started
    todo,          \* the mappings it has left to start
    stopper,       \* StopAll: "no", "latched", "drain", "returned"
    \* --- history variable
    raced          \* mappings with overlapping writes

callVars == <<pc, of, seen, ctx, owner, attempts>>
vars == <<queues, rec, stop, stopped, base, callVars, reload, todo, stopper, raced>>

States == {"none", "Enabled", "Disabled", "Deleting"}

\* A process starts with the records that an earlier one has left.
Init ==
    /\ queues \in SUBSET Mappings
    /\ rec \in [Mappings -> States]
    /\ stop = [m \in Mappings |-> None]
    /\ stopped = FALSE /\ base = FALSE
    /\ pc = [g \in Goroutines |-> "unused"]
    /\ of = [g \in Goroutines |-> None]
    /\ seen = [g \in Goroutines |-> "none"]
    /\ ctx = {} /\ owner = [i \in Invocations |-> None]
    /\ attempts = [w \in Workers |-> 0]
    /\ reload = "wait" /\ todo = {} /\ stopper = "no" /\ raced = {}

-----------------------------------------------------------------------------
(* The manager. *)

Cancelled(w) == w \in ctx \/ base
Alive(w) == pc[w] \notin {"unused", "ended"}
Fresh(g, S) == pc[g] = "unused" /\ \A h \in S : h < g => pc[h] # "unused"

\* ReloadAll has returned.
ReloadOver == reload \in {"done", "failed"}

\* m.wg is at zero: it counts the workers and ReloadAll.
Idle == ReloadOver /\ \A w \in Workers : ~Alive(w)

\* Mutant: shutdown is not noticed.
RunningUnlatched(m) == stop[m] # None

Running(m) == stopped \/ stop[m] # None

\* Start, on the labels p: a worker is registered, unless there is one.
Start(m, p) ==
    IF Running(m)
    THEN pc' = p /\ UNCHANGED <<stop, of>>
    ELSE \E w \in Workers :
            /\ Fresh(w, Workers)
            /\ stop' = [stop EXCEPT ![m] = w]
            /\ of' = [of EXCEPT ![w] = m]
            /\ pc' = [p EXCEPT ![w] = "select"]

\* Mutant: the entry stays.
StopKeepsEntry(m) ==
    /\ ctx' = ctx \cup ({stop[m]} \ {None})
    /\ UNCHANGED stop

\* Stop: the entry goes, and its worker's context is cancelled.
Stop(m) ==
    /\ stop' = [stop EXCEPT ![m] = None]
    /\ ctx' = ctx \cup ({stop[m]} \ {None})

-----------------------------------------------------------------------------
(* API requests: read the record, write it, tell the manager. *)

Others(r, m) == {q \in Requests \ {r} : of[q] = m /\ pc[q] # "over"}

\* A request is made: it begins with getESM (CreateEventSourceMapping has no
\* record to read).
Request(r, m, label) ==
    /\ Fresh(r, Requests)
    /\ rec[m] # "none" <=> label # "create"
    /\ of' = [of EXCEPT ![r] = m]
    /\ seen' = [seen EXCEPT ![r] = rec[m]]
    /\ pc' = [pc EXCEPT ![r] = label]
    /\ raced' = IF Others(r, m) = {} /\ ReloadOver THEN raced ELSE raced \cup {m}
    /\ UNCHANGED <<queues, rec, stop, stopped, base, ctx, owner, attempts, reload, todo, stopper>>

\* A mapping's UUID is new: nothing has ever used it.
NeverUsed(m) == \A g \in Goroutines : of[g] # m

Create(r, m) == NeverUsed(m) /\ Request(r, m, "create")
Update(r, m) == Request(r, m, "update")
Delete(r, m) == Request(r, m, "delete")

\* putESM: an update sets the State or leaves what it has read, a deletion marks
\* the record, and goes on if that fails.
PutESM(r) ==
    /\ \E s \in States \ {"none"}, fails \in BOOLEAN :
         /\ \/ pc[r] = "create" /\ s \in {"Enabled", "Disabled"}
            \/ pc[r] = "update" /\ s \in {"Enabled", "Disabled", seen[r]}
            \/ pc[r] = "delete" /\ s = "Deleting"
         /\ rec' = IF fails THEN rec ELSE [rec EXCEPT ![of[r]] = s]
         /\ seen' = [seen EXCEPT ![r] = s]
         /\ pc' = [pc EXCEPT ![r] = CASE @ = "delete" -> "stopDelete"
                                      [] fails -> "over"
                                      [] @ = "create" -> "start"
                                      [] OTHER -> "notify"]
    /\ UNCHANGED <<queues, stop, stopped, base, of, ctx, owner, attempts, reload, todo, stopper, raced>>

\* The manager is told: Start for an enabled mapping, Stop for an updated one
\* that is off.
Notify(r) ==
    /\ pc[r] \in {"start", "notify"}
    /\ LET over == [pc EXCEPT ![r] = "over"]
       IN  \/ seen[r] = "Enabled" /\ Start(of[r], over) /\ UNCHANGED ctx
          \/ /\ seen[r] # "Enabled" /\ pc' = over /\ UNCHANGED of
             /\ IF pc[r] = "notify" THEN Stop(of[r]) ELSE UNCHANGED <<stop, ctx>>
    /\ seen' = [seen EXCEPT ![r] = "none"]
    /\ UNCHANGED <<queues, rec, stopped, base, owner, attempts, reload, todo, stopper, raced>>

StopDelete(r) ==
    /\ pc[r] = "stopDelete"
    /\ Stop(of[r])
    /\ pc' = [pc EXCEPT ![r] = "deleteESM"]
    /\ UNCHANGED <<queues, rec, stopped, base, of, seen, owner, attempts, reload, todo, stopper, raced>>

\* The record goes, or the store fails and it stays with its worker told to end.
DeleteESM(r) ==
    /\ pc[r] = "deleteESM"
    /\ \/ rec' = [rec EXCEPT ![of[r]] = "none"] /\ UNCHANGED raced
       \/ raced' = raced \cup {of[r]} /\ UNCHANGED rec
    /\ pc' = [pc EXCEPT ![r] = "over"]
    /\ seen' = [seen EXCEPT ![r] = "none"]
    /\ UNCHANGED <<queues, stop, stopped, base, of, ctx, owner, attempts, reload, todo, stopper>>

-----------------------------------------------------------------------------
(* pollSQS. *)

Poller(w) == of[w] \in queues
Quiet(w) == \A i \in Invocations : owner[i] # w

\* The select of a delivery goroutine sees its context.
CtxDone(w) ==
    /\ pc[w] \in {"select", "batch", "retry"} /\ Cancelled(w)
    /\ pc' = [pc EXCEPT ![w] = "exit"]
    /\ UNCHANGED <<queues, rec, stop, stopped, base, of, seen, ctx, owner, attempts,
                   reload, todo, stopper, raced>>

\* Mutant: a poller never looks at its record again.
TickBlind(w) ==
    /\ pc[w] = "select" /\ Poller(w)
    /\ pc' = [pc EXCEPT ![w] = "receive"]
    /\ UNCHANGED <<queues, rec, stop, stopped, base, of, seen, ctx, owner, attempts,
                   reload, todo, stopper, raced>>

\* The ticker: getESM. (An error of the store only skips the tick.)
Tick(w) ==
    /\ pc[w] = "select" /\ Poller(w)
    /\ pc' = [pc EXCEPT ![w] = IF rec[of[w]] = "Enabled" THEN "receive" ELSE "exit"]
    /\ UNCHANGED <<queues, rec, stop, stopped, base, of, seen, ctx, owner, attempts,
                   reload, todo, stopper, raced>>

\* ReceiveMessages and filterAndDeleteSQS: nothing to deliver, a batch that no
\* slot is free for, or a batch for a new invocation.
Receive(w) ==
    /\ pc[w] = "receive"
    /\ \/ pc' = [pc EXCEPT ![w] = "select"] /\ UNCHANGED <<of, owner>>
       \/ pc' = [pc EXCEPT ![w] = "get"] /\ UNCHANGED <<of, owner>>
       \/ \E i \in Invocations :
            /\ pc[i] = "unused"
            /\ pc' = [pc EXCEPT ![w] = "select", ![i] = "invoke"]
            /\ of' = [of EXCEPT ![i] = of[w]]
            /\ owner' = [owner EXCEPT ![i] = w]
    /\ UNCHANGED <<queues, rec, stop, stopped, base, seen, ctx, attempts, reload, todo, stopper, raced>>

\* Mutant: the entry stays when its poller ends.
ExitKeepsEntry(w) ==
    /\ pc[w] = "exit" /\ Quiet(w)
    /\ pc' = [pc EXCEPT ![w] = "ended"]
    /\ UNCHANGED <<queues, rec, stop, stopped, base, of, seen, ctx, owner, attempts,
                   reload, todo, stopper, raced>>

\* A delivery goroutine ends: wg.Wait, and the deferred delete of a poller,
\* which takes whatever entry the mapping has by now.
Exit(w) ==
    /\ pc[w] = "exit" /\ Quiet(w)
    /\ stop' = IF Poller(w) THEN [stop EXCEPT ![of[w]] = None] ELSE stop
    /\ pc' = [pc EXCEPT ![w] = "ended"]
    /\ UNCHANGED <<queues, rec, stopped, base, of, seen, ctx, owner, attempts,
                   reload, todo, stopper, raced>>

-----------------------------------------------------------------------------
(* processStreamRecords and deliverStreamBatch. *)

\* Records arrive and the context is not cancelled.
Batch(w) ==
    /\ pc[w] = "select" /\ ~Poller(w) /\ ~Cancelled(w)
    /\ pc' = [pc EXCEPT ![w] = "batch"]
    /\ UNCHANGED <<queues, rec, stop, stopped, base, of, seen, ctx, owner, attempts,
                   reload, todo, stopper, raced>>

\* The record of the mapping is read, and nothing is delivered if it is off or
\* if no record of the batch matches the filters.
Flush(w) ==
    /\ pc[w] = "batch"
    /\ \/ /\ rec[of[w]] = "Enabled"
          /\ pc' = [pc EXCEPT ![w] = "invoke"]
          /\ attempts' = [attempts EXCEPT ![w] = Retries]
       \/ pc' = [pc EXCEPT ![w] = "select"] /\ UNCHANGED attempts
    /\ UNCHANGED <<queues, rec, stop, stopped, base, of, seen, ctx, owner, reload, todo, stopper, raced>>

\* After a failed attempt and a second's wait.
Retry(w) ==
    /\ pc[w] = "retry"
    /\ pc' = [pc EXCEPT ![w] = "invoke"]
    /\ attempts' = [attempts EXCEPT ![w] = @ - 1]
    /\ UNCHANGED <<queues, rec, stop, stopped, base, of, seen, ctx, owner, reload, todo, stopper, raced>>

-----------------------------------------------------------------------------
(* Invocations, and updateLastResult. *)

\* Where a goroutine goes when it has no more to report.
AfterResult(g) ==
    IF g \in Invocations THEN "unused"
    ELSE IF g \in Workers /\ ~Poller(g) /\ attempts[g] > 0 THEN "retry" ELSE "select"

\* The slot of an invocation that ends is free again.
Freed(f, g, v) == IF g \in Invocations /\ pc'[g] = "unused" THEN [f EXCEPT ![g] = v] ELSE f

\* The invocation ends: with a result to report, or without a function.
Invoke(g) ==
    /\ pc[g] = "invoke"
    /\ \/ pc' = [pc EXCEPT ![g] = "get"] /\ UNCHANGED attempts
       \/ /\ pc' = [pc EXCEPT ![g] = IF g \in Invocations THEN "unused" ELSE "select"]
          /\ attempts' = IF g \in Workers THEN [attempts EXCEPT ![g] = 0] ELSE attempts
    /\ of' = Freed(of, g, None) /\ owner' = Freed(owner, g, None)
    /\ UNCHANGED <<queues, rec, stop, stopped, base, seen, ctx, reload, todo, stopper, raced>>

\* A successful batch is not tried again.
ResultGet(g) ==
    /\ pc[g] = "get"
    /\ seen' = [seen EXCEPT ![g] = rec[of[g]]]
    /\ \E again \in (IF g \in Workers /\ ~Poller(g) THEN {0, attempts[g]} ELSE {0}) :
         attempts' = IF g \in Workers THEN [attempts EXCEPT ![g] = again] ELSE attempts
    /\ pc' = [pc EXCEPT ![g] = "put"]
    /\ UNCHANGED <<queues, rec, stop, stopped, base, of, ctx, owner, reload, todo, stopper, raced>>

\* The copy is written back, whatever became of the record; a store that fails
\* leaves it.
ResultPut(g) ==
    /\ pc[g] = "put"
    /\ \/ seen[g] # "none" /\ rec' = [rec EXCEPT ![of[g]] = seen[g]]
       \/ UNCHANGED rec
    /\ raced' = IF rec' = rec THEN raced ELSE raced \cup {of[g]}
    /\ seen' = [seen EXCEPT ![g] = "none"]
    /\ pc' = [pc EXCEPT ![g] = AfterResult(g)]
    /\ of' = Freed(of, g, None) /\ owner' = Freed(owner, g, None)
    /\ UNCHANGED <<queues, stop, stopped, base, ctx, attempts, reload, todo, stopper>>

-----------------------------------------------------------------------------
(* ReloadAll and StopAll. *)

\* WaitReady returns once the store is ready, which it may never be, and all
\* mappings are scanned.
ReloadList ==
    /\ reload = "wait"
    /\ reload' = "start" /\ todo' = {m \in Mappings : rec[m] = "Enabled"}
    /\ UNCHANGED <<queues, rec, stop, stopped, base, callVars, stopper, raced>>

\* WaitReady returns the error of a store that could not be seeded, or of the
\* context, or the scan fails: ReloadAll gives up, and nobody calls it again.
ReloadFails ==
    /\ reload = "wait"
    /\ reload' = "failed"
    /\ UNCHANGED <<queues, rec, stop, stopped, base, callVars, todo, stopper, raced>>

\* A cancelled context ends the wait.
ReloadCancelled == base /\ ReloadFails

ReloadStart ==
    /\ reload = "start"
    /\ \/ todo = {} /\ reload' = "done" /\ UNCHANGED <<stop, pc, of, todo>>
       \/ \E m \in todo : Start(m, pc) /\ todo' = todo \ {m} /\ UNCHANGED reload
    /\ UNCHANGED <<queues, rec, stopped, base, seen, ctx, owner, attempts, stopper, raced>>

StopAll ==
    /\ stopper = "no"
    /\ stopper' = "latched" /\ stopped' = TRUE
    /\ ctx' = ctx \cup ({stop[m] : m \in Mappings} \ {None})
    /\ stop' = [m \in Mappings |-> None]
    /\ UNCHANGED <<queues, rec, base, pc, of, seen, owner, attempts, reload, todo, raced>>

\* Mutant: only the registered goroutines are cancelled.
BaseCancelNothing ==
    /\ stopper = "latched" /\ stopper' = "drain"
    /\ UNCHANGED <<queues, rec, stop, stopped, base, callVars, reload, todo, raced>>

BaseCancel ==
    /\ stopper = "latched"
    /\ stopper' = "drain" /\ base' = TRUE
    /\ UNCHANGED <<queues, rec, stop, stopped, callVars, reload, todo, raced>>

\* The drain ends, or its deadline passes.
StopReturns ==
    /\ stopper = "drain" /\ stopper' = "returned"
    /\ UNCHANGED <<queues, rec, stop, stopped, base, callVars, reload, todo, raced>>

-----------------------------------------------------------------------------
NewRequest(r) == \E m \in Mappings : Create(r, m) \/ Update(r, m) \/ Delete(r, m)
RequestStep(r) == PutESM(r) \/ Notify(r) \/ StopDelete(r) \/ DeleteESM(r)
Work(w) == Receive(w) \/ Exit(w) \/ Flush(w) \/ Retry(w)
Report(g) == Invoke(g) \/ ResultGet(g) \/ ResultPut(g)
ReloadStep == ReloadStart \/ ReloadCancelled

Next ==
    \/ \E r \in Requests : NewRequest(r) \/ RequestStep(r)
    \/ \E w \in Workers : CtxDone(w) \/ Tick(w) \/ Batch(w) \/ Work(w)
    \/ \E g \in Workers \cup Invocations : Report(g)
    \/ ReloadList \/ ReloadFails \/ ReloadStep \/ StopAll \/ BaseCancel \/ StopReturns

\* Goroutines run, tickers tick and invocations end.  A select whose context is
\* done cannot take the ticker's branch for ever: a second passes in between.
Fairness ==
    /\ \A r \in Requests : WF_vars(RequestStep(r))
    /\ \A w \in Workers : WF_vars(Work(w)) /\ WF_vars(Tick(w)) /\ SF_vars(CtxDone(w))
    /\ \A g \in Workers \cup Invocations : WF_vars(Report(g))
    /\ WF_vars(ReloadStep) /\ WF_vars(BaseCancel)

Spec == Init /\ [][Next]_vars /\ Fairness

-----------------------------------------------------------------------------
(* Properties. *)

\* The variables have their types.
TypeOK ==
    /\ queues \subseteq Mappings
    /\ rec \in [Mappings -> States]
    /\ stop \in [Mappings -> Workers \cup {None}]
    /\ stopped \in BOOLEAN /\ base \in BOOLEAN
    /\ pc \in [Goroutines -> {"unused", "create", "update", "delete", "notify",
                  "start", "stopDelete", "deleteESM", "over", "select", "receive", "batch", "invoke",
                  "get", "put", "retry", "exit", "ended"}]
    /\ of \in [Goroutines -> Mappings \cup {None}]
    /\ seen \in [Goroutines -> States]
    /\ ctx \subseteq Workers /\ owner \in [Invocations -> Workers \cup {None}]
    /\ attempts \in [Workers -> 0..Retries]
    /\ reload \in {"wait", "start", "done", "failed"} /\ todo \subseteq Mappings
    /\ stopper \in {"no", "latched", "drain", "returned"}
    /\ raced \subseteq Mappings

\* An entry stands for a delivery goroutine that has not ended and that Stop can
\* still cancel: Start never takes a mapping for running that nobody serves.
EntryIsLive ==
    \A m \in Mappings : stop[m] # None =>
        Alive(stop[m]) /\ of[stop[m]] = m /\ stop[m] \notin ctx

\* Each kind of goroutine keeps to its own code, and one at work has a mapping.
KindsApart ==
    /\ \A r \in Requests : pc[r] \in {"unused", "create", "update", "delete", "notify",
                                      "start", "stopDelete", "deleteESM", "over"}
    /\ \A w \in Workers : pc[w] \in {"unused", "select", "receive", "batch", "invoke",
                                     "get", "put", "retry", "exit", "ended"}
    /\ \A i \in Invocations : pc[i] \in {"unused", "invoke", "get", "put"}
    /\ \A g \in Goroutines : pc[g] # "unused" => of[g] \in Mappings

\* A cancelled context belongs to a goroutine that was started; a stream's
\* worker, which never takes its entry with it, ends only once it is cancelled;
\* and a retry has an attempt left.
WorkersEndLast ==
    \A w \in Workers :
        /\ w \in ctx => pc[w] # "unused"
        /\ pc[w] = "exit" /\ ~Poller(w) => Cancelled(w)
        /\ pc[w] = "retry" => attempts[w] > 0

\* The latch is set before the registry is emptied for good, and baseCtx is
\* cancelled after that.
LatchedFirst ==
    /\ stopped <=> stopper # "no"
    /\ base <=> stopper \in {"drain", "returned"}
    /\ stopped => \A m \in Mappings : stop[m] = None

\* The invariant of the manager.
ESMInv == TypeOK /\ EntryIsLive /\ KindsApart /\ WorkersEndLast /\ LatchedFirst

\* Once the drain has counted down to zero nothing is added: the WaitGroup is
\* never used again.
NoAddAfterDrain ==
    [][(stopper \in {"drain", "returned"} /\ Idle) => Idle']_vars

\* StopAll reaches every delivery goroutine, those without an entry included:
\* all of them end.
ShutdownDrains == stopper = "drain" ~> Idle

\* A mapping that stays off falls silent: no poller is left, and nothing is
\* delivered.
OffFallsSilent ==
    \A m \in Mappings :
        <>[](rec[m] # "Enabled") =>
            <>[](/\ \A w \in Workers : of[w] = m =>
                      \/ pc[w] \in {"unused", "ended"}
                      \/ m \notin queues /\ pc[w] \in {"select", "batch", "exit"}
                 /\ \A i \in Invocations : of[i] = m => pc[i] = "unused")

\* A request is about to start delivery for a mapping that it has left on.
Asked(m) ==
    \E r \in Requests : of[r] = m /\ pc[r] \in {"start", "notify"} /\ seen[r] = "Enabled"

\* A mapping that stays on is served once ReloadAll got through or a request has
\* asked for it, unless requests or results overlapped.  (When ReloadAll gave up,
\* a mapping that no request asks for is on and not served.)
OnIsServed ==
    \A m \in Mappings :
        /\ <>[](rec[m] = "Enabled" /\ ~stopped)
        /\ <>(reload = "done") \/ <>Asked(m)
        => <>[](\E w \in Workers : of[w] = m /\ Alive(w)) \/ <>(m \in raced)

\* Start is idempotent: no mapping has two delivery goroutines that nobody has
\* told to end.
OneWorkerEach ==
    \A m \in Mappings : \A v, w \in Workers :
        /\ of[v] = m /\ of[w] = m
        /\ Alive(v) /\ Alive(w) /\ pc[v] # "exit" /\ pc[w] # "exit"
        /\ ~Cancelled(v) /\ ~Cancelled(w)
        => v = w

=============================================================================

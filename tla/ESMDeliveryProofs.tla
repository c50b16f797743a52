------------------------- MODULE ESMDeliveryProofs -------------------------
(* Proofs about ESMDelivery, for any mappings, delivery goroutines, invocations
   and requests and any number of retries.                                   *)

EXTENDS ESMDelivery, TLAPS

\* The first state satisfies the invariant.
LEMMA InvInit == Init => ESMInv
<1> SUFFICES ASSUME Init PROVE ESMInv
  OBVIOUS
<1>1. TypeOK
  <2>1. "none" \in States /\ 0 \in 0..Retries
    BY ESMAssumption DEF States
  <2>2. /\ seen \in [Goroutines -> States] /\ attempts \in [Workers -> 0..Retries]
        /\ rec \in [Mappings -> States] /\ queues \subseteq Mappings
    BY <2>1 DEF Init
  <2>3. /\ pc \in [Goroutines -> {"unused"}] /\ of \in [Goroutines -> {None}]
        /\ owner \in [Invocations -> {None}] /\ stop \in [Mappings -> {None}]
    BY DEF Init
  <2>4. /\ of \in [Goroutines -> Mappings \cup {None}]
        /\ owner \in [Invocations -> Workers \cup {None}]
        /\ stop \in [Mappings -> Workers \cup {None}]
    BY <2>3
  <2> QED BY <2>2, <2>3, <2>4 DEF Init, TypeOK
<1>2. EntryIsLive
  BY DEF Init, EntryIsLive
<1>3. KindsApart
  BY DEF Init, KindsApart, Goroutines
<1>4. WorkersEndLast
  BY DEF Init, WorkersEndLast, Goroutines
<1>5. LatchedFirst
  BY DEF Init, LatchedFirst
<1> QED BY <1>1, <1>2, <1>3, <1>4, <1>5 DEF ESMInv

\* The kinds of goroutines are disjoint.
LEMMA Kinds ==
    /\ \A w \in Workers : w \in Goroutines /\ w \notin Invocations /\ w \notin Requests /\ w # None
    /\ \A i \in Invocations : i \in Goroutines /\ i \notin Workers /\ i \notin Requests
    /\ \A r \in Requests : r \in Goroutines /\ r \notin Workers /\ r \notin Invocations
BY ESMAssumption DEF Goroutines

-----------------------------------------------------------------------------
(* What the manager's own operations do. *)

\* A step that leaves the registry and the contexts alone, and starts and ends
\* no delivery goroutine.
LEMMA RegistryKept ==
    ASSUME ESMInv, TypeOK', KindsApart',
           UNCHANGED <<queues, stop, stopped, base, ctx, stopper>>,
           \A w \in Workers :
              /\ of'[w] = of[w]
              /\ pc'[w] # pc[w] =>
                    /\ Alive(w) /\ pc'[w] \notin {"unused", "ended"}
                    /\ pc'[w] = "exit" /\ ~Poller(w) => Cancelled(w)
              /\ pc'[w] = "retry" => attempts'[w] > 0
    PROVE  ESMInv'
<1>1. ASSUME NEW m \in Mappings, stop'[m] # None
      PROVE  Alive(stop[m])' /\ of'[stop'[m]] = m /\ stop'[m] \notin ctx'
  <2>1. stop'[m] = stop[m] /\ stop[m] \in Workers
    BY <1>1 DEF ESMInv, TypeOK
  <2>2. Alive(stop[m]) /\ of[stop[m]] = m /\ stop[m] \notin ctx
    BY <1>1, <2>1 DEF ESMInv, EntryIsLive
  <2> QED BY <2>1, <2>2 DEF Alive
<1>2. EntryIsLive'
  BY <1>1 DEF EntryIsLive
<1>3. ASSUME NEW w \in Workers
      PROVE  /\ w \in ctx' => pc'[w] # "unused"
             /\ pc'[w] = "exit" /\ ~Poller(w)' => Cancelled(w)'
             /\ pc'[w] = "retry" => attempts'[w] > 0
  BY <1>3 DEF ESMInv, WorkersEndLast, Poller, Cancelled, Alive
<1>4. WorkersEndLast'
  BY <1>3 DEF WorkersEndLast
<1>5. LatchedFirst'
  BY DEF ESMInv, LatchedFirst
<1> QED BY <1>2, <1>4, <1>5 DEF ESMInv

\* Stop: the entry goes together with the context, so that no entry is left
\* whose goroutine is told to end.
LEMMA StopKept ==
    ASSUME ESMInv, TypeOK', KindsApart', NEW m \in Mappings, Stop(m),
           UNCHANGED <<queues, stopped, base, stopper>>,
           \A w \in Workers : of'[w] = of[w] /\ pc'[w] = pc[w] /\ attempts'[w] = attempts[w]
    PROVE  ESMInv'
<1>0. TypeOK
  BY DEF ESMInv
<1>1. /\ stop' = [stop EXCEPT ![m] = None]
      /\ ctx' = ctx \cup ({stop[m]} \ {None})
  BY DEF Stop
<1>2. ASSUME NEW n \in Mappings, stop'[n] # None
      PROVE  Alive(stop[n])' /\ of'[stop'[n]] = n /\ stop'[n] \notin ctx'
  <2>1. n # m /\ stop'[n] = stop[n] /\ stop[n] \in Workers
    BY <1>0, <1>1, <1>2 DEF TypeOK
  <2>2. Alive(stop[n]) /\ of[stop[n]] = n /\ stop[n] \notin ctx
    BY <1>2, <2>1 DEF ESMInv, EntryIsLive
  <2>3. stop[m] # None => of[stop[m]] = m
    BY DEF ESMInv, EntryIsLive
  <2>4. stop[n] \notin {stop[m]} \ {None}
    BY <2>1, <2>2, <2>3
  <2> QED BY <1>1, <2>1, <2>2, <2>4 DEF Alive
<1>3. EntryIsLive'
  BY <1>2 DEF EntryIsLive
<1>4. ASSUME NEW w \in Workers
      PROVE  /\ w \in ctx' => pc'[w] # "unused"
             /\ pc'[w] = "exit" /\ ~Poller(w)' => Cancelled(w)'
             /\ pc'[w] = "retry" => attempts'[w] > 0
  <2>1. w \in {stop[m]} \ {None} => pc[w] # "unused"
    BY DEF ESMInv, EntryIsLive, Alive
  <2> QED BY <1>1, <2>1 DEF ESMInv, WorkersEndLast, Poller, Cancelled
<1>5. WorkersEndLast'
  BY <1>4 DEF WorkersEndLast
<1>6. LatchedFirst'
  BY <1>0, <1>1 DEF ESMInv, LatchedFirst, TypeOK
<1> QED BY <1>3, <1>5, <1>6 DEF ESMInv

\* Start, on labels p that agree with pc about the delivery goroutines: a
\* registered goroutine is new, so its context is its own.
LEMMA StartKept ==
    ASSUME ESMInv, NEW m \in Mappings, NEW p, Start(m, p),
           \A w \in Workers : p[w] = pc[w],
           p \in [Goroutines -> {"unused", "create", "update", "delete", "notify",
                  "start", "stopDelete", "deleteESM", "over", "select", "receive", "batch",
                  "invoke", "get", "put", "retry", "exit", "ended"}],
           \A r \in Requests : p[r] \in {"unused", "create", "update", "delete", "notify",
                                         "start", "stopDelete", "deleteESM", "over"},
           \A i \in Invocations : p[i] \in {"unused", "invoke", "get", "put"},
           \A g \in Goroutines : p[g] # "unused" => of[g] \in Mappings,
           UNCHANGED <<queues, rec, stopped, base, ctx, owner, attempts, stopper, raced>>,
           seen' \in [Goroutines -> States], todo' \subseteq Mappings,
           reload' \in {"wait", "start", "done", "failed"}
    PROVE  ESMInv'
<1>0. TypeOK /\ KindsApart /\ EntryIsLive /\ WorkersEndLast /\ LatchedFirst
  BY DEF ESMInv
<1>1. CASE Running(m)
  <2>1. pc' = p /\ UNCHANGED <<stop, of>>
    BY <1>1 DEF Start
  <2>2. TypeOK'
    BY <1>0, <2>1 DEF TypeOK
  <2>3. KindsApart'
    BY <1>0, <2>1 DEF KindsApart
  <2>4. \A w \in Workers : of'[w] = of[w] /\ pc'[w] = pc[w] /\ attempts'[w] = attempts[w]
    BY <2>1
  <2>5. \A w \in Workers : pc'[w] = "retry" => attempts'[w] > 0
    BY <1>0, <2>4 DEF WorkersEndLast
  <2> QED BY <2>1, <2>2, <2>3, <2>4, <2>5, RegistryKept
<1>2. CASE ~Running(m)
  <2>1. PICK w \in Workers :
            /\ Fresh(w, Workers)
            /\ stop' = [stop EXCEPT ![m] = w]
            /\ of' = [of EXCEPT ![w] = m]
            /\ pc' = [p EXCEPT ![w] = "select"]
    BY <1>2 DEF Start
  <2>2. /\ pc[w] = "unused" /\ w \notin ctx /\ w # None /\ ~stopped
        /\ w \in Goroutines
    BY <1>0, <1>2, <2>1, Kinds DEF Fresh, WorkersEndLast, Running
  <2>3. /\ pc' \in [Goroutines -> {"unused", "create", "update", "delete", "notify",
                  "start", "stopDelete", "deleteESM", "over", "select", "receive", "batch",
                  "invoke", "get", "put", "retry", "exit", "ended"}]
        /\ pc'[w] = "select" /\ \A g \in Goroutines : g # w => pc'[g] = p[g]
    BY <2>1, <2>2
  <2>4. /\ of' \in [Goroutines -> Mappings \cup {None}]
        /\ of'[w] = m /\ \A g \in Goroutines : g # w => of'[g] = of[g]
    BY <1>0, <2>1, <2>2 DEF TypeOK
  <2>5. /\ stop' \in [Mappings -> Workers \cup {None}]
        /\ stop'[m] = w /\ \A n \in Mappings : n # m => stop'[n] = stop[n]
    BY <1>0, <2>1 DEF TypeOK
  <2>6. TypeOK'
    BY <1>0, <2>3, <2>4, <2>5 DEF TypeOK
  <2>7. KindsApart'
    BY <1>0, <2>3, <2>4, Kinds DEF KindsApart
  <2>8. EntryIsLive'
    <3> SUFFICES ASSUME NEW n \in Mappings, stop'[n] # None
                 PROVE  Alive(stop[n])' /\ of'[stop'[n]] = n /\ stop'[n] \notin ctx'
      BY DEF EntryIsLive
    <3>1. CASE n = m
      BY <2>2, <2>3, <2>4, <2>5, <3>1 DEF Alive
    <3>2. CASE n # m
      <4>1. stop'[n] = stop[n] /\ stop[n] \in Workers
        BY <1>0, <2>5, <3>2 DEF TypeOK
      <4>2. Alive(stop[n]) /\ of[stop[n]] = n /\ stop[n] \notin ctx
        BY <1>0, <4>1 DEF EntryIsLive
      <4>3. stop[n] # w /\ stop[n] \in Goroutines
        BY <2>2, <4>1, <4>2, Kinds DEF Alive
      <4> QED BY <2>3, <2>4, <4>1, <4>2, <4>3 DEF Alive
    <3> QED BY <3>1, <3>2
  <2>9. WorkersEndLast'
    <3> SUFFICES ASSUME NEW v \in Workers
                 PROVE  /\ v \in ctx' => pc'[v] # "unused"
                        /\ pc'[v] = "exit" /\ ~Poller(v)' => Cancelled(v)'
                        /\ pc'[v] = "retry" => attempts'[v] > 0
      BY DEF WorkersEndLast
    <3>1. CASE v = w
      BY <2>3, <3>1
    <3>2. CASE v # w
      <4>1. pc'[v] = pc[v] /\ of'[v] = of[v]
        BY <2>3, <2>4, <3>2, Kinds
      <4> QED BY <1>0, <4>1 DEF WorkersEndLast, Poller, Cancelled
    <3> QED BY <3>1, <3>2
  <2>10. LatchedFirst'
    BY <1>0, <2>2 DEF LatchedFirst
  <2> QED BY <2>6, <2>7, <2>8, <2>9, <2>10 DEF ESMInv
<1> QED BY <1>1, <1>2

-----------------------------------------------------------------------------
(* The actions. *)

\* An API request is made.
LEMMA InvNewRequest ==
    ASSUME ESMInv, NEW r \in Requests, NEW m \in Mappings,
           NEW label \in {"create", "update", "delete"}, Request(r, m, label)
    PROVE  ESMInv'
<1>0. TypeOK /\ KindsApart /\ WorkersEndLast
  BY DEF ESMInv
<1>1. /\ pc' = [pc EXCEPT ![r] = label] /\ of' = [of EXCEPT ![r] = m]
      /\ seen' = [seen EXCEPT ![r] = rec[m]] /\ raced' \subseteq raced \cup {m}
      /\ UNCHANGED <<queues, rec, stop, stopped, base, ctx, owner, attempts, reload, todo, stopper>>
  BY DEF Request
<1>2. TypeOK'
  BY <1>0, <1>1 DEF TypeOK
<1>3. KindsApart'
  BY <1>0, <1>1, Kinds DEF KindsApart, TypeOK
<1>4. \A w \in Workers : of'[w] = of[w] /\ pc'[w] = pc[w]
  BY <1>0, <1>1, Kinds DEF TypeOK
<1>5. \A w \in Workers : pc'[w] = "retry" => attempts'[w] > 0
  BY <1>0, <1>1, <1>4 DEF WorkersEndLast
<1> QED BY <1>1, <1>2, <1>3, <1>4, <1>5, RegistryKept

\* putESM, and the end of a deletion.
LEMMA InvRecordWritten ==
    ASSUME ESMInv, NEW r \in Requests, PutESM(r) \/ DeleteESM(r)
    PROVE  ESMInv'
<1>0. TypeOK /\ KindsApart /\ WorkersEndLast
  BY DEF ESMInv
<1>1. PICK l \in {"stopDelete", "over", "start", "notify"} : pc' = [pc EXCEPT ![r] = l]
  BY <1>0 DEF PutESM, DeleteESM, TypeOK
<1>2. pc[r] # "unused" /\ of[r] \in Mappings /\ r \in Goroutines
  BY <1>0, Kinds DEF PutESM, DeleteESM, KindsApart
<1>3. PICK s \in States : seen' = [seen EXCEPT ![r] = s]
  BY DEF PutESM, DeleteESM, States
<1>4. rec' = rec \/ \E u \in States : rec' = [rec EXCEPT ![of[r]] = u]
  BY DEF PutESM, DeleteESM, States
<1>5. /\ UNCHANGED <<queues, stop, stopped, base, of, ctx, owner, attempts, reload, todo, stopper>>
      /\ raced' \subseteq raced \cup {of[r]}
  BY DEF PutESM, DeleteESM
<1>6. TypeOK'
  <2>1. rec' \in [Mappings -> States] /\ seen' \in [Goroutines -> States]
    BY <1>0, <1>2, <1>3, <1>4 DEF TypeOK
  <2> QED BY <1>0, <1>1, <1>2, <1>5, <2>1 DEF TypeOK
<1>7. KindsApart'
  BY <1>0, <1>1, <1>2, <1>5, Kinds DEF KindsApart, TypeOK
<1>8. \A w \in Workers : of'[w] = of[w] /\ pc'[w] = pc[w]
  BY <1>0, <1>1, <1>5, Kinds DEF TypeOK
<1>9. \A w \in Workers : pc'[w] = "retry" => attempts'[w] > 0
  BY <1>0, <1>5, <1>8 DEF WorkersEndLast
<1> QED BY <1>5, <1>6, <1>7, <1>8, <1>9, RegistryKept

\* The manager is told of a new, an updated or a deleted mapping.
LEMMA InvNotify ==
    ASSUME ESMInv, NEW r \in Requests, Notify(r) \/ StopDelete(r)
    PROVE  ESMInv'
<1>0. TypeOK /\ KindsApart /\ WorkersEndLast
  BY DEF ESMInv
<1>1. pc[r] # "unused" /\ of[r] \in Mappings /\ r \in Goroutines
  BY <1>0, Kinds DEF Notify, StopDelete, KindsApart
<1>2. seen' \in [Goroutines -> States]
  BY <1>0 DEF Notify, StopDelete, TypeOK, States
<1>3. UNCHANGED <<queues, rec, stopped, base, owner, attempts, reload, todo, stopper, raced>>
  BY DEF Notify, StopDelete
<1> DEFINE over == [pc EXCEPT ![r] = "over"]
<1>4. /\ over \in [Goroutines -> {"unused", "create", "update", "delete", "notify",
                  "start", "stopDelete", "deleteESM", "over", "select", "receive", "batch",
                  "invoke", "get", "put", "retry", "exit", "ended"}]
      /\ \A w \in Workers : over[w] = pc[w]
      /\ \A q \in Requests : over[q] \in {"unused", "create", "update", "delete", "notify",
                                         "start", "stopDelete", "deleteESM", "over"}
      /\ \A i \in Invocations : over[i] \in {"unused", "invoke", "get", "put"}
      /\ \A g \in Goroutines : over[g] # "unused" => of[g] \in Mappings
  BY <1>0, <1>1, Kinds DEF TypeOK, KindsApart
<1>5. CASE Notify(r) /\ seen[r] = "Enabled"
  <2>1. Start(of[r], over) /\ UNCHANGED ctx
    BY <1>5 DEF Notify
  <2>2. todo' \subseteq Mappings /\ reload' \in {"wait", "start", "done", "failed"}
    BY <1>0, <1>3 DEF TypeOK
  <2> HIDE DEF over
  <2> QED BY <1>1, <1>2, <1>3, <1>4, <2>1, <2>2, StartKept
<1>6. ASSUME NEW l \in {"over", "deleteESM"}, pc' = [pc EXCEPT ![r] = l], UNCHANGED of,
             Stop(of[r]) \/ UNCHANGED <<stop, ctx>>
      PROVE  ESMInv'
  <2>1. stop' \in [Mappings -> Workers \cup {None}] /\ ctx' \subseteq Workers
    BY <1>0, <1>1, <1>6 DEF TypeOK, Stop
  <2>2. pc' \in [Goroutines -> {"unused", "create", "update", "delete", "notify",
                  "start", "stopDelete", "deleteESM", "over", "select", "receive", "batch",
                  "invoke", "get", "put", "retry", "exit", "ended"}]
    BY <1>0, <1>6 DEF TypeOK
  <2>3. TypeOK'
    BY <1>0, <1>2, <1>3, <1>6, <2>1, <2>2 DEF TypeOK
  <2>4. KindsApart'
    BY <1>0, <1>1, <1>6, Kinds DEF KindsApart, TypeOK
  <2>5. \A w \in Workers : of'[w] = of[w] /\ pc'[w] = pc[w] /\ attempts'[w] = attempts[w]
    BY <1>0, <1>3, <1>6, Kinds DEF TypeOK
  <2>6. \A w \in Workers : pc'[w] = "retry" => attempts'[w] > 0
    BY <1>0, <2>5 DEF WorkersEndLast
  <2>7. CASE Stop(of[r])
    BY <1>1, <1>3, <2>3, <2>4, <2>5, <2>7, StopKept
  <2>8. CASE UNCHANGED <<stop, ctx>>
    BY <1>3, <2>3, <2>4, <2>5, <2>6, <2>8, RegistryKept
  <2> QED BY <1>6, <2>7, <2>8
<1>7. CASE Notify(r) /\ seen[r] # "Enabled"
  BY <1>6, <1>7 DEF Notify
<1>8. CASE StopDelete(r)
  BY <1>6, <1>8 DEF StopDelete
<1> QED BY <1>5, <1>7, <1>8

\* A delivery goroutine moves on without touching the registry.
LEMMA InvWorkerMoves ==
    ASSUME ESMInv, NEW w \in Workers,
           CtxDone(w) \/ Tick(w) \/ Batch(w) \/ Flush(w) \/ Retry(w)
    PROVE  ESMInv'
<1>0. TypeOK /\ KindsApart /\ WorkersEndLast
  BY DEF ESMInv
<1>1. PICK l \in {"exit", "receive", "batch", "invoke", "select"} : pc' = [pc EXCEPT ![w] = l]
  BY <1>0 DEF CtxDone, Tick, Batch, Flush, Retry, TypeOK
<1>2. /\ UNCHANGED <<queues, rec, stop, stopped, base, of, seen, ctx, owner, reload, todo, stopper, raced>>
      /\ Alive(w) /\ w \in Goroutines /\ of[w] \in Mappings
  BY <1>0, Kinds DEF CtxDone, Tick, Batch, Flush, Retry, Alive, KindsApart
<1>3. attempts' \in [Workers -> 0..Retries] /\ \A v \in Workers : v # w => attempts'[v] = attempts[v]
  <2>1. CASE Retry(w)
    BY <1>0, <2>1, ESMAssumption DEF Retry, WorkersEndLast, TypeOK
  <2>2. CASE Flush(w)
    BY <1>0, <2>2, ESMAssumption DEF Flush, TypeOK
  <2>3. CASE CtxDone(w) \/ Tick(w) \/ Batch(w)
    BY <1>0, <2>3 DEF CtxDone, Tick, Batch, TypeOK
  <2> QED BY <2>1, <2>2, <2>3
<1>4. l = "exit" /\ ~Poller(w) => Cancelled(w)
  BY <1>0, <1>1, <1>2 DEF CtxDone, Tick, Batch, Flush, Retry, TypeOK
<1>5. TypeOK'
  BY <1>0, <1>1, <1>2, <1>3 DEF TypeOK
<1>6. KindsApart'
  BY <1>0, <1>1, <1>2, Kinds DEF KindsApart, TypeOK
<1>7. ASSUME NEW v \in Workers
      PROVE  /\ of'[v] = of[v]
             /\ pc'[v] # pc[v] =>
                    /\ Alive(v) /\ pc'[v] \notin {"unused", "ended"}
                    /\ pc'[v] = "exit" /\ ~Poller(v) => Cancelled(v)
             /\ pc'[v] = "retry" => attempts'[v] > 0
  <2>1. CASE v = w
    BY <1>0, <1>1, <1>2, <1>4, <2>1 DEF TypeOK
  <2>2. CASE v # w
    BY <1>0, <1>1, <1>2, <1>3, <2>2, Kinds DEF TypeOK, WorkersEndLast
  <2> QED BY <2>1, <2>2
<1> QED BY <1>2, <1>5, <1>6, <1>7, RegistryKept

\* A poller receives: an invocation may be spawned.
LEMMA InvReceive == ASSUME ESMInv, NEW w \in Workers, Receive(w) PROVE ESMInv'
<1>0. TypeOK /\ KindsApart /\ WorkersEndLast
  BY DEF ESMInv
<1>1. /\ UNCHANGED <<queues, rec, stop, stopped, base, seen, ctx, attempts, reload, todo, stopper, raced>>
      /\ pc[w] = "receive" /\ w \in Goroutines /\ of[w] \in Mappings
  BY <1>0, Kinds DEF Receive, KindsApart
<1>2. ASSUME TypeOK', KindsApart', pc'[w] \in {"select", "get"},
             \A v \in Workers : of'[v] = of[v] /\ (v # w => pc'[v] = pc[v])
      PROVE  ESMInv'
  <2>1. \A v \in Workers : pc'[v] = "retry" => attempts'[v] > 0
    BY <1>0, <1>1, <1>2 DEF WorkersEndLast
  <2>2. \A v \in Workers : pc'[v] # pc[v] => Alive(v) /\ pc'[v] \notin {"unused", "ended", "exit"}
    BY <1>1, <1>2 DEF Alive
  <2> QED BY <1>1, <1>2, <2>1, <2>2, RegistryKept
<1>3. ASSUME NEW l \in {"select", "get"}, pc' = [pc EXCEPT ![w] = l], UNCHANGED <<of, owner>>
      PROVE  ESMInv'
  <2>1. TypeOK'
    BY <1>0, <1>1, <1>3 DEF TypeOK
  <2>2. KindsApart'
    BY <1>0, <1>1, <1>3, Kinds DEF KindsApart, TypeOK
  <2> QED BY <1>0, <1>1, <1>2, <1>3, <2>1, <2>2, Kinds DEF TypeOK
<1>4. ASSUME NEW i \in Invocations, pc' = [pc EXCEPT ![w] = "select", ![i] = "invoke"],
             of' = [of EXCEPT ![i] = of[w]], owner' = [owner EXCEPT ![i] = w]
      PROVE  ESMInv'
  <2>1. i \in Goroutines /\ i # w /\ i \notin Workers
    BY Kinds
  <2>2. /\ pc'[w] = "select" /\ pc'[i] = "invoke" /\ of'[i] = of[w] /\ of'[w] = of[w]
        /\ \A g \in Goroutines : (g # i => of'[g] = of[g]) /\ (g # i /\ g # w => pc'[g] = pc[g])
    BY <1>0, <1>1, <1>4, <2>1 DEF TypeOK
  <2>3. TypeOK'
    BY <1>0, <1>1, <1>4 DEF TypeOK
  <2>4. KindsApart'
    BY <1>0, <1>1, <2>2, Kinds DEF KindsApart
  <2> QED BY <1>2, <2>1, <2>2, <2>3, <2>4, Kinds
<1> QED BY <1>3, <1>4 DEF Receive

\* An invocation ends, or its result is read and written back.
LEMMA InvReport ==
    ASSUME ESMInv, NEW g \in Workers \cup Invocations, Report(g)
    PROVE  ESMInv'
<1>0. TypeOK /\ KindsApart /\ WorkersEndLast
  BY DEF ESMInv
<1>1. /\ UNCHANGED <<queues, stop, stopped, base, ctx, reload, todo, stopper>>
      /\ pc[g] \in {"invoke", "get", "put"} /\ g \in Goroutines /\ of[g] \in Mappings
  BY <1>0, Kinds DEF Report, Invoke, ResultGet, ResultPut, KindsApart
<1>2. PICK l \in {"unused", "select", "retry", "get", "put"} :
         /\ pc' = [pc EXCEPT ![g] = l]
         /\ g \in Invocations => l \notin {"select", "retry"}
         /\ g \in Workers => l # "unused"
  BY <1>0, <1>1, Kinds DEF Report, Invoke, ResultGet, ResultPut, AfterResult, TypeOK
<1>3. pc'[g] = l /\ \A h \in Goroutines : h # g => pc'[h] = pc[h]
  BY <1>0, <1>1, <1>2 DEF TypeOK
<1>4. \/ of' = of /\ owner' = owner /\ (g \in Invocations => l # "unused")
      \/ /\ g \in Invocations /\ l = "unused"
         /\ of' = [of EXCEPT ![g] = None] /\ owner' = [owner EXCEPT ![g] = None]
  BY <1>0, <1>1, <1>2, <1>3 DEF Report, Invoke, ResultGet, ResultPut, Freed
<1>5. /\ attempts' \in [Workers -> 0..Retries]
      /\ \A v \in Workers : v # g => attempts'[v] = attempts[v]
      /\ g \in Workers /\ l = "retry" => attempts'[g] > 0
  <2>1. CASE Invoke(g)
    BY <1>0, <1>1, <1>3, <2>1, ESMAssumption DEF Invoke, TypeOK
  <2>2. CASE ResultGet(g)
    <3>1. 0 \in 0..Retries /\ (g \in Workers => attempts[g] \in 0..Retries)
      BY <1>0, ESMAssumption DEF TypeOK
    <3>2. attempts' = attempts \/ (g \in Workers /\ \E a \in 0..Retries : attempts' = [attempts EXCEPT ![g] = a])
      BY <2>2, <3>1 DEF ResultGet
    <3>3. l = "put"
      BY <1>1, <1>3, <2>2, <1>0 DEF ResultGet, TypeOK
    <3> QED BY <1>0, <3>2, <3>3 DEF TypeOK
  <2>3. CASE ResultPut(g)
    BY <1>0, <1>1, <1>3, <2>3, Kinds DEF ResultPut, AfterResult, TypeOK
  <2> QED BY <2>1, <2>2, <2>3 DEF Report
<1>6. /\ rec' \in [Mappings -> States] /\ seen' \in [Goroutines -> States]
      /\ raced' \subseteq Mappings
  <2>1. "none" \in States /\ rec[of[g]] \in States /\ seen[g] \in States
    BY <1>0, <1>1 DEF TypeOK, States
  <2>2. \/ rec' = rec
        \/ rec' = [rec EXCEPT ![of[g]] = seen[g]]
    BY DEF Report, Invoke, ResultGet, ResultPut
  <2>3. \/ seen' = seen
        \/ seen' = [seen EXCEPT ![g] = rec[of[g]]]
        \/ seen' = [seen EXCEPT ![g] = "none"]
    BY DEF Report, Invoke, ResultGet, ResultPut
  <2>4. raced' = raced \/ raced' = raced \cup {of[g]}
    BY DEF Report, Invoke, ResultGet, ResultPut
  <2> QED BY <1>0, <1>1, <2>1, <2>2, <2>3, <2>4 DEF TypeOK
<1>7. TypeOK'
  BY <1>0, <1>1, <1>2, <1>4, <1>5, <1>6 DEF TypeOK
<1>8. \A h \in Goroutines : h # g \/ h \notin Invocations => of'[h] = of[h]
  BY <1>0, <1>4 DEF TypeOK
<1>9. KindsApart'
  <2>1. l # "unused" => of'[g] \in Mappings
    BY <1>1, <1>4
  <2> QED BY <1>0, <1>2, <1>3, <1>8, <2>1, Kinds DEF KindsApart
<1>10. ASSUME NEW v \in Workers
       PROVE  /\ of'[v] = of[v]
              /\ pc'[v] # pc[v] => Alive(v) /\ pc'[v] \notin {"unused", "ended", "exit"}
              /\ pc'[v] = "retry" => attempts'[v] > 0
  <2>1. CASE v = g
    BY <1>1, <1>2, <1>3, <1>5, <1>8, <2>1, Kinds DEF Alive
  <2>2. CASE v # g
    BY <1>0, <1>3, <1>5, <1>8, <2>2, Kinds DEF WorkersEndLast
  <2> QED BY <2>1, <2>2
<1> QED BY <1>1, <1>7, <1>9, <1>10, RegistryKept

\* A delivery goroutine ends: a poller takes the mapping's entry with it, and a
\* stream's worker has lost its entry before.
LEMMA InvExit == ASSUME ESMInv, NEW w \in Workers, Exit(w) PROVE ESMInv'
<1>0. TypeOK /\ KindsApart /\ WorkersEndLast /\ EntryIsLive /\ LatchedFirst
  BY DEF ESMInv
<1>1. /\ UNCHANGED <<queues, rec, stopped, base, of, seen, ctx, owner, attempts, reload, todo, stopper, raced>>
      /\ pc[w] = "exit" /\ pc' = [pc EXCEPT ![w] = "ended"]
      /\ stop' = IF Poller(w) THEN [stop EXCEPT ![of[w]] = None] ELSE stop
      /\ w \in Goroutines /\ of[w] \in Mappings
  BY <1>0, Kinds DEF Exit, KindsApart
<1>2. stop' \in [Mappings -> Workers \cup {None}]
      /\ \A m \in Mappings : stop'[m] \in {stop[m], None}
  BY <1>0, <1>1 DEF TypeOK
<1>3. pc'[w] = "ended" /\ \A g \in Goroutines : g # w => pc'[g] = pc[g]
  BY <1>0, <1>1 DEF TypeOK
<1>4. TypeOK'
  BY <1>0, <1>1, <1>2 DEF TypeOK
<1>5. KindsApart'
  BY <1>0, <1>1, <1>3, Kinds DEF KindsApart
<1>6. EntryIsLive'
  <2> SUFFICES ASSUME NEW m \in Mappings, stop'[m] # None
               PROVE  Alive(stop[m])' /\ of'[stop'[m]] = m /\ stop'[m] \notin ctx'
    BY DEF EntryIsLive
  <2>1. stop'[m] = stop[m] /\ stop[m] \in Workers /\ stop[m] # None
    BY <1>0, <1>2 DEF TypeOK
  <2>2. Alive(stop[m]) /\ of[stop[m]] = m /\ stop[m] \notin ctx
    BY <1>0, <2>1 DEF EntryIsLive
  <2>3. stop[m] # w
    <3>1. CASE Poller(w)
      BY <1>0, <1>1, <2>1, <2>2, <3>1 DEF TypeOK
    <3>2. CASE ~Poller(w)
      BY <1>0, <1>1, <2>1, <2>2, <3>2 DEF WorkersEndLast, Cancelled, LatchedFirst
    <3> QED BY <3>1, <3>2
  <2> QED BY <1>1, <1>3, <2>1, <2>2, <2>3, Kinds DEF Alive
<1>7. WorkersEndLast'
  <2> SUFFICES ASSUME NEW v \in Workers
               PROVE  /\ v \in ctx' => pc'[v] # "unused"
                      /\ pc'[v] = "exit" /\ ~Poller(v)' => Cancelled(v)'
                      /\ pc'[v] = "retry" => attempts'[v] > 0
    BY DEF WorkersEndLast
  <2>1. CASE v = w
    BY <1>3, <2>1
  <2>2. CASE v # w
    BY <1>0, <1>1, <1>3, <2>2, Kinds DEF WorkersEndLast, Poller, Cancelled
  <2> QED BY <2>1, <2>2
<1>8. LatchedFirst'
  BY <1>0, <1>1, <1>2 DEF LatchedFirst
<1> QED BY <1>4, <1>5, <1>6, <1>7, <1>8 DEF ESMInv

\* ReloadAll.
LEMMA InvReload == ASSUME ESMInv, ReloadList \/ ReloadFails \/ ReloadStep PROVE ESMInv'
<1>0. TypeOK /\ KindsApart /\ WorkersEndLast
  BY DEF ESMInv
<1>1. ASSUME UNCHANGED <<queues, rec, stop, stopped, base, callVars, stopper, raced>>,
             todo' \subseteq Mappings, reload' \in {"wait", "start", "done", "failed"}
      PROVE  ESMInv'
  <2>1. TypeOK'
    BY <1>0, <1>1 DEF TypeOK, callVars
  <2>2. KindsApart'
    BY <1>0, <1>1 DEF KindsApart, callVars
  <2>3. UNCHANGED <<pc, of, ctx, attempts>>
    BY <1>1 DEF callVars
  <2>4. \A w \in Workers : pc'[w] = "retry" => attempts'[w] > 0
    BY <1>0, <2>3 DEF WorkersEndLast
  <2> QED BY <1>1, <2>1, <2>2, <2>3, <2>4, RegistryKept
<1>2. CASE ReloadList \/ ReloadFails
  BY <1>0, <1>1, <1>2 DEF ReloadList, ReloadFails, TypeOK
<1>3. CASE ReloadStart /\ UNCHANGED <<stop, pc, of, todo>>
  BY <1>0, <1>1, <1>3 DEF ReloadStart, TypeOK, callVars
<1>4. ASSUME NEW m \in todo, Start(m, pc), todo' = todo \ {m}, UNCHANGED reload,
             UNCHANGED <<queues, rec, stopped, base, seen, ctx, owner, attempts, stopper, raced>>
      PROVE  ESMInv'
  <2>1. /\ m \in Mappings /\ todo' \subseteq Mappings /\ reload' \in {"wait", "start", "done", "failed"}
        /\ seen' \in [Goroutines -> States]
    BY <1>0, <1>4 DEF TypeOK
  <2>2. pc \in [Goroutines -> {"unused", "create", "update", "delete", "notify",
                  "start", "stopDelete", "deleteESM", "over", "select", "receive", "batch",
                  "invoke", "get", "put", "retry", "exit", "ended"}]
    BY <1>0 DEF TypeOK
  <2>3. /\ \A r \in Requests : pc[r] \in {"unused", "create", "update", "delete", "notify",
                                         "start", "stopDelete", "deleteESM", "over"}
        /\ \A i \in Invocations : pc[i] \in {"unused", "invoke", "get", "put"}
        /\ \A g \in Goroutines : pc[g] # "unused" => of[g] \in Mappings
    BY <1>0 DEF KindsApart
  <2> QED BY <1>4, <2>1, <2>2, <2>3, StartKept
<1> QED BY <1>2, <1>3, <1>4 DEF ReloadStep, ReloadStart, ReloadCancelled

\* StopAll.
LEMMA InvStopAll == ASSUME ESMInv, StopAll \/ BaseCancel \/ StopReturns PROVE ESMInv'
<1>0. TypeOK /\ KindsApart /\ WorkersEndLast /\ EntryIsLive /\ LatchedFirst
  BY DEF ESMInv
<1>1. UNCHANGED <<queues, rec, pc, of, seen, owner, attempts, reload, todo, raced>>
  BY DEF StopAll, BaseCancel, StopReturns, callVars
<1>2. KindsApart'
  BY <1>0, <1>1 DEF KindsApart
<1>3. CASE StopAll
  <2>1. /\ stopper = "no" /\ stopper' = "latched" /\ stopped' = TRUE /\ base' = base
        /\ ctx' = ctx \cup ({stop[m] : m \in Mappings} \ {None})
        /\ stop' = [m \in Mappings |-> None]
    BY <1>3 DEF StopAll
  <2>2. TypeOK'
    BY <1>0, <1>1, <2>1 DEF TypeOK
  <2>3. EntryIsLive'
    BY <2>1 DEF EntryIsLive
  <2>4. WorkersEndLast'
    BY <1>0, <1>1, <2>1 DEF WorkersEndLast, EntryIsLive, Alive, Poller, Cancelled
  <2>5. LatchedFirst'
    BY <1>0, <2>1 DEF LatchedFirst
  <2> QED BY <1>2, <2>2, <2>3, <2>4, <2>5 DEF ESMInv
<1>4. CASE BaseCancel \/ StopReturns
  <2>1. /\ UNCHANGED <<stop, stopped, ctx>> /\ base' = TRUE
        /\ stopper \in {"latched", "drain"} /\ stopper' \in {"drain", "returned"}
    BY <1>0, <1>4 DEF BaseCancel, StopReturns, callVars, LatchedFirst, TypeOK
  <2>2. TypeOK'
    BY <1>0, <1>1, <2>1 DEF TypeOK
  <2>3. EntryIsLive'
    BY <1>0, <1>1, <2>1 DEF EntryIsLive, Alive
  <2>4. WorkersEndLast'
    BY <1>0, <1>1, <2>1 DEF WorkersEndLast, Poller, Cancelled
  <2>5. LatchedFirst'
    BY <1>0, <2>1 DEF LatchedFirst
  <2> QED BY <1>2, <2>2, <2>3, <2>4, <2>5 DEF ESMInv
<1> QED BY <1>3, <1>4

\* Every step keeps the invariant.
LEMMA InvStep == ESMInv /\ [Next]_vars => ESMInv'
<1> SUFFICES ASSUME ESMInv, [Next]_vars PROVE ESMInv'
  OBVIOUS
<1>1. CASE \E r \in Requests : NewRequest(r) \/ RequestStep(r)
  <2>1. PICK r \in Requests : NewRequest(r) \/ RequestStep(r)
    BY <1>1
  <2>2. CASE NewRequest(r)
    BY <2>2, InvNewRequest DEF NewRequest, Create, Update, Delete
  <2>3. CASE RequestStep(r)
    BY <2>3, InvRecordWritten, InvNotify DEF RequestStep
  <2> QED BY <2>1, <2>2, <2>3
<1>2. CASE \E w \in Workers : CtxDone(w) \/ Tick(w) \/ Batch(w) \/ Work(w)
  BY <1>2, InvWorkerMoves, InvReceive, InvExit DEF Work
<1>3. CASE \E g \in Workers \cup Invocations : Report(g)
  BY <1>3, InvReport
<1>4. CASE ReloadList \/ ReloadFails \/ ReloadStep
  BY <1>4, InvReload
<1>5. CASE StopAll \/ BaseCancel \/ StopReturns
  BY <1>5, InvStopAll
<1>6. CASE UNCHANGED vars
  <2>1. TypeOK' /\ KindsApart' /\ EntryIsLive' /\ WorkersEndLast' /\ LatchedFirst'
    BY <1>6 DEF ESMInv, vars, callVars, TypeOK, KindsApart, EntryIsLive, Alive, WorkersEndLast,
                LatchedFirst, Poller, Cancelled
  <2> QED BY <2>1 DEF ESMInv
<1> QED BY <1>1, <1>2, <1>3, <1>4, <1>5, <1>6 DEF Next

-----------------------------------------------------------------------------
(* Theorems. *)

\* The manager's invariant, whatever requests, results, ticks and shutdown
\* interleave: an entry of the registry always stands for a delivery goroutine
\* that runs and that nobody has told to end.
THEOREM InvariantHolds == Spec => []ESMInv
BY InvInit, InvStep, PTL DEF Spec

\* After StopAll's drain has seen the WaitGroup at zero, no late request, result
\* or reload adds to it.
THEOREM NothingAddedAfterDrain == Spec => NoAddAfterDrain
<1>1. ESMInv /\ [Next]_vars => [(stopper \in {"drain", "returned"} /\ Idle) => Idle']_vars
  <2> SUFFICES ASSUME ESMInv, Next, stopper \in {"drain", "returned"}, Idle PROVE Idle'
    OBVIOUS
  <2>0. TypeOK /\ stopped /\ ReloadOver /\ \A w \in Workers : pc[w] \in {"unused", "ended"}
    BY DEF ESMInv, LatchedFirst, Idle, Alive
  <2>1. ASSUME NEW r \in Requests, NewRequest(r) \/ RequestStep(r) PROVE Idle'
    <3>1. \E l : pc' = [pc EXCEPT ![r] = l]
      <4>1. CASE Notify(r)
        BY <2>0, <4>1 DEF Notify, Start, Running
      <4>2. CASE NewRequest(r) \/ PutESM(r) \/ StopDelete(r) \/ DeleteESM(r)
        BY <4>2 DEF NewRequest, Create, Update, Delete, Request, PutESM, StopDelete, DeleteESM
      <4> QED BY <2>1, <4>1, <4>2 DEF RequestStep
    <3>2. reload' = reload
      BY <2>1 DEF NewRequest, Create, Update, Delete, Request, RequestStep, PutESM, Notify,
                  StopDelete, DeleteESM
    <3> QED BY <2>0, <3>1, <3>2, Kinds DEF TypeOK, Idle, Alive, ReloadOver
  <2>2. ASSUME NEW w \in Workers, CtxDone(w) \/ Tick(w) \/ Batch(w) \/ Work(w) PROVE FALSE
    BY <2>0, <2>2 DEF CtxDone, Tick, Batch, Work, Receive, Exit, Flush, Retry
  <2>3. ASSUME NEW g \in Workers \cup Invocations, Report(g) PROVE Idle'
    <3>1. g \notin Workers
      BY <2>0, <2>3 DEF Report, Invoke, ResultGet, ResultPut
    <3>2. (\E l : pc' = [pc EXCEPT ![g] = l]) /\ reload' = reload
      BY <2>3 DEF Report, Invoke, ResultGet, ResultPut
    <3> QED BY <2>0, <3>1, <3>2, Kinds DEF TypeOK, Idle, Alive, ReloadOver
  <2>4. ASSUME ReloadList \/ ReloadFails \/ ReloadStep PROVE FALSE
    BY <2>0, <2>4 DEF ReloadList, ReloadFails, ReloadStep, ReloadStart, ReloadCancelled, ReloadOver
  <2>5. ASSUME StopAll \/ BaseCancel \/ StopReturns PROVE Idle'
    BY <2>0, <2>5 DEF StopAll, BaseCancel, StopReturns, callVars, Idle, Alive, ReloadOver
  <2> QED BY <2>1, <2>2, <2>3, <2>4, <2>5 DEF Next
<1> QED BY <1>1, InvariantHolds, PTL DEF Spec, NoAddAfterDrain

=============================================================================

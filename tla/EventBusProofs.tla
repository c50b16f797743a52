--------------------------- MODULE EventBusProofs ---------------------------
(* Proofs about EventBus, for any number of publishers, workers, subscriptions
   and events, and any queue and history size: Stop drains what was queued, the
   history keeps what is not noise, and every subscription gets what it is owed
   exactly once.                                                              *)

EXTENDS EventBus, WellFoundedInduction, FiniteSetTheorems, TLAPS

-----------------------------------------------------------------------------
(* Operators. *)

\* A non-empty set of positions has a first one.
LEMMA FirstPosition ==
    ASSUME NEW S, S \subseteq Nat, S # {}
    PROVE  \E i \in S : \A j \in S : i <= j
<1> DEFINE R == OpToRel(<, Nat)
<1>0. IsWellFoundedOn(R, Nat)
  BY NatLessThanWellFounded
<1>1. \E i \in S : \A j \in S : ~(<<j, i>> \in R)
  <2> HIDE DEF R
  <2> QED BY <1>0, WFMin
<1>2. PICK i \in S : \A j \in S : ~(<<j, i>> \in R)
  BY <1>1
<1>3. \A j \in S : ~(j < i)
  BY <1>2 DEF OpToRel
<1> QED BY <1>3

\* Sequences: their entries, larger sets of entries, and functions on 1..n.
LEMMA SeqFacts ==
    ASSUME NEW S, NEW T, S \subseteq T
    PROVE  /\ \A x \in Seq(S) : x \in Seq(T) /\ Len(x) \in Nat /\ DOMAIN x = 1..Len(x)
           /\ \A x \in Seq(S) : \A i \in DOMAIN x : x[i] \in S
           /\ \A n \in Nat : \A x \in [1..n -> S] : x \in Seq(S) /\ Len(x) = n
           /\ \A x \in Seq(S) : x \in [1..Len(x) -> S]
           /\ \A x \in Seq(S) : Len(x) = 0 <=> x = <<>>
OBVIOUS

\* An entry taken out of a sequence leaves a sequence that is one shorter.
LEMMA RemoveAtType ==
    ASSUME NEW T, NEW s \in Seq(T), NEW i \in 1..Len(s)
    PROVE  RemoveAt(s, i) \in Seq(T) /\ Len(RemoveAt(s, i)) = Len(s) - 1
<1> DEFINE a == SubSeq(s, 1, i - 1)
           b == SubSeq(s, i + 1, Len(s))
<1>1. a \in Seq(T) /\ Len(a) = i - 1
  OBVIOUS
<1>2. b \in Seq(T) /\ Len(b) = Len(s) - i
  OBVIOUS
<1> HIDE DEF a, b
<1>3. a \o b \in Seq(T) /\ Len(a \o b) = Len(a) + Len(b)
  BY <1>1, <1>2
<1>4. RemoveAt(s, i) = a \o b
  BY Zenon DEF RemoveAt, a, b
<1>5. (i - 1) + (Len(s) - i) = Len(s) - 1
  OBVIOUS
<1> QED BY <1>1, <1>2, <1>3, <1>4, <1>5

\* evictLocked removes exactly one event.
LEMMA EvictType ==
    ASSUME NEW T, NEW h \in Seq(T), h # <<>>
    PROVE  Evict(h) \in Seq(T) /\ Len(Evict(h)) = Len(h) - 1
<1> DEFINE noisy == {i \in DOMAIN h : h[i].type \in Noise}
           i == CHOOSE i \in noisy : \A j \in noisy : i <= j
<1>0. Len(h) \in Nat /\ Len(h) # 0 /\ DOMAIN h = 1..Len(h)
  OBVIOUS
<1>1. CASE noisy = {}
  <2>1. Evict(h) = RemoveAt(h, 1)
    BY <1>1 DEF Evict
  <2>2. 1 \in 1..Len(h)
    BY <1>0
  <2> QED BY <2>1, <2>2, RemoveAtType
<1>2. CASE noisy # {}
  <2>1. noisy \subseteq Nat /\ noisy \subseteq 1..Len(h)
    BY <1>0
  <2>2. \E m \in noisy : \A j \in noisy : m <= j
    <3> HIDE DEF noisy
    <3> QED BY <1>2, <2>1, FirstPosition
  <2>3. i \in noisy
    BY <2>2
  <2>4. Evict(h) = RemoveAt(h, i)
    BY <1>2 DEF Evict
  <2>5. i \in 1..Len(h)
    BY <2>1, <2>3
  <2> HIDE DEF i
  <2> QED BY <2>4, <2>5, RemoveAtType
<1> QED BY <1>1, <1>2

\* The history stays within its capacity.
LEMMA RememberType ==
    ASSUME NEW T, NEW h \in Seq(T), NEW e \in T, Len(h) <= HistoryCap
    PROVE  Remember(h, e) \in Seq(T) /\ Len(Remember(h, e)) <= HistoryCap
<1>0. HistoryCap \in Nat /\ HistoryCap # 0 /\ Len(h) \in Nat
  BY BusAssumption
<1>1. CASE Len(h) >= HistoryCap
  <2>1. h # <<>>
    BY <1>0, <1>1
  <2>2. Evict(h) \in Seq(T) /\ Len(Evict(h)) = Len(h) - 1
    BY <2>1, EvictType
  <2>3. Remember(h, e) = Append(Evict(h), e)
    BY <1>1 DEF Remember
  <2> QED BY <1>0, <2>2, <2>3
<1>2. CASE ~(Len(h) >= HistoryCap)
  BY <1>0, <1>2 DEF Remember
<1> QED BY <1>1, <1>2

\* A cancel shrinks a slice of handlers and adds nobody to it.
LEMMA SwapRemoveType ==
    ASSUME NEW T, NEW hs \in Seq(T), NEW i \in 1..Len(hs)
    PROVE  SwapRemove(hs, i) \in Seq(T)
<1> DEFINE m == [hs EXCEPT ![i] = Last(hs)]
<1>1. Last(hs) \in T
  BY DEF Last
<1>2. m \in Seq(T) /\ Len(m) = Len(hs)
  BY <1>1
<1>3. Len(hs) - 1 \in 0..Len(m)
  BY <1>2
<1>4. SubSeq(m, 1, Len(hs) - 1) \in Seq(T)
  <2> HIDE DEF m
  <2> QED BY <1>2, <1>3
<1> QED BY <1>4 DEF SwapRemove

\* An item is not the mark of an idle worker.
LEMMA NoneIsNoItem == None \notin Items
<1>1. MaxEvents[0] \in Nat /\ MaxSubs \in Nat
  BY BusAssumption
<1>2. Items \subseteq [seq : Nat, h : Nat]
  BY <1>1 DEF Items
<1> QED BY <1>2, BusAssumption

\* The items of a Publish.
LEMMA NewItems ==
    ASSUME TypeOK, NEW t \in Types, seq < MaxEvents[Len(subs)]
    PROVE  [i \in DOMAIN Recipients(t) |-> [seq |-> seq + 1, h |-> Recipients(t)[i]]]
              \in Seq(Items)
<1> DEFINE rs == Recipients(t)
<1>1. subscribers[t] \in Seq(DOMAIN subs) /\ subscribers[All] \in Seq(DOMAIN subs)
  BY DEF TypeOK
<1>2. rs \in Seq(DOMAIN subs)
  BY <1>1 DEF Recipients
<1>3. Len(subs) \in 0..MaxSubs /\ DOMAIN subs \subseteq 1..MaxSubs /\ MaxSubs \in Nat
  <2>1. Len(subs) \in Nat /\ DOMAIN subs = 1..Len(subs) /\ Len(subs) <= MaxSubs
    BY DEF TypeOK
  <2>2. MaxSubs \in Nat
    BY BusAssumption
  <2> QED BY <2>1, <2>2
<1>4. seq + 1 \in 1..MaxEvents[0]
  <2>1. MaxEvents[Len(subs)] <= MaxEvents[0] /\ MaxEvents[0] \in Nat
        /\ MaxEvents[Len(subs)] \in Nat
    BY <1>3, BusAssumption
  <2> QED BY <2>1 DEF TypeOK
<1> HIDE DEF rs
<1>5. \A i \in DOMAIN rs : [seq |-> seq + 1, h |-> rs[i]] \in Items
  BY <1>2, <1>3, <1>4 DEF Items
<1>6. DOMAIN rs = 1..Len(rs) /\ Len(rs) \in Nat
  BY <1>2
<1>7. [i \in DOMAIN rs |-> [seq |-> seq + 1, h |-> rs[i]]] \in Seq(Items)
  BY <1>5, <1>6
<1> QED BY <1>7 DEF rs

-----------------------------------------------------------------------------
(* The type invariant. *)

\* An empty bus is well typed.
LEMMA TypeInit == Init => TypeOK
<1> SUFFICES ASSUME Init PROVE TypeOK
  OBVIOUS
<1>1. /\ subs = <<>> /\ Len(subs) = 0 /\ DOMAIN subs = {} /\ snap = <<>>
      /\ seq = 0 /\ types = <<>> /\ history = <<>> /\ workCh = <<>> /\ atStop = <<>>
  BY DEF Init
<1>2. MaxSubs \in Nat /\ MaxEvents[0] \in Nat /\ HistoryCap \in Nat /\ QueueSize \in Nat
  BY BusAssumption
<1>3. /\ subs \in Seq([type : Types \cup {All}, idx : Nat \ {0}]) /\ Len(subs) <= MaxSubs
      /\ snap \in [DOMAIN subs -> 0..MaxEvents[0]]
      /\ seq \in 0..MaxEvents[Len(subs)]
  BY <1>1, <1>2
<1>4. subscribers \in [Types \cup {All} -> Seq(DOMAIN subs)]
  BY DEF Init
<1>5. /\ types \in Seq(Types) /\ Len(types) = seq
      /\ history \in Seq([seq : 1..seq, type : Types]) /\ Len(history) <= HistoryCap
      /\ workCh \in Seq(Items) /\ Len(workCh) <= QueueSize /\ atStop \in Seq(Items)
  BY <1>1, <1>2
<1>6. /\ pc \in [Publishers -> {"idle", "start", "send"}]
      /\ todo \in [Publishers -> Seq(Items)]
      /\ \A p \in Publishers : /\ pc[p] = "idle" => todo[p] = <<>>
                               /\ pc[p] = "send" => todo[p] # <<>>
  BY DEF Init
<1>7. /\ work \in [Workers -> Items \cup {None}]
      /\ worker \in [Workers -> {"loop", "drain", "exited"}]
      /\ \A w \in Workers : work[w] = None
  BY DEF Init
<1>8. /\ cancelled = {} /\ victims = {} /\ got = {}
      /\ workersOnce = "fresh" /\ stop = "no"
  BY DEF Init
<1> QED BY <1>1, <1>3, <1>4, <1>5, <1>6, <1>7, <1>8 DEF TypeOK

\* A subscription and a cancel touch the subscriptions only.
LEMMA TypeSubscribe ==
    ASSUME TypeOK, NEW t \in Types \cup {All}, Subscribe(t)
    PROVE  TypeOK'
<1> DEFINE n == Len(subs) + 1
<1>1. /\ Len(subs) \in Nat /\ DOMAIN subs = 1..Len(subs) /\ MaxSubs \in Nat
      /\ n <= MaxSubs /\ seq <= MaxEvents[n] /\ MaxEvents[n] \in Nat /\ seq \in Nat
  <2>1. Len(subs) \in Nat /\ DOMAIN subs = 1..Len(subs) /\ Len(subs) < MaxSubs
    BY DEF TypeOK, Subscribe
  <2>2. MaxSubs \in Nat /\ n \in 0..MaxSubs
    BY <2>1, BusAssumption
  <2>3. MaxEvents[n] \in Nat /\ MaxEvents[Len(subs)] \in Nat
    BY <2>1, <2>2, BusAssumption
  <2> QED BY <2>1, <2>2, <2>3 DEF TypeOK, Subscribe
<1>2. /\ subs' \in Seq([type : Types \cup {All}, idx : Nat \ {0}])
      /\ Len(subs') = n /\ DOMAIN subs' = 1..n
  <2>1. subscribers[t] \in Seq(DOMAIN subs)
    BY DEF TypeOK
  <2>2. [type |-> t, idx |-> Len(subscribers[t]) + 1]
          \in [type : Types \cup {All}, idx : Nat \ {0}]
    BY <2>1
  <2> QED BY <1>1, <2>2 DEF Subscribe, TypeOK
<1>3. subscribers' \in [Types \cup {All} -> Seq(DOMAIN subs')]
  <2>1. \A u \in Types \cup {All} : subscribers[u] \in Seq(1..n)
    <3>1. \A u \in Types \cup {All} : subscribers[u] \in Seq(1..Len(subs))
      BY <1>1 DEF TypeOK
    <3>2. 1..Len(subs) \subseteq 1..n
      BY <1>1
    <3> QED BY <3>1, <3>2
  <2>2. n \in 1..n
    BY <1>1
  <2>3. Append(subscribers[t], n) \in Seq(1..n)
    <3> HIDE DEF n
    <3> QED BY <2>1, <2>2
  <2>4. subscribers' = [subscribers EXCEPT ![t] = Append(@, n)]
    BY DEF Subscribe
  <2> HIDE DEF n
  <2> QED BY <1>2, <2>1, <2>3, <2>4 DEF TypeOK
<1>4. snap' \in [DOMAIN subs' -> 0..MaxEvents[0]]
  <2> DEFINE v == IF history = <<>> THEN 0 ELSE Last(history).seq
  <2>1. v \in 0..seq
    <3>1. CASE history = <<>>
      BY <1>1, <3>1
    <3>2. CASE history # <<>>
      <4>1. Len(history) \in DOMAIN history /\ history \in Seq([seq : 1..seq, type : Types])
        BY <3>2 DEF TypeOK
      <4>2. history[Len(history)] \in [seq : 1..seq, type : Types]
        BY <4>1, SeqFacts
      <4> QED BY <1>1, <3>2, <4>2 DEF Last
    <3> QED BY <3>1, <3>2
  <2>2. MaxEvents[n] <= MaxEvents[0] /\ MaxEvents[0] \in Nat
    BY <1>1, BusAssumption
  <2>3. v \in 0..MaxEvents[0]
    <3> HIDE DEF v
    <3> QED BY <1>1, <2>1, <2>2
  <2>4. snap \in Seq(0..MaxEvents[0]) /\ Len(snap) = Len(subs)
    <3> DEFINE S == 0..MaxEvents[0]
    <3>1. snap \in [1..Len(subs) -> S]
      BY <1>1 DEF TypeOK
    <3> HIDE DEF S
    <3>2. snap \in Seq(S) /\ Len(snap) = Len(subs)
      BY <1>1, <3>1, SeqFacts
    <3> QED BY <3>2 DEF S
  <2>5. snap' = Append(snap, v)
    BY DEF Subscribe
  <2>6. snap' \in Seq(0..MaxEvents[0]) /\ Len(snap') = n
    <3> HIDE DEF v
    <3> QED BY <2>3, <2>4, <2>5
  <2> DEFINE S == 0..MaxEvents[0]
  <2> HIDE DEF n, S
  <2>7. snap' \in [1..n -> S]
    BY <2>6, SeqFacts DEF S
  <2> QED BY <1>2, <2>7 DEF S
<1>5. cancelled' \subseteq DOMAIN subs' /\ victims' \subseteq DOMAIN subs'
  <2>1. DOMAIN subs \subseteq DOMAIN subs'
    BY <1>1, <1>2
  <2>2. UNCHANGED <<cancelled, victims>>
    BY DEF Subscribe
  <2>3. cancelled \subseteq DOMAIN subs /\ victims \subseteq DOMAIN subs
    BY DEF TypeOK
  <2> QED BY <2>1, <2>2, <2>3
<1>6. seq' \in 0..MaxEvents'[Len(subs')] /\ Len(subs') <= MaxSubs
  BY <1>1, <1>2 DEF Subscribe, logVars
<1> HIDE DEF n
<1> QED BY <1>2, <1>3, <1>4, <1>5, <1>6
        DEF TypeOK, Subscribe, logVars, poolVars

\* See Cancel.
LEMMA TypeCancel ==
    ASSUME TypeOK, NEW s \in DOMAIN subs, Cancel(s)
    PROVE  TypeOK'
<1> DEFINE t == subs[s].type
           i == subs[s].idx
           hs == subscribers[t]
<1>1. t \in Types \cup {All} /\ i \in Nat \ {0} /\ hs \in Seq(DOMAIN subs)
  <2>1. subs[s] \in [type : Types \cup {All}, idx : Nat \ {0}]
    <3> DEFINE R == [type : Types \cup {All}, idx : Nat \ {0}]
    <3>1. subs \in Seq(R)
      BY DEF TypeOK
    <3> HIDE DEF R
    <3>2. subs[s] \in R
      BY <3>1, SeqFacts
    <3> QED BY <3>2 DEF R
  <2>2. t \in Types \cup {All} /\ i \in Nat \ {0}
    BY <2>1
  <2> QED BY <2>2 DEF TypeOK
<1>2. UNCHANGED <<subs, snap, logVars, poolVars, workCh, pc, todo, work, got>>
      /\ cancelled' = cancelled \cup {s}
  BY DEF Cancel
<1>3. /\ subscribers' \in [Types \cup {All} -> Seq(DOMAIN subs)]
      /\ victims' \subseteq DOMAIN subs
  <2>1. CASE i > Len(hs)
    BY <2>1 DEF Cancel, TypeOK
  <2>2. CASE ~(i > Len(hs))
    <3>1. i \in 1..Len(hs)
      BY <1>1, <2>2
    <3>2. SwapRemove(hs, i) \in Seq(DOMAIN subs) /\ hs[i] \in DOMAIN subs
      BY <1>1, <3>1, SwapRemoveType
    <3>3. /\ subscribers' = [subscribers EXCEPT ![t] = SwapRemove(hs, i)]
          /\ victims' = victims \cup ({hs[i]} \ {s})
      BY <2>2 DEF Cancel
    <3> HIDE DEF t, i, hs
    <3> QED BY <1>1, <3>2, <3>3 DEF TypeOK
  <2> QED BY <2>1, <2>2
<1> QED BY <1>2, <1>3 DEF TypeOK, logVars, poolVars

\* The critical section of Publish.
LEMMA TypePublish ==
    ASSUME TypeOK, NEW p \in Publishers, NEW t \in Types, Publish(p, t)
    PROVE  TypeOK'
<1> DEFINE e == [seq |-> seq + 1, type |-> t]
           T == [seq : 1..(seq + 1), type : Types]
           xs == [i \in DOMAIN Recipients(t) |-> [seq |-> seq + 1, h |-> Recipients(t)[i]]]
<1>1. /\ seq < MaxEvents[Len(subs)] /\ seq' = seq + 1 /\ types' = Append(types, t)
      /\ history' = Remember(history, e)
      /\ todo' = [todo EXCEPT ![p] = xs] /\ pc' = [pc EXCEPT ![p] = "start"]
      /\ UNCHANGED <<subVars, poolVars, workCh, work, got>>
  BY DEF Publish
<1>2. xs \in Seq(Items)
  BY <1>1, NewItems
<1>3. seq \in Nat /\ MaxEvents[Len(subs)] \in Nat
  <2>1. Len(subs) \in 0..MaxSubs
    BY BusAssumption DEF TypeOK
  <2>2. MaxEvents[Len(subs)] \in Nat
    BY <2>1, BusAssumption
  <2> QED BY <2>2 DEF TypeOK
<1>4. history' \in Seq([seq : 1..seq', type : Types]) /\ Len(history') <= HistoryCap
  <2>1. e \in T
    BY <1>3
  <2>2. [seq : 1..seq, type : Types] \subseteq T
    BY <1>3
  <2>3. history \in Seq(T) /\ Len(history) <= HistoryCap
    <3>1. history \in Seq([seq : 1..seq, type : Types]) /\ Len(history) <= HistoryCap
      BY DEF TypeOK
    <3> HIDE DEF T
    <3> QED BY <2>2, <3>1, SeqFacts
  <2> HIDE DEF e, T
  <2>4. Remember(history, e) \in Seq(T) /\ Len(Remember(history, e)) <= HistoryCap
    BY <2>1, <2>3, RememberType
  <2> QED BY <1>1, <2>4 DEF T
<1>5. /\ seq' \in 0..MaxEvents[Len(subs)] /\ types' \in Seq(Types) /\ Len(types') = seq'
  <2>1. types \in Seq(Types) /\ Len(types) = seq
    BY DEF TypeOK
  <2>2. types' \in Seq(Types) /\ Len(types') = seq + 1
    BY <1>1, <2>1
  <2>3. seq + 1 \in 0..MaxEvents[Len(subs)]
    BY <1>1, <1>3
  <2> QED BY <1>1, <2>2, <2>3
<1>6. /\ pc' \in [Publishers -> {"idle", "start", "send"}]
      /\ todo' \in [Publishers -> Seq(Items)]
      /\ \A q \in Publishers : /\ pc'[q] = "idle" => todo'[q] = <<>>
                               /\ pc'[q] = "send" => todo'[q] # <<>>
  <2> HIDE DEF xs
  <2> QED BY <1>1, <1>2 DEF TypeOK
<1> QED BY <1>1, <1>4, <1>5, <1>6 DEF TypeOK, subVars, poolVars

\* The rest of Publish: the pool is started, and items move into the queue.
LEMMA TypeSend ==
    ASSUME TypeOK, NEW p \in Publishers, StartWorkers(p) \/ Send(p)
    PROVE  TypeOK'
<1>0. /\ pc \in [Publishers -> {"idle", "start", "send"}]
      /\ todo \in [Publishers -> Seq(Items)] /\ todo[p] \in Seq(Items)
      /\ workCh \in Seq(Items) /\ Len(workCh) <= QueueSize /\ QueueSize \in Nat
      /\ \A q \in Publishers : /\ pc[q] = "idle" => todo[q] = <<>>
                               /\ pc[q] = "send" => todo[q] # <<>>
  BY BusAssumption DEF TypeOK
<1>1. CASE StartWorkers(p)
  <2>1. /\ pc' \in [Publishers -> {"idle", "start", "send"}]
        /\ \A q \in Publishers : /\ pc'[q] = "idle" => todo'[q] = <<>>
                                 /\ pc'[q] = "send" => todo'[q] # <<>>
    BY <1>0, <1>1 DEF StartWorkers
  <2>2. /\ workersOnce' \in {"fresh", "started", "claimed"}
        /\ workersOnce = "started" => workersOnce' = "started"
    BY <1>1 DEF StartWorkers, TypeOK
  <2> QED BY <1>1, <2>1, <2>2 DEF StartWorkers, TypeOK, subVars, logVars
<1>2. CASE Send(p)
  <2>1. Head(todo[p]) \in Items /\ Tail(todo[p]) \in Seq(Items)
        /\ Len(todo[p]) \in Nat /\ Len(Tail(todo[p])) = Len(todo[p]) - 1
    BY <1>0, <1>2 DEF Send
  <2>2. workCh' \in Seq(Items) /\ Len(workCh') <= QueueSize
    BY <1>0, <1>2, <2>1 DEF Send
  <2>3. todo' = [todo EXCEPT ![p] = Tail(todo[p])] /\ todo' \in [Publishers -> Seq(Items)]
    BY <1>0, <1>2, <2>1 DEF Send
  <2>4. pc' \in [Publishers -> {"idle", "start", "send"}]
    BY <1>0, <1>2 DEF Send
  <2>5. Len(todo[p]) = 1 <=> Tail(todo[p]) = <<>>
    <3> DEFINE tl == Tail(todo[p])
    <3>1. Len(tl) = 0 <=> tl = <<>>
      <4> HIDE DEF tl
      <4> QED BY <2>1, SeqFacts DEF tl
    <3> QED BY <2>1, <3>1
  <2>6. \A q \in Publishers : /\ pc'[q] = "idle" => todo'[q] = <<>>
                              /\ pc'[q] = "send" => todo'[q] # <<>>
    BY <1>0, <1>2, <2>3, <2>5 DEF Send
  <2> QED BY <1>2, <2>2, <2>3, <2>4, <2>6 DEF Send, TypeOK, subVars, logVars, poolVars
<1> QED BY <1>1, <1>2

\* The workers and Stop.
LEMMA TypePool ==
    ASSUME TypeOK,
           \/ \E w \in Workers : Receive(w) \/ HandlerReturn(w) \/ SeeStop(w) \/ Exit(w)
           \/ StopBegin \/ StopReturn
    PROVE  TypeOK'
<1>1. ASSUME NEW w \in Workers, Receive(w) PROVE TypeOK'
  <2>1. Head(workCh) \in Items /\ Tail(workCh) \in Seq(Items)
        /\ Len(Tail(workCh)) <= QueueSize
    BY <1>1, BusAssumption DEF Receive, TypeOK
  <2>2. work' \in [Workers -> Items \cup {None}]
    BY <1>1, <2>1 DEF Receive, TypeOK
  <2>3. /\ workersOnce' = "started" /\ workCh' = Tail(workCh)
        /\ UNCHANGED <<subVars, logVars, poolVars, pc, todo, got>>
    BY <1>1 DEF Receive, poolVars
  <2> QED BY <2>1, <2>2, <2>3 DEF TypeOK, subVars, logVars, poolVars
<1>2. ASSUME NEW w \in Workers, HandlerReturn(w) PROVE TypeOK'
  <2>1. work[w] \in Items /\ work' = [work EXCEPT ![w] = None]
        /\ got' = got \cup {work[w]}
        /\ UNCHANGED <<subVars, logVars, poolVars, workCh, pc, todo>>
    BY <1>2 DEF HandlerReturn, TypeOK
  <2>2. work' \in [Workers -> Items \cup {None}]
        /\ \A u \in Workers : work'[u] # None => work[u] # None
    BY <2>1 DEF TypeOK
  <2> QED BY <2>1, <2>2 DEF TypeOK, subVars, logVars, poolVars
<1>3. ASSUME NEW w \in Workers, SeeStop(w) \/ Exit(w) PROVE TypeOK'
  <2>1. /\ worker' \in [Workers -> {"loop", "drain", "exited"}]
        /\ UNCHANGED <<subVars, logVars, workersOnce, stop, atStop, workCh, pc, todo, work, got>>
    BY <1>3 DEF SeeStop, Exit, TypeOK
  <2> QED BY <2>1 DEF TypeOK, subVars, logVars
<1>4. ASSUME StopBegin PROVE TypeOK'
  <2>1. /\ stop' \in {"no", "closed", "returned"} /\ atStop' \in Seq(Items)
        /\ workersOnce' \in {"fresh", "started", "claimed"}
        /\ workersOnce = "started" => workersOnce' = "started"
        /\ UNCHANGED <<subVars, logVars, worker, workCh, pc, todo, work, got>>
    BY <1>4 DEF StopBegin, TypeOK
  <2> QED BY <2>1 DEF TypeOK, subVars, logVars
<1>5. ASSUME StopReturn PROVE TypeOK'
  BY <1>5 DEF StopReturn, TypeOK, subVars, logVars
<1> QED BY <1>1, <1>2, <1>3, <1>4, <1>5

\* Every step keeps the types.
LEMMA TypeStep == TypeOK /\ [Next]_vars => TypeOK'
<1> SUFFICES ASSUME TypeOK, [Next]_vars PROVE TypeOK'
  OBVIOUS
<1>1. CASE \E t \in Types \cup {All} : Subscribe(t)
  BY <1>1, TypeSubscribe
<1>2. CASE \E s \in DOMAIN subs : Cancel(s)
  BY <1>2, TypeCancel
<1>3. CASE \/ \E c \in Callers, t \in Types : Publish(c, t)
           \/ \E w \in Workers, t \in Types : HandlerPublish(w, t)
  BY <1>3, TypePublish DEF HandlerPublish, Publishers
<1>4. CASE \E p \in Publishers : StartWorkers(p) \/ Send(p)
  BY <1>4, TypeSend
<1>5. CASE \/ \E w \in Workers : Receive(w) \/ HandlerReturn(w) \/ SeeStop(w) \/ Exit(w)
           \/ StopBegin \/ StopReturn
  BY <1>5, TypePool
<1>6. CASE UNCHANGED vars
  BY <1>6 DEF TypeOK, vars, subVars, logVars, poolVars
<1> QED BY <1>1, <1>2, <1>3, <1>4, <1>5, <1>6 DEF Next

-----------------------------------------------------------------------------
(* Stop. *)

\* The steps that leave the pool, the queue and the handlers alone.
LEMMA StopFrame ==
    ASSUME StopInv, UNCHANGED <<worker, stop, atStop, work, got>>,
           workersOnce' = workersOnce \/ (workersOnce = "fresh" /\ workersOnce' = "started"),
           \A i \in DOMAIN atStop : Queued(atStop[i]) => Queued(atStop[i])'
    PROVE  StopInv'
<1>1. \A i \in DOMAIN atStop : Handling(atStop[i]) => Handling(atStop[i])'
  BY DEF Handling
<1>2. \A i \in DOMAIN atStop' :
        \/ (atStop[i] \in got)' \/ Handling(atStop[i])'
        \/ Queued(atStop[i])' /\ \A w \in Workers : worker'[w] # "exited"
  BY <1>1 DEF StopInv
<1> QED BY <1>2 DEF StopInv

\* A send leaves what is queued in the queue.
LEMMA StopSend ==
    ASSUME TypeOK, StopInv, NEW p \in Publishers, Send(p)
    PROVE  StopInv'
<1> DEFINE x == Head(todo[p])
<1>1. workCh \in Seq(Items) /\ workCh' = Append(workCh, x)
  BY DEF TypeOK, Send
<1>2. DOMAIN workCh \subseteq DOMAIN workCh' /\ \A j \in DOMAIN workCh : workCh'[j] = workCh[j]
  <2> HIDE DEF x
  <2> QED BY <1>1
<1>3. ASSUME NEW i \in DOMAIN atStop, Queued(atStop[i]) PROVE Queued(atStop[i])'
  BY <1>2, <1>3 DEF Queued, Send, poolVars
<1> QED BY <1>3, StopFrame DEF Send, poolVars

\* A worker takes the first item of the queue into its handler.
LEMMA StopReceive ==
    ASSUME TypeOK, StopInv, NEW w \in Workers, Receive(w)
    PROVE  StopInv'
<1>1. /\ work[w] = None /\ workCh # <<>> /\ worker[w] # "exited" /\ workersOnce = "started"
      /\ work' = [work EXCEPT ![w] = Head(workCh)] /\ workCh' = Tail(workCh)
      /\ UNCHANGED <<workersOnce, worker, stop, atStop, got>>
  BY DEF Receive, poolVars
<1>2. work'[w] = Head(workCh) /\ \A u \in Workers : u # w => work'[u] = work[u]
  BY <1>1 DEF TypeOK
<1>3. \A j \in DOMAIN workCh : \/ \E k \in DOMAIN workCh' : workCh'[k] = workCh[j]
                               \/ \E u \in Workers : work'[u] = workCh[j]
  <2> SUFFICES ASSUME NEW j \in DOMAIN workCh
               PROVE  \/ \E k \in DOMAIN workCh' : workCh'[k] = workCh[j]
                      \/ \E u \in Workers : work'[u] = workCh[j]
    OBVIOUS
  <2>1. workCh \in Seq(Items) /\ DOMAIN workCh = 1..Len(workCh) /\ Len(workCh) \in Nat
    BY DEF TypeOK
  <2>2. CASE j = 1
    BY <1>1, <1>2, <2>1, <2>2
  <2>3. CASE j # 1
    <3>1. j - 1 \in DOMAIN Tail(workCh) /\ Tail(workCh)[j - 1] = workCh[j]
      BY <1>1, <2>1, <2>3
    <3> QED BY <1>1, <3>1
  <2> QED BY <2>2, <2>3
<1>4. ASSUME NEW u \in Workers, work[u] # None PROVE work'[u] = work[u]
  BY <1>1, <1>2, <1>4
<1>5. ASSUME NEW i \in DOMAIN atStop
      PROVE  \/ atStop[i] \in got \/ \E u \in Workers : work'[u] = atStop[i]
             \/ /\ \E k \in DOMAIN workCh' : workCh'[k] = atStop[i]
                /\ \A u \in Workers : worker[u] # "exited"
  <2>1. atStop[i] # None
    BY NoneIsNoItem, SeqFacts DEF TypeOK
  <2>2. CASE atStop[i] \in got
    BY <2>2
  <2>3. CASE Handling(atStop[i])
    BY <1>4, <2>1, <2>3 DEF Handling
  <2>4. CASE Queued(atStop[i]) /\ \A u \in Workers : worker[u] # "exited"
    BY <1>3, <2>4 DEF Queued
  <2> QED BY <2>2, <2>3, <2>4 DEF StopInv
<1>6. \A u \in Workers : worker'[u] = "exited" => work'[u] = None
  BY <1>1, <1>2 DEF StopInv
<1> QED BY <1>1, <1>5, <1>6 DEF StopInv, Handling, Queued

\* A handler returns: its item is handled.
LEMMA StopHandled ==
    ASSUME TypeOK, StopInv, NEW w \in Workers, HandlerReturn(w)
    PROVE  StopInv'
<1>1. /\ got' = got \cup {work[w]} /\ work' = [work EXCEPT ![w] = None]
      /\ UNCHANGED <<workersOnce, worker, stop, atStop, workCh>>
  BY DEF HandlerReturn, poolVars
<1>2. work'[w] = None /\ \A u \in Workers : u # w => work'[u] = work[u]
  BY <1>1 DEF TypeOK
<1>3. ASSUME NEW i \in DOMAIN atStop
      PROVE  \/ atStop[i] \in got' \/ \E u \in Workers : work'[u] = atStop[i]
             \/ /\ \E k \in DOMAIN workCh : workCh[k] = atStop[i]
                /\ \A u \in Workers : worker[u] # "exited"
  BY <1>1, <1>2 DEF StopInv, Handling, Queued
<1>4. \A u \in Workers : worker'[u] = "exited" => work'[u] = None
  BY <1>1, <1>2 DEF StopInv
<1> QED BY <1>1, <1>3, <1>4 DEF StopInv, Handling, Queued

\* A worker leaves its loops, the inner one only when the queue is empty.
LEMMA StopLeave ==
    ASSUME TypeOK, StopInv, NEW w \in Workers, SeeStop(w) \/ Exit(w)
    PROVE  StopInv'
<1>1. /\ work[w] = None /\ worker \in [Workers -> {"loop", "drain", "exited"}]
      /\ UNCHANGED <<workersOnce, stop, atStop, workCh, work, got>>
  BY DEF SeeStop, Exit, TypeOK
<1>2. CASE SeeStop(w)
  <2>1. worker' = [worker EXCEPT ![w] = "drain"] /\ worker[w] = "loop" /\ workersOnce = "started"
        /\ stop # "no"
    BY <1>2 DEF SeeStop
  <2>2. \A u \in Workers : worker'[u] = "exited" <=> worker[u] = "exited"
    BY <1>1, <2>1
  <2> QED BY <1>1, <2>1, <2>2 DEF StopInv, Handling, Queued
<1>3. CASE Exit(w)
  <2>1. worker' = [worker EXCEPT ![w] = "exited"] /\ workCh = <<>> /\ worker[w] = "drain"
    BY <1>3 DEF Exit, Drained
  <2>2. \A u \in Workers : worker'[u] = "exited" <=> worker[u] = "exited" \/ u = w
    BY <1>1, <2>1
  <2>3. \A i \in DOMAIN atStop : ~Queued(atStop[i])
    BY <2>1 DEF Queued
  <2>4. \A i \in DOMAIN atStop : atStop[i] \in got \/ Handling(atStop[i])
    BY <2>3 DEF StopInv
  <2>5. stop # "no"
    BY <2>1 DEF StopInv
  <2> QED BY <1>1, <2>2, <2>4, <2>5 DEF StopInv, Handling, Queued
<1> QED BY <1>2, <1>3

\* Stop takes note of the queue, and returns when every worker has exited.
LEMMA StopStop ==
    ASSUME TypeOK, StopInv, StopBegin \/ StopReturn
    PROVE  StopInv'
<1>1. CASE StopBegin
  <2>0. /\ stop = "no" /\ stop' # "no" /\ \A w \in Workers : worker[w] # "exited"
        /\ UNCHANGED <<worker, workCh, work, got>>
    BY <1>1 DEF StopBegin, StopInv
  <2>1. CASE workersOnce = "started"
    <3>1. stop' = "closed" /\ atStop' = workCh /\ workersOnce' = "started"
      BY <1>1, <2>1 DEF StopBegin
    <3>2. \A i \in DOMAIN atStop' : Queued(atStop'[i])
      BY <3>1 DEF Queued
    <3> QED BY <2>0, <3>1, <3>2 DEF StopInv, Handling, Queued
  <2>2. CASE workersOnce # "started"
    <3>1. stop' = "returned" /\ workersOnce' = "claimed" /\ atStop' = atStop /\ atStop = <<>>
      BY <1>1, <2>2 DEF StopBegin, StopInv
    <3> QED BY <2>0, <3>1 DEF StopInv, Handling, Queued
  <2> QED BY <2>1, <2>2
<1>2. CASE StopReturn
  BY <1>2 DEF StopReturn, StopInv, Handling, Queued
<1> QED BY <1>1, <1>2

\* The invariant holds at the start and every step keeps it.
LEMMA InvInit == Init => PoolInv
<1> SUFFICES ASSUME Init PROVE PoolInv
  OBVIOUS
<1>1. atStop = <<>> /\ DOMAIN atStop = {} /\ stop = "no"
      /\ \A w \in Workers : worker[w] = "loop"
  BY DEF Init
<1>2. StopInv
  BY <1>1 DEF StopInv
<1> QED BY <1>2, TypeInit DEF PoolInv

\* See InvInit.
LEMMA InvStep == PoolInv /\ [Next]_vars => PoolInv'
<1> SUFFICES ASSUME TypeOK, StopInv, [Next]_vars PROVE StopInv'
  BY TypeStep DEF PoolInv
<1>1. CASE \/ \E t \in Types \cup {All} : Subscribe(t)
           \/ \E s \in DOMAIN subs : Cancel(s)
           \/ UNCHANGED vars
  <2>1. UNCHANGED <<worker, stop, atStop, work, got, workersOnce, workCh>>
    BY <1>1 DEF Subscribe, Cancel, vars, poolVars
  <2>2. \A i \in DOMAIN atStop : Queued(atStop[i]) => Queued(atStop[i])'
    BY <2>1 DEF Queued
  <2> QED BY <2>1, <2>2, StopFrame
<1>2. CASE \/ \E c \in Callers, t \in Types : Publish(c, t)
           \/ \E w \in Workers, t \in Types : HandlerPublish(w, t)
           \/ \E p \in Publishers : StartWorkers(p)
  <2>1. UNCHANGED <<worker, stop, atStop, work, got, workCh>>
    BY <1>2 DEF Publish, HandlerPublish, StartWorkers, poolVars
  <2>2. workersOnce' = workersOnce \/ (workersOnce = "fresh" /\ workersOnce' = "started")
    BY <1>2 DEF Publish, HandlerPublish, StartWorkers, poolVars
  <2>3. \A i \in DOMAIN atStop : Queued(atStop[i]) => Queued(atStop[i])'
    BY <2>1 DEF Queued
  <2> QED BY <2>1, <2>2, <2>3, StopFrame
<1>3. CASE \E p \in Publishers : Send(p)
  BY <1>3, StopSend
<1>4. CASE \E w \in Workers : Receive(w)
  BY <1>4, StopReceive
<1>5. CASE \E w \in Workers : HandlerReturn(w)
  BY <1>5, StopHandled
<1>6. CASE \E w \in Workers : SeeStop(w) \/ Exit(w)
  BY <1>6, StopLeave
<1>7. CASE StopBegin \/ StopReturn
  BY <1>7, StopStop
<1> QED BY <1>1, <1>2, <1>3, <1>4, <1>5, <1>6, <1>7 DEF Next

-----------------------------------------------------------------------------
(* Theorems. *)

\* The inductive invariant holds in every instance of the bus.
THEOREM PoolIsSound == Spec => []PoolInv
BY InvInit, InvStep, PTL DEF Spec

\* Stop returns only when everything that was queued at its call has been
\* handled and no handler is running, whatever is published meanwhile.
THEOREM StopDrains == Spec => []StopDrainsQueue
<1>1. PoolInv => StopDrainsQueue
  <2> SUFFICES ASSUME TypeOK, StopInv, stop = "returned"
               PROVE  /\ \A i \in DOMAIN atStop : atStop[i] \in got
                      /\ \A w \in Workers : work[w] = None
    BY DEF PoolInv, StopDrainsQueue
  <2>1. CASE workersOnce = "claimed"
    <3>1. atStop = <<>> /\ DOMAIN atStop = {}
      BY <2>1 DEF StopInv
    <3>2. \A w \in Workers : work[w] = None
      BY <2>1 DEF TypeOK
    <3> QED BY <3>1, <3>2
  <2>2. CASE \A w \in Workers : worker[w] = "exited"
    <3>1. \A w \in Workers : work[w] = None
      BY <2>2 DEF StopInv
    <3>2. ASSUME NEW i \in DOMAIN atStop PROVE atStop[i] \in got
      <4>1. atStop[i] # None
        BY NoneIsNoItem, SeqFacts DEF TypeOK
      <4>2. ~Handling(atStop[i])
        BY <3>1, <4>1 DEF Handling
      <4>3. \E w \in Workers : worker[w] = "exited"
        BY <2>2, BusAssumption
      <4> QED BY <4>2, <4>3 DEF StopInv
    <3> QED BY <3>1, <3>2
  <2> QED BY <2>1, <2>2 DEF StopInv
<1> QED BY <1>1, PoolIsSound, PTL

-----------------------------------------------------------------------------
(* The history. *)

\* What is left after an entry is taken out.
LEMMA RemoveAtEntries ==
    ASSUME NEW T, NEW s \in Seq(T), NEW i \in 1..Len(s)
    PROVE  \A k \in 1..(Len(s) - 1) : RemoveAt(s, i)[k] = IF k < i THEN s[k] ELSE s[k + 1]
<1> DEFINE a == SubSeq(s, 1, i - 1)
           b == SubSeq(s, i + 1, Len(s))
<1>1. a \in Seq(T) /\ Len(a) = i - 1 /\ \A k \in 1..(i - 1) : a[k] = s[k]
  OBVIOUS
<1>2. b \in Seq(T) /\ Len(b) = Len(s) - i /\ \A k \in 1..(Len(s) - i) : b[k] = s[k + i]
  OBVIOUS
<1>3. RemoveAt(s, i) = a \o b
  BY Zenon DEF RemoveAt
<1> HIDE DEF a, b
<1>4. SUFFICES ASSUME NEW k \in 1..(Len(s) - 1)
               PROVE  (a \o b)[k] = IF k < i THEN s[k] ELSE s[k + 1]
  BY <1>3
<1>5. Len(s) \in Nat
  OBVIOUS
<1>6. CASE k < i
  <2>1. k \in 1..Len(a)
    BY <1>1, <1>5, <1>6
  <2>2. (a \o b)[k] = a[k]
    BY <1>1, <1>2, <2>1
  <2> QED BY <1>1, <1>6, <2>1, <2>2
<1>7. CASE ~(k < i)
  <2>1. k - Len(a) \in 1..Len(b) /\ k - Len(a) = k - i + 1 /\ k - Len(a) + i = k + 1
    BY <1>1, <1>2, <1>5, <1>7
  <2>2. (a \o b)[k] = b[k - Len(a)]
    BY <1>1, <1>2, <1>5, <1>7, <2>1
  <2>3. b[k - Len(a)] = s[k + 1]
    BY <1>2, <2>1
  <2> QED BY <1>7, <2>2, <2>3
<1> QED BY <1>6, <1>7

\* evictLocked takes out noise, or, when there is none, the oldest event.
LEMMA EvictEntry ==
    ASSUME NEW T, NEW h \in Seq(T), h # <<>>
    PROVE  \E i \in 1..Len(h) :
              /\ Evict(h) = RemoveAt(h, i)
              /\ h[i].type \in Noise \/ (i = 1 /\ \A j \in 1..Len(h) : h[j].type \notin Noise)
<1> DEFINE noisy == {i \in DOMAIN h : h[i].type \in Noise}
           i == CHOOSE i \in noisy : \A j \in noisy : i <= j
<1>0. Len(h) \in Nat /\ Len(h) # 0 /\ DOMAIN h = 1..Len(h)
  OBVIOUS
<1>1. CASE noisy = {}
  <2>1. Evict(h) = RemoveAt(h, 1)
    BY <1>1 DEF Evict
  <2>2. 1 \in 1..Len(h) /\ \A j \in 1..Len(h) : h[j].type \notin Noise
    BY <1>0, <1>1
  <2> QED BY <2>1, <2>2
<1>2. CASE noisy # {}
  <2>1. noisy \subseteq Nat
    BY <1>0
  <2>2. \E m \in noisy : \A j \in noisy : m <= j
    <3> HIDE DEF noisy
    <3> QED BY <1>2, <2>1, FirstPosition
  <2>3. i \in noisy
    BY <2>2
  <2>4. Evict(h) = RemoveAt(h, i)
    BY <1>2 DEF Evict
  <2>5. i \in 1..Len(h) /\ h[i].type \in Noise
    BY <1>0, <2>3
  <2> HIDE DEF i
  <2> QED BY <2>4, <2>5
<1> QED BY <1>1, <1>2

\* Position m of a history is still there, at position k, when x is appended.
Survives(h, r, m) == \E k \in 1..(Len(r) - 1) : r[k] = h[m]

\* The first n positions of r are positions of h, in the order of h.
TakenFrom(h, r, n) ==
    /\ \A k \in 1..n : \E m \in 1..Len(h) : r[k] = h[m]
    /\ \A k, l \in 1..n : k < l =>
          \E m, o \in 1..Len(h) : m < o /\ r[k] = h[m] /\ r[l] = h[o]

\* The only event without noise that History.Append may drop.
Crowded(h, m) ==
    m = 1 /\ Len(h) = HistoryCap /\ \A j \in 1..Len(h) : h[j].type \notin Noise

KeepsSignals(h, r) ==
    \A m \in 1..Len(h) : Survives(h, r, m) \/ h[m].type \in Noise \/ Crowded(h, m)

\* History.Append keeps the order, and drops at most one event: noise, or the
\* oldest event of a full history without noise.
LEMMA RememberEntries ==
    ASSUME NEW T, NEW h \in Seq(T), NEW e \in T, Len(h) <= HistoryCap,
           NEW r, r = Remember(h, e)
    PROVE  /\ r \in Seq(T) /\ Len(r) \in Nat \ {0} /\ r[Len(r)] = e
           /\ TakenFrom(h, r, Len(r) - 1)
           /\ KeepsSignals(h, r)
<1>0. HistoryCap \in Nat /\ HistoryCap # 0 /\ Len(h) \in Nat
  BY BusAssumption
<1>1. CASE Len(h) >= HistoryCap
  <2> DEFINE v == Evict(h)
  <2>1. h # <<>> /\ Len(h) = HistoryCap
    BY <1>0, <1>1
  <2>2. v \in Seq(T) /\ Len(v) = Len(h) - 1
    BY <2>1, EvictType
  <2>3. PICK i \in 1..Len(h) :
           /\ v = RemoveAt(h, i)
           /\ h[i].type \in Noise \/ (i = 1 /\ \A j \in 1..Len(h) : h[j].type \notin Noise)
    BY <2>1, EvictEntry
  <2>4. \A k \in 1..(Len(h) - 1) : v[k] = IF k < i THEN h[k] ELSE h[k + 1]
    BY <2>3, RemoveAtEntries
  <2>5. r = Append(v, e)
    BY <1>1 DEF Remember
  <2> HIDE DEF v
  <2>6. /\ r \in Seq(T) /\ Len(r) = Len(h) /\ r[Len(r)] = e
        /\ \A k \in 1..(Len(h) - 1) : r[k] = v[k]
    BY <1>0, <2>1, <2>2, <2>5
  <2>7. \A k \in 1..(Len(h) - 1) : \E m \in 1..Len(h) : r[k] = h[m]
    <3>1. ASSUME NEW k \in 1..(Len(h) - 1) PROVE \E m \in 1..Len(h) : r[k] = h[m]
      <4>1. k \in 1..Len(h) /\ k + 1 \in 1..Len(h)
        BY <1>0
      <4> QED BY <2>4, <2>6, <4>1
    <3> QED BY <3>1
  <2>8. ASSUME NEW k \in 1..(Len(h) - 1), NEW l \in 1..(Len(h) - 1), k < l
        PROVE  \E m, n \in 1..Len(h) : m < n /\ r[k] = h[m] /\ r[l] = h[n]
    <3>1. k \in 1..Len(h) /\ k + 1 \in 1..Len(h) /\ l \in 1..Len(h) /\ l + 1 \in 1..Len(h)
      BY <1>0
    <3>2. r[k] = v[k] /\ r[l] = v[l]
      BY <2>6
    <3>3. CASE l < i
      BY <2>4, <2>8, <3>1, <3>2, <3>3
    <3>4. CASE ~(l < i) /\ k < i
      <4>1. r[k] = h[k] /\ r[l] = h[l + 1] /\ k < l + 1
        BY <2>4, <2>8, <3>2, <3>4
      <4> QED BY <3>1, <4>1
    <3>5. CASE ~(l < i) /\ ~(k < i)
      <4>1. r[k] = h[k + 1] /\ r[l] = h[l + 1] /\ k + 1 < l + 1
        BY <2>4, <2>8, <3>2, <3>5
      <4> QED BY <3>1, <4>1
    <3> QED BY <3>3, <3>4, <3>5
  <2>9. ASSUME NEW m \in 1..Len(h), m # i PROVE Survives(h, r, m)
    <3>1. CASE m < i
      <4>1. m \in 1..(Len(r) - 1) /\ r[m] = h[m]
        BY <1>0, <2>4, <2>6, <3>1
      <4> QED BY <4>1 DEF Survives
    <3>2. CASE ~(m < i)
      <4>1. m - 1 \in 1..(Len(h) - 1) /\ ~(m - 1 < i) /\ (m - 1) + 1 = m
        BY <1>0, <2>9, <3>2
      <4>2. r[m - 1] = h[m]
        BY <2>4, <2>6, <4>1
      <4> QED BY <2>6, <4>1, <4>2 DEF Survives
    <3> QED BY <3>1, <3>2
  <2>10. Len(r) \in Nat \ {0} /\ Len(r) - 1 = Len(h) - 1
    BY <1>0, <2>1, <2>6
  <2>11. TakenFrom(h, r, Len(r) - 1)
    <3>1. TakenFrom(h, r, Len(h) - 1)
      BY <2>7, <2>8 DEF TakenFrom
    <3> QED BY <2>10, <3>1
  <2>12. KeepsSignals(h, r)
    BY <2>1, <2>3, <2>9 DEF Crowded, KeepsSignals
  <2> QED BY <2>6, <2>10, <2>11, <2>12
<1>2. CASE ~(Len(h) >= HistoryCap)
  <2>1. r = Append(h, e)
    BY <1>2 DEF Remember
  <2>2. /\ r \in Seq(T) /\ Len(r) = Len(h) + 1 /\ r[Len(r)] = e
        /\ \A k \in 1..Len(h) : r[k] = h[k]
    BY <1>0, <2>1
  <2>3. Len(r) - 1 = Len(h) /\ Len(r) \in Nat \ {0}
    BY <1>0, <2>2
  <2>4. KeepsSignals(h, r)
    BY <2>2, <2>3 DEF Survives, KeepsSignals
  <2>5. TakenFrom(h, r, Len(r) - 1)
    <3>1. TakenFrom(h, r, Len(h))
      BY <1>0, <2>2 DEF TakenFrom
    <3> QED BY <2>3, <3>1
  <2> QED BY <2>2, <2>3, <2>4, <2>5
<1> QED BY <1>1, <1>2

\* Publish appends the next event to the history.
LEMMA LogPublish ==
    ASSUME TypeOK, LogInv, NEW p \in Publishers, NEW t \in Types, Publish(p, t)
    PROVE  LogInv'
<1> DEFINE e == [seq |-> seq + 1, type |-> t]
           T == [seq : 1..(seq + 1), type : Types]
           r == history'
<1>1. /\ seq \in Nat /\ seq' = seq + 1 /\ types' = Append(types, t)
      /\ types \in Seq(Types) /\ Len(types) = seq /\ r = Remember(history, e)
  BY DEF TypeOK, Publish
<1>2. history \in Seq(T) /\ Len(history) <= HistoryCap /\ e \in T
      /\ \A i \in DOMAIN history : history[i].seq \in 1..seq
  <2>1. history \in Seq([seq : 1..seq, type : Types]) /\ Len(history) <= HistoryCap
    BY DEF TypeOK
  <2>2. [seq : 1..seq, type : Types] \subseteq T /\ e \in T
    BY <1>1
  <2>3. \A i \in DOMAIN history : history[i] \in [seq : 1..seq, type : Types]
    <3> DEFINE S == [seq : 1..seq, type : Types]
    <3>1. history \in Seq(S)
      BY <2>1
    <3> HIDE DEF S
    <3>2. \A i \in DOMAIN history : history[i] \in S
      BY <3>1, SeqFacts
    <3> QED BY <3>2 DEF S
  <2>4. history \in Seq(T)
    <3> HIDE DEF T
    <3> QED BY <2>1, <2>2, SeqFacts
  <2> QED BY <2>1, <2>2, <2>3, <2>4
<1>3. DOMAIN history = 1..Len(history) /\ Len(history) \in Nat
  <2> HIDE DEF T
  <2> QED BY <1>2, SeqFacts
<1> HIDE DEF T, r
<1>4. /\ r \in Seq(T) /\ Len(r) \in Nat \ {0} /\ r[Len(r)] = e
      /\ TakenFrom(history, r, Len(r) - 1)
  <2> HIDE DEF e
  <2>1. history \in Seq(T) /\ e \in T /\ Len(history) <= HistoryCap
    BY <1>2
  <2>2. r = Remember(history, e)
    BY <1>1
  <2> QED BY ONLY <2>1, <2>2, RememberEntries
<1>5. DOMAIN r = 1..Len(r) /\ r # <<>>
  BY <1>4, SeqFacts
<1>6. ASSUME NEW i \in DOMAIN r, NEW j \in DOMAIN r, i < j PROVE r[i].seq < r[j].seq
  <2>1. CASE j = Len(r)
    <3>1. i \in 1..(Len(r) - 1)
      BY <1>4, <1>5, <1>6, <2>1
    <3>2. PICK m \in 1..Len(history) : r[i] = history[m]
      BY <1>4, <3>1 DEF TakenFrom
    <3>3. r[i].seq \in 1..seq
      BY <1>2, <1>3, <3>2
    <3> QED BY <1>1, <1>4, <2>1, <3>3
  <2>2. CASE j # Len(r)
    <3>1. i \in 1..(Len(r) - 1) /\ j \in 1..(Len(r) - 1)
      BY <1>4, <1>5, <1>6, <2>2
    <3>2. PICK m \in 1..Len(history), n \in 1..Len(history) :
             m < n /\ r[i] = history[m] /\ r[j] = history[n]
      BY <1>4, <1>6, <3>1 DEF TakenFrom
    <3> QED BY <1>3, <3>2 DEF LogInv
  <2> QED BY <2>1, <2>2
<1>7. ASSUME NEW i \in DOMAIN r PROVE r[i].type = types'[r[i].seq]
  <2>1. CASE i = Len(r)
    <3>1. types'[seq + 1] = t
      BY <1>1
    <3> QED BY <1>4, <2>1, <3>1
  <2>2. CASE i # Len(r)
    <3>1. i \in 1..(Len(r) - 1)
      BY <1>4, <1>5, <2>2
    <3>2. PICK m \in 1..Len(history) : r[i] = history[m]
      BY <1>4, <3>1 DEF TakenFrom
    <3>3. r[i].seq \in 1..seq /\ r[i].type = types[r[i].seq]
      BY <1>2, <1>3, <3>2 DEF LogInv
    <3>4. types'[r[i].seq] = types[r[i].seq]
      BY <1>1, <3>3
    <3> QED BY <3>3, <3>4
  <2> QED BY <2>1, <2>2
<1>8. Last(r).seq = seq' /\ seq' # 0
  BY <1>1, <1>4 DEF Last
<1> QED BY <1>5, <1>6, <1>7, <1>8 DEF LogInv, r

\* Publish is the only step of the history.
LEMMA LogStep == TypeOK /\ LogInv /\ [Next]_vars => LogInv'
<1> SUFFICES ASSUME TypeOK, LogInv, [Next]_vars PROVE LogInv'
  OBVIOUS
<1>1. ASSUME NEW p \in Publishers, NEW t \in Types, Publish(p, t) PROVE LogInv'
  BY <1>1, LogPublish
<1>2. CASE UNCHANGED logVars
  BY <1>2 DEF LogInv, logVars
<1>3. \/ \E p \in Publishers, t \in Types : Publish(p, t)
      \/ UNCHANGED logVars
  BY DEF Next, vars, HandlerPublish, Publishers, Subscribe, Cancel, StartWorkers, Send, Receive,
         HandlerReturn, SeeStop, Exit, StopBegin, StopReturn
<1> QED BY <1>1, <1>2, <1>3

LEMMA LogInit == Init => LogInv
BY DEF Init, LogInv

\* An event that is not noise leaves the history when it is full of newer ones.
LEMMA NoisePublish ==
    ASSUME TypeOK, LogInv, LogInv', NoiseGoesFirst, NEW p \in Publishers, NEW t \in Types, Publish(p, t)
    PROVE  NoiseGoesFirst'
<1> DEFINE e == [seq |-> seq + 1, type |-> t]
           T == [seq : 1..(seq + 1), type : Types]
           r == history'
<1>1. /\ seq \in Nat /\ seq' = seq + 1 /\ types' = Append(types, t)
      /\ types \in Seq(Types) /\ Len(types) = seq /\ r = Remember(history, e)
  BY DEF TypeOK, Publish
<1>2. history \in Seq(T) /\ Len(history) <= HistoryCap /\ e \in T
      /\ \A i \in DOMAIN history : history[i].seq \in 1..seq
  <2>1. history \in Seq([seq : 1..seq, type : Types]) /\ Len(history) <= HistoryCap
    BY DEF TypeOK
  <2>2. [seq : 1..seq, type : Types] \subseteq T /\ e \in T
    BY <1>1
  <2>3. \A i \in DOMAIN history : history[i] \in [seq : 1..seq, type : Types]
    <3> DEFINE S == [seq : 1..seq, type : Types]
    <3>1. history \in Seq(S)
      BY <2>1
    <3> HIDE DEF S
    <3>2. \A i \in DOMAIN history : history[i] \in S
      BY <3>1, SeqFacts
    <3> QED BY <3>2 DEF S
  <2>4. history \in Seq(T)
    <3> HIDE DEF T
    <3> QED BY <2>1, <2>2, SeqFacts
  <2> QED BY <2>1, <2>2, <2>3, <2>4
<1>3. DOMAIN history = 1..Len(history) /\ Len(history) \in Nat
  <2> HIDE DEF T
  <2> QED BY <1>2, SeqFacts
<1> HIDE DEF T, r
<1>4. /\ r \in Seq(T) /\ Len(r) \in Nat \ {0} /\ r[Len(r)] = e
      /\ TakenFrom(history, r, Len(r) - 1)
      /\ KeepsSignals(history, r)
  <2> HIDE DEF e
  <2>1. history \in Seq(T) /\ e \in T /\ Len(history) <= HistoryCap
    BY <1>2
  <2>2. r = Remember(history, e)
    BY <1>1
  <2> QED BY ONLY <2>1, <2>2, RememberEntries
<1>5. DOMAIN r = 1..Len(r)
  BY <1>4, SeqFacts
<1>6. Buffered' \subseteq Buffered \cup {seq + 1} /\ seq + 1 \in Buffered'
  <2>1. ASSUME NEW i \in DOMAIN r PROVE r[i].seq \in Buffered \cup {seq + 1}
    <3>1. CASE i = Len(r)
      BY <1>4, <3>1
    <3>2. CASE i # Len(r)
      <4>1. i \in 1..(Len(r) - 1)
        BY <1>4, <1>5, <3>2
      <4>2. PICK m \in 1..Len(history) : r[i] = history[m]
        BY <1>4, <4>1 DEF TakenFrom
      <4> QED BY <1>3, <4>2 DEF Buffered
    <3> QED BY <3>1, <3>2
  <2>2. Len(r) \in DOMAIN r /\ r[Len(r)].seq = seq + 1
    BY <1>4, <1>5
  <2> QED BY <2>1, <2>2 DEF Buffered, r
<1>7. /\ Signals \subseteq Signals' /\ Signals' \subseteq Signals \cup {seq + 1}
      /\ Signals \subseteq 1..seq
  <2>1. \A n \in 1..seq : types'[n] = types[n]
    BY <1>1
  <2> QED BY <1>1, <2>1 DEF Signals
<1>8. SUFFICES ASSUME NEW n \in Signals' \ Buffered'
               PROVE  /\ Cardinality({m \in Signals' : m > n}) >= HistoryCap - 1
                      /\ \A m \in Buffered' : m > n
  BY DEF NoiseGoesFirst
<1>9. n \in Signals /\ n \in 1..seq /\ types[n] \notin Noise
  BY <1>1, <1>6, <1>7, <1>8 DEF Signals
<1> DEFINE A == {m \in Signals : m > n}
           B == {m \in Signals' : m > n}
<1>10. IsFiniteSet(A) /\ IsFiniteSet(B) /\ Cardinality(A) <= Cardinality(B)
       /\ Cardinality(A) \in Nat /\ Cardinality(B) \in Nat
  <2>1. A \in SUBSET B /\ B \in SUBSET (1..(seq + 1))
    <3>1. A \subseteq B
      BY <1>7
    <3>2. 1..seq \subseteq 1..(seq + 1) /\ seq + 1 \in 1..(seq + 1)
      BY <1>1
    <3>3. B \subseteq Signals'
      OBVIOUS
    <3>4. Signals' \subseteq 1..(seq + 1)
      BY <1>7, <3>2
    <3> HIDE DEF A, B
    <3> QED BY <3>1, <3>3, <3>4
  <2>2. IsFiniteSet(1..(seq + 1))
    BY <1>1, FS_Interval, 1 \in Int, seq + 1 \in Int
  <2> HIDE DEF A, B
  <2> QED BY <2>1, <2>2, FS_Subset, FS_CardinalityType
<1>11. HistoryCap \in Nat /\ seq + 1 > n
  BY <1>1, <1>9, BusAssumption
<1>12. CASE n \notin Buffered
  <2>1. Cardinality(A) >= HistoryCap - 1 /\ \A m \in Buffered : m > n
    BY <1>9, <1>12 DEF NoiseGoesFirst
  <2> HIDE DEF A, B
  <2>2. Cardinality(B) >= HistoryCap - 1
    BY <1>10, <1>11, <2>1
  <2> QED BY <1>6, <1>11, <2>1, <2>2 DEF B
<1>13. CASE n \in Buffered
  <2>1. PICK m \in 1..Len(history) : history[m].seq = n
    BY <1>3, <1>13 DEF Buffered
  <2>2. history[m].type \notin Noise
    BY <1>3, <1>9, <2>1 DEF LogInv
  <2>3. ~Survives(history, r, m)
    <3>1. ASSUME NEW k \in 1..(Len(r) - 1), r[k] = history[m] PROVE FALSE
      <4>1. k \in DOMAIN r /\ r[k].seq = n
        BY <1>4, <1>5, <2>1, <3>1
      <4> QED BY <1>8, <4>1 DEF Buffered, r
    <3> QED BY <3>1 DEF Survives
  <2>4. /\ m = 1 /\ Len(history) = HistoryCap
        /\ \A j \in 1..Len(history) : history[j].type \notin Noise
    BY <1>4, <2>2, <2>3 DEF Crowded, KeepsSignals
  <2>5. \A j \in 2..HistoryCap : history[j].seq \in A
    <3>1. ASSUME NEW j \in 2..HistoryCap PROVE history[j].seq \in A
      <4>1. j \in 1..Len(history) /\ 1 < j /\ 1 \in 1..Len(history)
        BY <1>11, <2>4
      <4>2. history[j].seq \in 1..seq /\ history[j].type = types[history[j].seq]
            /\ history[1].seq < history[j].seq
        BY <1>2, <1>3, <4>1 DEF LogInv
      <4>3. history[j].seq > n
        BY <1>9, <2>1, <2>4, <4>2
      <4> QED BY <2>4, <4>1, <4>2, <4>3 DEF Signals
    <3> QED BY <3>1
  <2> DEFINE f == [j \in 2..HistoryCap |-> history[j].seq]
             C == {history[j].seq : j \in 2..HistoryCap}
  <2>6. f \in Bijection(2..HistoryCap, C)
    <3>1. \A j, k \in 2..HistoryCap : history[j].seq = history[k].seq => j = k
      <4>1. ASSUME NEW j \in 2..HistoryCap, NEW k \in 2..HistoryCap, j < k
            PROVE  history[j].seq # history[k].seq
        <5>1. j \in 1..Len(history) /\ k \in 1..Len(history)
          BY <1>11, <2>4
        <5>2. history[j].seq < history[k].seq /\ history[j].seq \in Nat /\ history[k].seq \in Nat
          BY <1>2, <1>3, <4>1, <5>1 DEF LogInv
        <5> QED BY <5>2
      <4>2. \A j, k \in 2..HistoryCap : j < k \/ k < j \/ j = k
        OBVIOUS
      <4> QED BY <4>1, <4>2
    <3> QED BY <3>1 DEF Bijection, Injection, Surjection, IsInjective
  <2>7. C \in SUBSET A
    BY <2>5
  <2> HIDE DEF f, C, A, B
  <2>8. ExistsBijection(2..HistoryCap, C)
    BY <2>6 DEF ExistsBijection
  <2>9. IsFiniteSet(2..HistoryCap) /\ Cardinality(2..HistoryCap) = HistoryCap - 1
    <3>1. 2 \in Int /\ HistoryCap \in Int /\ HistoryCap # 0 /\ HistoryCap \in Nat
      BY BusAssumption
    <3>2. IsFiniteSet(2..HistoryCap)
          /\ Cardinality(2..HistoryCap) = IF 2 > HistoryCap THEN 0 ELSE HistoryCap - 2 + 1
      BY <3>1, FS_Interval
    <3> QED BY <3>1, <3>2
  <2>10. Cardinality(C) = HistoryCap - 1
    BY <2>8, <2>9, FS_Bijection
  <2>11. Cardinality(C) <= Cardinality(A)
    BY <1>10, <2>7, FS_Subset
  <2>12. Cardinality(B) >= HistoryCap - 1
    BY <1>10, <1>11, <2>10, <2>11
  <2>13. \A j \in Buffered : j = n \/ j > n
    <3>1. ASSUME NEW i \in DOMAIN history PROVE history[i].seq = n \/ history[i].seq > n
      <4>1. CASE i = 1
        BY <2>1, <2>4, <4>1
      <4>2. CASE i # 1
        <5>1. 1 \in DOMAIN history /\ 1 < i
          BY <1>3, <4>2
        <5>2. history[1].seq < history[i].seq
          BY <5>1 DEF LogInv
        <5>3. history[1].seq = n /\ history[i].seq \in Nat /\ n \in Nat
          BY <1>2, <1>9, <2>1, <2>4
        <5> QED BY <5>2, <5>3
      <4> QED BY <4>1, <4>2
    <3> QED BY <3>1 DEF Buffered
  <2>14. \A j \in Buffered' : j > n
    BY <1>6, <1>8, <1>11, <2>13
  <2> QED BY <2>12, <2>14 DEF B
<1> QED BY <1>12, <1>13

\* At no time has an event that is not noise been dropped from the history to
\* make room, unless the history was full of newer ones of its kind.
THEOREM NoiseGoesFirstHolds == Spec => []NoiseGoesFirst
<1>1. Init => NoiseGoesFirst
  <2> SUFFICES ASSUME Init PROVE NoiseGoesFirst
    OBVIOUS
  <2>1. Signals = {}
    BY DEF Init, Signals
  <2> QED BY <2>1 DEF NoiseGoesFirst
<1>2. PoolInv /\ LogInv /\ LogInv' /\ NoiseGoesFirst /\ [Next]_vars => NoiseGoesFirst'
  <2> SUFFICES ASSUME TypeOK, LogInv, LogInv', NoiseGoesFirst, [Next]_vars PROVE NoiseGoesFirst'
    BY DEF PoolInv
  <2>1. ASSUME NEW p \in Publishers, NEW t \in Types, Publish(p, t) PROVE NoiseGoesFirst'
    BY <2>1, NoisePublish
  <2>2. CASE UNCHANGED logVars
    BY <2>2 DEF NoiseGoesFirst, Signals, Buffered, logVars
  <2>3. \/ \E p \in Publishers, t \in Types : Publish(p, t)
        \/ UNCHANGED logVars
    BY DEF Next, vars, HandlerPublish, Publishers, Subscribe, Cancel, StartWorkers, Send, Receive,
           HandlerReturn, SeeStop, Exit, StopBegin, StopReturn
  <2> QED BY <2>1, <2>2, <2>3
<1>3. Spec => []LogInv
  <2>1. PoolInv /\ LogInv /\ [Next]_vars => LogInv'
    BY LogStep DEF PoolInv
  <2> QED BY <2>1, LogInit, PoolIsSound, PTL DEF Spec
<1> QED BY <1>1, <1>2, <1>3, PoolIsSound, PTL DEF Spec

-----------------------------------------------------------------------------
(* The deliveries. *)

\* A queue after its head is taken, and after an append.
LEMMA Popped ==
    ASSUME NEW T, NEW s \in Seq(T), s # <<>>
    PROVE  /\ Head(s) \in T /\ 1 \in DOMAIN s /\ s[1] = Head(s) /\ Len(Tail(s)) = Len(s) - 1
           /\ \A k \in DOMAIN Tail(s) : k + 1 \in DOMAIN s /\ k + 1 # 1 /\ k \in Nat
                                        /\ Tail(s)[k] = s[k + 1]
           /\ \A k \in DOMAIN s : k = 1 \/ \E l \in DOMAIN Tail(s) : Tail(s)[l] = s[k]
<1>1. Len(s) \in Nat /\ Len(s) # 0 /\ DOMAIN s = 1..Len(s)
  OBVIOUS
<1>2. DOMAIN Tail(s) = 1..(Len(s) - 1) /\ \A k \in 1..(Len(s) - 1) : Tail(s)[k] = s[k + 1]
  OBVIOUS
<1>3. ASSUME NEW k \in DOMAIN s, k # 1 PROVE \E l \in DOMAIN Tail(s) : Tail(s)[l] = s[k]
  <2>1. k - 1 \in 1..(Len(s) - 1) /\ (k - 1) + 1 = k
    BY <1>1, <1>3
  <2> QED BY <1>2, <2>1
<1>4. Head(s) \in T /\ s[1] = Head(s) /\ Len(Tail(s)) = Len(s) - 1
  OBVIOUS
<1>5. \A k \in 1..(Len(s) - 1) : k + 1 \in 1..Len(s) /\ k + 1 # 1 /\ k \in Nat
  BY <1>1
<1> QED BY <1>1, <1>2, <1>3, <1>4, <1>5

LEMMA Pushed ==
    ASSUME NEW T, NEW s \in Seq(T), NEW x \in T
    PROVE  \A k \in DOMAIN Append(s, x) :
              \/ k \in DOMAIN s /\ Append(s, x)[k] = s[k]
              \/ k = Len(s) + 1 /\ Append(s, x)[k] = x
OBVIOUS

LEMMA PushedKeeps ==
    ASSUME NEW T, NEW s \in Seq(T), NEW x \in T
    PROVE  /\ \A k \in DOMAIN s : k \in DOMAIN Append(s, x) /\ Append(s, x)[k] = s[k]
           /\ Len(s) + 1 \in DOMAIN Append(s, x) /\ Append(s, x)[Len(s) + 1] = x
           /\ Len(s) + 1 \notin DOMAIN s
OBVIOUS

\* Steps that move items without losing or copying one.
LEMMA DueFrame ==
    ASSUME SlicesInv, DueInv, UNCHANGED subVars, UNCHANGED logVars,
           \A x \in Items : Somewhere(x)' <=> Somewhere(x)
    PROVE  SlicesInv' /\ DueInv'
<1>1. SlicesInv'
  <2>1. /\ subscribers' = subscribers /\ subs' = subs /\ snap' = snap /\ seq' = seq
        /\ cancelled' = cancelled /\ victims' = victims
    BY DEF subVars, logVars
  <2>2. OwnSlice'
    BY <2>1 DEF SlicesInv, OwnSlice
  <2>3. InSlice'
    BY <2>1 DEF SlicesInv, InSlice
  <2>4. RoomForAll'
    BY <2>1 DEF SlicesInv, RoomForAll
  <2>5. SnapPast'
    BY <2>1 DEF SlicesInv, SnapPast
  <2> QED BY <2>2, <2>3, <2>4, <2>5 DEF SlicesInv
<1>2. \A x \in Items : Due(x)' <=> Due(x)
  BY DEF Due, subVars, logVars
<1>3. cancelled' = cancelled /\ victims' = victims
  BY DEF subVars
<1>4. DueInv'
  BY <1>2, <1>3 DEF DueInv
<1> QED BY <1>1, <1>4

\* Send moves the first item of a publisher to the queue.
LEMMA OneSend ==
    ASSUME TypeOK, OnePlace, NEW p \in Publishers, Send(p)
    PROVE  OnePlace' /\ \A x \in Items : Somewhere(x)' <=> Somewhere(x)
<1> DEFINE x0 == Head(todo[p])
           tl == Tail(todo[p])
<1>1. /\ todo[p] \in Seq(Items) /\ todo[p] # <<>> /\ workCh \in Seq(Items)
      /\ todo' = [todo EXCEPT ![p] = tl] /\ workCh' = Append(workCh, x0)
      /\ UNCHANGED <<work, got>>
  BY DEF TypeOK, Send
<1>2. /\ x0 \in Items /\ 1 \in DOMAIN todo[p] /\ todo[p][1] = x0
      /\ \A k \in DOMAIN tl : k + 1 \in DOMAIN todo[p] /\ k + 1 # 1 /\ k \in Nat
                              /\ tl[k] = todo[p][k + 1]
      /\ \A k \in DOMAIN todo[p] : k = 1 \/ \E l \in DOMAIN tl : tl[l] = todo[p][k]
  BY <1>1, Popped
<1>3. todo'[p] = tl /\ \A q \in Publishers : q # p => todo'[q] = todo[q]
  BY <1>1 DEF TypeOK
<1> HIDE DEF x0, tl
<1>4. \A q, r \in Publishers : \A i \in DOMAIN todo[q], j \in DOMAIN todo[r] :
         todo[q][i] = todo[r][j] => q = r /\ i = j
  BY DEF OnePlace
<1>5. Sending(x0)
  BY <1>2 DEF Sending
<1>6. ~Queued(x0) /\ ~Handling(x0) /\ x0 \notin got
  BY <1>2, <1>5 DEF OnePlace
<1>7. \A q, r \in Publishers : \A i \in DOMAIN todo'[q], j \in DOMAIN todo'[r] :
         todo'[q][i] = todo'[r][j] => q = r /\ i = j
  <2> SUFFICES ASSUME NEW q \in Publishers, NEW r \in Publishers,
                      NEW i \in DOMAIN todo'[q],
                      NEW j \in DOMAIN todo'[r],
                      todo'[q][i] = todo'[r][j]
               PROVE  q = r /\ i = j
    OBVIOUS
  <2>1. CASE q = p /\ r = p
    <3>1. todo[p][i + 1] = todo[p][j + 1] /\ i + 1 \in DOMAIN todo[p] /\ j + 1 \in DOMAIN todo[p]
      BY <1>2, <1>3, <2>1
    <3>2. i + 1 = j + 1 /\ i \in Nat /\ j \in Nat
      BY <1>2, <1>3, <1>4, <2>1, <3>1
    <3> QED BY <2>1, <3>2
  <2>2. CASE q = p /\ r # p
    BY <1>2, <1>3, <1>4, <2>2
  <2>3. CASE q # p /\ r = p
    BY <1>2, <1>3, <1>4, <2>3
  <2>4. CASE q # p /\ r # p
    BY <1>3, <1>4, <2>4
  <2> QED BY <2>1, <2>2, <2>3, <2>4
<1>8. ASSUME NEW x \in Items, Sending(x)' PROVE Sending(x) /\ x # x0
  <2>0. PICK q \in Publishers : \E i \in DOMAIN todo'[q] : todo'[q][i] = x
    BY <1>8 DEF Sending
  <2>1. PICK i \in DOMAIN todo'[q] : todo'[q][i] = x
    BY <2>0
  <2>2. CASE q = p
    <3>1. i + 1 \in DOMAIN todo[p] /\ i + 1 # 1 /\ todo[p][i + 1] = x
      BY <1>2, <1>3, <2>1, <2>2
    <3> QED BY <1>2, <1>4, <3>1 DEF Sending
  <2>3. CASE q # p
    <3>1. i \in DOMAIN todo[q] /\ todo[q][i] = x
      BY <1>3, <2>1, <2>3
    <3> QED BY <1>2, <1>4, <2>3, <3>1 DEF Sending
  <2> QED BY <2>2, <2>3
<1>9. ASSUME NEW x \in Items, Sending(x), x # x0 PROVE Sending(x)'
  <2>0. PICK q \in Publishers : \E i \in DOMAIN todo[q] : todo[q][i] = x
    BY <1>9 DEF Sending
  <2>1. PICK i \in DOMAIN todo[q] : todo[q][i] = x
    BY <2>0
  <2>2. CASE q = p
    <3>1. PICK l \in DOMAIN tl : tl[l] = x
      BY <1>2, <1>9, <2>1, <2>2
    <3> QED BY <1>3, <3>1 DEF Sending
  <2>3. CASE q # p
    BY <1>3, <2>1, <2>3 DEF Sending
  <2> QED BY <2>2, <2>3
<1>10. \A k \in DOMAIN workCh' : \/ k \in DOMAIN workCh /\ workCh'[k] = workCh[k]
                                 \/ k = Len(workCh) + 1 /\ workCh'[k] = x0
  BY <1>1, <1>2, Pushed
<1>11. /\ \A k \in DOMAIN workCh : k \in DOMAIN workCh' /\ workCh'[k] = workCh[k]
       /\ Len(workCh) + 1 \in DOMAIN workCh' /\ workCh'[Len(workCh) + 1] = x0
  BY <1>1, <1>2, PushedKeeps
<1>12. \A x \in Items : Queued(x)' <=> Queued(x) \/ x = x0
  BY <1>10, <1>11 DEF Queued
<1>13. \A i, j \in DOMAIN workCh' : workCh'[i] = workCh'[j] => i = j
  BY <1>6, <1>10 DEF OnePlace, Queued
<1>14. (\A x \in Items : Handling(x)' <=> Handling(x)) /\ got' = got
  BY <1>1 DEF Handling
<1>15. \A x \in Items : Sending(x)' <=> Sending(x) /\ x # x0
  BY <1>8, <1>9
<1>16. \A u, w \in Workers : work'[u] = work'[w] /\ work'[u] # None => u = w
  BY <1>1 DEF OnePlace
<1>17. \A x \in Items : /\ Sending(x)' => ~Queued(x)' /\ ~Handling(x)' /\ x \notin got'
                        /\ Queued(x)' => ~Handling(x)' /\ x \notin got'
                        /\ Handling(x)' => x \notin got'
  BY <1>6, <1>12, <1>14, <1>15 DEF OnePlace
<1>18. OnePlace'
  BY <1>7, <1>13, <1>16, <1>17 DEF OnePlace
<1>19. \A x \in Items : Somewhere(x)' <=> Sending(x)' \/ Queued(x)' \/ Handling(x)' \/ x \in got'
  BY DEF Somewhere
<1>20. \A x \in Items : Somewhere(x)' <=> Somewhere(x)
  BY <1>5, <1>12, <1>14, <1>15, <1>19 DEF Somewhere
<1> QED BY <1>18, <1>20

\* Receive moves the first item of the queue into a handler.
LEMMA OneReceive ==
    ASSUME TypeOK, OnePlace, NEW w \in Workers, Receive(w)
    PROVE  OnePlace' /\ \A x \in Items : Somewhere(x)' <=> Somewhere(x)
<1> DEFINE x0 == Head(workCh)
           tl == Tail(workCh)
<1>1. /\ workCh \in Seq(Items) /\ workCh # <<>> /\ work[w] = None
      /\ work' = [work EXCEPT ![w] = x0] /\ workCh' = tl
      /\ UNCHANGED <<todo, got>>
  BY DEF TypeOK, Receive
<1>2. /\ x0 \in Items /\ 1 \in DOMAIN workCh /\ workCh[1] = x0
      /\ \A k \in DOMAIN tl : k + 1 \in DOMAIN workCh /\ k + 1 # 1 /\ k \in Nat
                              /\ tl[k] = workCh[k + 1]
      /\ \A k \in DOMAIN workCh : k = 1 \/ \E l \in DOMAIN tl : tl[l] = workCh[k]
  BY <1>1, Popped
<1>3. work'[w] = x0 /\ \A u \in Workers : u # w => work'[u] = work[u]
  BY <1>1 DEF TypeOK
<1> HIDE DEF x0, tl
<1>4. Queued(x0) /\ None \notin Items
  BY <1>2, NoneIsNoItem DEF Queued
<1>5. ~Sending(x0) /\ ~Handling(x0) /\ x0 \notin got
  BY <1>2, <1>4 DEF OnePlace
<1>6. \A i, j \in DOMAIN workCh : workCh[i] = workCh[j] => i = j
  BY DEF OnePlace
<1>7. \A i, j \in DOMAIN workCh' : workCh'[i] = workCh'[j] => i = j
  <2> SUFFICES ASSUME NEW i \in DOMAIN tl, NEW j \in DOMAIN tl, tl[i] = tl[j] PROVE i = j
    BY <1>1
  <2>1. i + 1 = j + 1 /\ i \in Nat /\ j \in Nat
    BY <1>2, <1>6
  <2> QED BY <2>1
<1>8. \A x \in Items : Queued(x)' <=> Queued(x) /\ x # x0
  <2>1. ASSUME NEW x \in Items, NEW i \in DOMAIN tl, tl[i] = x PROVE Queued(x) /\ x # x0
    BY <1>2, <1>6, <2>1 DEF Queued
  <2>2. ASSUME NEW x \in Items, Queued(x), x # x0 PROVE \E i \in DOMAIN tl : tl[i] = x
    BY <1>2, <2>2 DEF Queued
  <2> QED BY <1>1, <2>1, <2>2 DEF Queued
<1>9. \A x \in Items : Handling(x)' <=> Handling(x) \/ x = x0
  BY <1>1, <1>3, <1>4 DEF Handling
<1>10. (\A x \in Items : Sending(x)' <=> Sending(x)) /\ got' = got
  BY <1>1 DEF Sending
<1>11. \A u, v \in Workers : work'[u] = work'[v] /\ work'[u] # None => u = v
  BY <1>3, <1>5 DEF OnePlace, Handling
<1>12. \A q, r \in Publishers : \A i \in DOMAIN todo'[q], j \in DOMAIN todo'[r] :
          todo'[q][i] = todo'[r][j] => q = r /\ i = j
  BY <1>1 DEF OnePlace
<1>13. \A x \in Items : /\ Sending(x)' => ~Queued(x)' /\ ~Handling(x)' /\ x \notin got'
                        /\ Queued(x)' => ~Handling(x)' /\ x \notin got'
                        /\ Handling(x)' => x \notin got'
  BY <1>5, <1>8, <1>9, <1>10 DEF OnePlace
<1>14. OnePlace'
  BY <1>7, <1>11, <1>12, <1>13 DEF OnePlace
<1>15. \A x \in Items : Somewhere(x)' <=> Sending(x)' \/ Queued(x)' \/ Handling(x)' \/ x \in got'
  BY DEF Somewhere
<1>16. \A x \in Items : Somewhere(x)' <=> Somewhere(x)
  BY <1>4, <1>8, <1>9, <1>10, <1>15 DEF Somewhere
<1> QED BY <1>14, <1>16

\* HandlerReturn moves the item of a handler to those handled.
LEMMA OneHandled ==
    ASSUME TypeOK, OnePlace, NEW w \in Workers, HandlerReturn(w)
    PROVE  OnePlace' /\ \A x \in Items : Somewhere(x)' <=> Somewhere(x)
<1> DEFINE x0 == work[w]
<1>1. /\ x0 # None /\ x0 \in Items /\ work' = [work EXCEPT ![w] = None]
      /\ got' = got \cup {x0} /\ UNCHANGED <<todo, workCh>>
  BY DEF TypeOK, HandlerReturn
<1>2. work'[w] = None /\ \A u \in Workers : u # w => work'[u] = work[u]
  BY <1>1 DEF TypeOK
<1>3. \A u, v \in Workers : work[u] = work[v] /\ work[u] # None => u = v
  BY DEF OnePlace
<1>4. Handling(x0) /\ None \notin Items
  BY NoneIsNoItem DEF Handling
<1>5. \A x \in Items : Handling(x)' <=> Handling(x) /\ x # x0
  BY <1>1, <1>2, <1>3, <1>4 DEF Handling
<1>6. \A x \in Items : (Sending(x)' <=> Sending(x)) /\ (Queued(x)' <=> Queued(x))
  BY <1>1 DEF Sending, Queued
<1>7. \A u, v \in Workers : work'[u] = work'[v] /\ work'[u] # None => u = v
  BY <1>2, <1>3
<1>8. /\ \A q, r \in Publishers : \A i \in DOMAIN todo'[q], j \in DOMAIN todo'[r] :
            todo'[q][i] = todo'[r][j] => q = r /\ i = j
      /\ \A i, j \in DOMAIN workCh' : workCh'[i] = workCh'[j] => i = j
  BY <1>1 DEF OnePlace
<1> HIDE DEF x0
<1>9. \A x \in Items : x \in got' <=> x \in got \/ x = x0
  BY <1>1
<1>10. ~Sending(x0) /\ ~Queued(x0)
  BY <1>1, <1>4 DEF OnePlace
<1>11. \A x \in Items : /\ Sending(x)' => ~Queued(x)' /\ ~Handling(x)' /\ x \notin got'
                        /\ Queued(x)' => ~Handling(x)' /\ x \notin got'
                        /\ Handling(x)' => x \notin got'
  BY <1>5, <1>6, <1>9, <1>10 DEF OnePlace
<1>12. OnePlace'
  BY <1>7, <1>8, <1>11 DEF OnePlace
<1>13. \A x \in Items : Somewhere(x)' <=> Sending(x)' \/ Queued(x)' \/ Handling(x)' \/ x \in got'
  BY DEF Somewhere
<1>14. \A x \in Items : Somewhere(x)' <=> Somewhere(x)
  BY <1>4, <1>5, <1>6, <1>9, <1>13 DEF Somewhere
<1> QED BY <1>12, <1>14

\* A subscription has no claim to the events before it.
LEMMA DueSubscribe ==
    ASSUME TypeOK, LogInv, SlicesInv, DueInv, NEW t \in Types \cup {All}, Subscribe(t)
    PROVE  SlicesInv' /\ DueInv'
<1> DEFINE n == Len(subs) + 1
           v == IF history = <<>> THEN 0 ELSE Last(history).seq
           sub == [type |-> t, idx |-> Len(subscribers[t]) + 1]
<1>1. /\ subscribers' = [subscribers EXCEPT ![t] = Append(@, n)]
      /\ subs' = Append(subs, sub) /\ snap' = Append(snap, v)
      /\ UNCHANGED <<cancelled, victims, seq, types, todo, workCh, work, got>>
  BY DEF Subscribe, logVars
<1>2. /\ Len(subs) \in Nat /\ DOMAIN subs = 1..Len(subs) /\ n \in Nat /\ n \notin DOMAIN subs
      /\ cancelled \subseteq DOMAIN subs /\ victims \subseteq DOMAIN subs
      /\ \A u \in Types \cup {All} : subscribers[u] \in Seq(DOMAIN subs)
  BY DEF TypeOK
<1>3. DOMAIN subs' = DOMAIN subs \cup {n} /\ Len(subs') = n
      /\ (\A s \in DOMAIN subs : subs'[s] = subs[s]) /\ subs'[n] = sub
  <2> DEFINE R == [type : Types \cup {All}, idx : Nat \ {0}]
  <2>1. subs \in Seq(R) /\ sub \in R
    BY <1>2 DEF TypeOK
  <2> HIDE DEF sub, R
  <2>2. DOMAIN subs' = 1..(Len(subs) + 1) /\ Len(subs') = Len(subs) + 1
        /\ (\A s \in 1..Len(subs) : subs'[s] = subs[s]) /\ subs'[Len(subs) + 1] = sub
    BY <1>1, <2>1
  <2> QED BY <1>2, <2>2
<1>4. (\A s \in DOMAIN subs : snap'[s] = snap[s]) /\ snap'[n] = v
  <2>1. snap \in Seq(0..MaxEvents[0]) /\ Len(snap) = Len(subs)
    <3> DEFINE S == 0..MaxEvents[0]
    <3>1. snap \in [1..Len(subs) -> S]
      BY <1>2 DEF TypeOK
    <3> HIDE DEF S
    <3>2. snap \in Seq(S) /\ Len(snap) = Len(subs)
      BY <1>2, <3>1, SeqFacts
    <3> QED BY <3>2 DEF S
  <2> HIDE DEF v
  <2> QED BY <1>1, <1>2, <2>1
<1>5. v = seq
  BY DEF LogInv
<1>6. /\ subscribers'[t] = Append(subscribers[t], n)
      /\ \A u \in Types \cup {All} : u # t => subscribers'[u] = subscribers[u]
  BY <1>1 DEF TypeOK
<1> HIDE DEF n, v
<1>7. /\ \A k \in DOMAIN subscribers'[t] :
            \/ k \in DOMAIN subscribers[t] /\ subscribers'[t][k] = subscribers[t][k]
            \/ k = Len(subscribers[t]) + 1 /\ subscribers'[t][k] = n
      /\ \A k \in DOMAIN subscribers[t] :
            k \in DOMAIN subscribers'[t] /\ subscribers'[t][k] = subscribers[t][k]
      /\ Len(subscribers[t]) + 1 \in DOMAIN subscribers'[t]
      /\ subscribers'[t][Len(subscribers[t]) + 1] = n
  <2>1. subscribers[t] \in Seq(Nat)
    BY <1>2
  <2> QED BY <1>2, <1>6, <2>1, Pushed, PushedKeeps
<1>8. \A u \in Types \cup {All} : \A i \in DOMAIN subscribers[u] :
         subscribers[u][i] \in DOMAIN subs /\ subscribers[u][i] # n
  BY <1>2, SeqFacts
<1>9. ASSUME NEW u \in Types \cup {All}, NEW i \in DOMAIN subscribers'[u],
             NEW j \in DOMAIN subscribers'[u]
      PROVE  /\ subs'[subscribers'[u][i]].type = u
             /\ subscribers'[u][i] = subscribers'[u][j] => i = j
  <2>1. CASE u # t
    BY <1>3, <1>6, <1>8, <2>1 DEF SlicesInv, OwnSlice
  <2>2. CASE u = t
    <3>1. subs'[subscribers'[t][i]].type = t
      BY <1>3, <1>7, <1>8, <2>2 DEF SlicesInv, OwnSlice
    <3>2. subscribers'[t][i] = subscribers'[t][j] => i = j
      BY <1>7, <1>8, <2>2 DEF SlicesInv, OwnSlice
    <3> QED BY <2>2, <3>1, <3>2
  <2> QED BY <2>1, <2>2
<1>10. ASSUME NEW s \in DOMAIN subs' \ (cancelled' \cup victims')
       PROVE  \E i \in DOMAIN subscribers'[subs'[s].type] : subscribers'[subs'[s].type][i] = s
  <2>1. CASE s = n
    BY <1>3, <1>7, <2>1
  <2>2. CASE s # n
    <3>1. s \in DOMAIN subs \ (cancelled \cup victims) /\ subs'[s] = subs[s]
      BY <1>1, <1>3, <1>10, <2>2
    <3>2. PICK i \in DOMAIN subscribers[subs[s].type] : subscribers[subs[s].type][i] = s
      BY <3>1 DEF SlicesInv, InSlice
    <3>3. subs[s].type \in Types \cup {All}
      <4> DEFINE R == [type : Types \cup {All}, idx : Nat \ {0}]
      <4>1. subs \in Seq(R)
        BY DEF TypeOK
      <4> HIDE DEF R
      <4>2. subs[s] \in R
        BY <3>1, <4>1, SeqFacts
      <4> QED BY <4>2 DEF R
    <3>4. CASE subs[s].type = t
      BY <1>7, <3>1, <3>2, <3>4
    <3>5. CASE subs[s].type # t
      BY <1>6, <3>1, <3>2, <3>3, <3>5
    <3> QED BY <3>4, <3>5
  <2> QED BY <2>1, <2>2
<1>11. ASSUME NEW u \in Types
       PROVE  Len(subscribers'[u]) + Len(subscribers'[All]) <= Len(subs')
  <2> DEFINE f == Len(subscribers[u])
             g == Len(subscribers[All])
             f1 == Len(subscribers'[u])
             g1 == Len(subscribers'[All])
  <2>1. f + g <= Len(subs)
    BY DEF SlicesInv, RoomForAll
  <2>2. f \in Nat /\ g \in Nat
    BY <1>2
  <2>3. u # All
    BY BusAssumption
  <2>4. Len(subscribers'[t]) = Len(subscribers[t]) + 1
    BY <1>2, <1>6
  <2>5. (f1 = f /\ g1 = g) \/ (f1 = f + 1 /\ g1 = g) \/ (f1 = f /\ g1 = g + 1)
    <3>1. CASE u = t
      BY <1>6, <2>3, <2>4, <3>1
    <3>2. CASE All = t
      BY <1>6, <2>3, <2>4, <3>2
    <3>3. CASE u # t /\ All # t
      BY <1>6, <3>3
    <3> QED BY <3>1, <3>2, <3>3
  <2> HIDE DEF f, g, f1, g1
  <2>6. f1 + g1 <= Len(subs) + 1
    BY <1>2, <2>1, <2>2, <2>5
  <2> QED BY <1>3, <2>6 DEF f1, g1, n
<1>12. \A s \in DOMAIN subs' : snap'[s] <= seq'
  BY <1>1, <1>3, <1>4, <1>5 DEF SlicesInv, SnapPast, TypeOK
<1>13. SlicesInv'
  BY <1>9, <1>10, <1>11, <1>12 DEF SlicesInv, OwnSlice, InSlice, RoomForAll, SnapPast
<1>14. \A x \in Items : Due(x)' <=> Due(x)
  <2>1. ASSUME NEW x \in Items, x.h = n PROVE ~Due(x)' /\ ~Due(x)
    <3>1. seq \in Nat /\ seq' = seq /\ snap'[x.h] = seq
      <4>1. seq \in Nat
        BY DEF TypeOK
      <4> QED BY <1>1, <1>4, <1>5, <2>1, <4>1
    <3>2. ~Due(x)
      BY <1>2, <2>1 DEF Due
    <3>3. ASSUME x.seq \in 1..seq', x.seq > snap'[x.h] PROVE FALSE
      BY <3>1, <3>3
    <3> QED BY <3>2, <3>3 DEF Due
  <2>2. ASSUME NEW x \in Items, x.h # n PROVE Due(x)' <=> Due(x)
    <3>1. x.h \in DOMAIN subs' <=> x.h \in DOMAIN subs
      BY <1>3, <2>2
    <3>2. x.h \in DOMAIN subs => subs'[x.h] = subs[x.h] /\ snap'[x.h] = snap[x.h]
      BY <1>3, <1>4
    <3> QED BY <1>1, <3>1, <3>2 DEF Due
  <2> QED BY <2>1, <2>2
<1>15. \A x \in Items : Somewhere(x)' <=> Somewhere(x)
  BY <1>1 DEF Somewhere, Sending, Queued, Handling
<1>16. DueInv'
  BY <1>1, <1>14, <1>15 DEF DueInv
<1> QED BY <1>13, <1>16

\* A cancel takes one handler out of its slice.
LEMMA SwapRemoveEntries ==
    ASSUME NEW T, NEW hs \in Seq(T), NEW i \in 1..Len(hs), NEW r, r = SwapRemove(hs, i)
    PROVE  /\ DOMAIN r = 1..(Len(hs) - 1) /\ Len(r) = Len(hs) - 1
           /\ \A k \in 1..(Len(hs) - 1) : r[k] = hs[IF k = i THEN Len(hs) ELSE k]
<1> DEFINE m == [hs EXCEPT ![i] = Last(hs)]
<1>1. Last(hs) \in T /\ Last(hs) = hs[Len(hs)] /\ Len(hs) \in Nat
  BY DEF Last
<1>2. m \in Seq(T) /\ Len(m) = Len(hs)
  BY <1>1
<1>3. \A k \in 1..Len(hs) : m[k] = hs[IF k = i THEN Len(hs) ELSE k]
  BY <1>1
<1>4. r = SubSeq(m, 1, Len(hs) - 1)
  BY DEF SwapRemove
<1> HIDE DEF m
<1>5. /\ Len(r) = Len(hs) - 1 /\ DOMAIN r = 1..(Len(hs) - 1)
      /\ \A k \in 1..(Len(hs) - 1) : r[k] = m[k]
  BY <1>1, <1>2, <1>4
<1>6. 1..(Len(hs) - 1) \subseteq 1..Len(hs)
  BY <1>1
<1> QED BY <1>3, <1>5, <1>6

\* A cancel takes away no item, and ends the claim of the handler it removes.
LEMMA DueCancel ==
    ASSUME TypeOK, SlicesInv, DueInv, NEW s \in DOMAIN subs, Cancel(s)
    PROVE  SlicesInv' /\ DueInv'
<1> DEFINE t == subs[s].type
           i == subs[s].idx
           hs == subscribers[t]
           r == SwapRemove(hs, i)
<1>1. t \in Types \cup {All} /\ i \in Nat \ {0} /\ hs \in Seq(DOMAIN subs)
  <2> DEFINE R == [type : Types \cup {All}, idx : Nat \ {0}]
  <2>1. subs \in Seq(R)
    BY DEF TypeOK
  <2> HIDE DEF R
  <2>2. subs[s] \in R
    BY <2>1, SeqFacts
  <2>3. t \in Types \cup {All} /\ i \in Nat \ {0}
    BY <2>2 DEF R
  <2> QED BY <2>3 DEF TypeOK
<1>2. /\ UNCHANGED <<subs, snap, seq, types, todo, workCh, work, got>>
      /\ cancelled' = cancelled \cup {s}
      /\ IF i > Len(hs) THEN UNCHANGED <<subscribers, victims>>
         ELSE /\ subscribers' = [subscribers EXCEPT ![t] = r]
              /\ victims' = victims \cup ({hs[i]} \ {s})
  BY DEF Cancel, logVars
<1> HIDE DEF t, i, hs, r
<1>3. cancelled \subseteq cancelled' /\ victims \subseteq victims'
  BY <1>2
<1>4. SnapPast'
  BY <1>2 DEF SlicesInv, SnapPast
<1>5. OwnSlice' /\ InSlice' /\ RoomForAll'
  <2>1. CASE i > Len(hs)
    <3>1. subscribers' = subscribers /\ subs' = subs
      BY <1>2, <2>1
    <3>2. OwnSlice'
      BY <3>1 DEF SlicesInv, OwnSlice
    <3>3. InSlice'
      BY <1>3, <3>1 DEF SlicesInv, InSlice
    <3>4. RoomForAll'
      BY <3>1 DEF SlicesInv, RoomForAll
    <3> QED BY <3>2, <3>3, <3>4
  <2>2. CASE ~(i > Len(hs))
    <3>1. i \in 1..Len(hs) /\ Len(hs) \in Nat /\ DOMAIN hs = 1..Len(hs)
      BY <1>1, <2>2
    <3>2. /\ subscribers' = [subscribers EXCEPT ![t] = r] /\ subs' = subs
          /\ victims' = victims \cup ({hs[i]} \ {s})
      BY <1>2, <2>2
    <3>3. /\ DOMAIN r = 1..(Len(hs) - 1) /\ Len(r) = Len(hs) - 1
          /\ \A k \in 1..(Len(hs) - 1) : r[k] = hs[IF k = i THEN Len(hs) ELSE k]
      BY <1>1, <3>1, SwapRemoveEntries DEF r
    <3>4. /\ subscribers'[t] = r /\ hs = subscribers[t]
          /\ \A u \in Types \cup {All} : u # t => subscribers'[u] = subscribers[u]
      BY <1>1, <3>2 DEF TypeOK, hs
    <3>5. \A k \in DOMAIN r : \E l \in DOMAIN hs :
             l = (IF k = i THEN Len(hs) ELSE k) /\ r[k] = hs[l] /\ l # i
      <4>1. ASSUME NEW k \in DOMAIN r PROVE (IF k = i THEN Len(hs) ELSE k) \in DOMAIN hs
                                            /\ (IF k = i THEN Len(hs) ELSE k) # i
        <5> DEFINE n == Len(hs)
        <5>1. k \in 1..(n - 1) /\ n \in Nat /\ i \in 1..n /\ DOMAIN hs = 1..n
          BY <3>1, <3>3
        <5> HIDE DEF n
        <5>2. (IF k = i THEN n ELSE k) \in 1..n /\ (IF k = i THEN n ELSE k) # i
          BY <5>1
        <5> QED BY <5>1, <5>2 DEF n
      <4> QED BY <3>3, <4>1
    <3>6. OwnSlice'
      <4> SUFFICES ASSUME NEW u \in Types \cup {All}, NEW k \in DOMAIN subscribers'[u],
                          NEW l \in DOMAIN subscribers'[u]
                   PROVE  /\ subs[subscribers'[u][k]].type = u
                          /\ subscribers'[u][k] = subscribers'[u][l] => k = l
        BY <3>2 DEF OwnSlice
      <4>1. CASE u # t
        BY <3>4, <4>1 DEF SlicesInv, OwnSlice
      <4>2. CASE u = t
        <5>1. PICK k1 \in DOMAIN hs : k1 = (IF k = i THEN Len(hs) ELSE k) /\ r[k] = hs[k1]
          BY <3>4, <3>5, <4>2
        <5>2. PICK l1 \in DOMAIN hs : l1 = (IF l = i THEN Len(hs) ELSE l) /\ r[l] = hs[l1]
          BY <3>4, <3>5, <4>2
        <5>3. subs[hs[k1]].type = t /\ (hs[k1] = hs[l1] => k1 = l1)
          BY <1>1, <3>4 DEF SlicesInv, OwnSlice
        <5>4. k \in 1..(Len(hs) - 1) /\ l \in 1..(Len(hs) - 1)
          BY <3>3, <3>4, <4>2
        <5>5. k1 = l1 => k = l
          BY <3>1, <5>1, <5>2, <5>4
        <5> QED BY <3>4, <4>2, <5>1, <5>2, <5>3, <5>5
      <4> QED BY <4>1, <4>2
    <3>7. InSlice'
      <4> SUFFICES ASSUME NEW x \in DOMAIN subs \ (cancelled' \cup victims')
                   PROVE  \E k \in DOMAIN subscribers'[subs[x].type] :
                             subscribers'[subs[x].type][k] = x
        BY <3>2 DEF InSlice
      <4>1. x \in DOMAIN subs \ (cancelled \cup victims) /\ x # hs[i]
        BY <1>2, <1>3, <3>2
      <4>2. PICK j \in DOMAIN subscribers[subs[x].type] : subscribers[subs[x].type][j] = x
        BY <4>1 DEF SlicesInv, InSlice
      <4>3. subs[x].type \in Types \cup {All}
        <5> DEFINE R == [type : Types \cup {All}, idx : Nat \ {0}]
        <5>1. subs \in Seq(R)
          BY DEF TypeOK
        <5> HIDE DEF R
        <5>2. subs[x] \in R
          BY <4>1, <5>1, SeqFacts
        <5> QED BY <5>2 DEF R
      <4>4. CASE subs[x].type # t
        BY <3>4, <4>2, <4>3, <4>4
      <4>5. CASE subs[x].type = t
        <5>1. j \in 1..Len(hs) /\ hs[j] = x /\ j # i
          BY <3>1, <3>4, <4>1, <4>2, <4>5
        <5>2. CASE j = Len(hs)
          <6>1. i \in 1..(Len(hs) - 1)
            <7> DEFINE n == Len(hs)
            <7>1. i \in 1..n /\ n \in Nat /\ i # n
              BY <3>1, <5>1, <5>2
            <7> HIDE DEF n
            <7>2. i \in 1..(n - 1)
              BY <7>1
            <7> QED BY <7>2 DEF n
          <6>2. i \in DOMAIN r /\ r[i] = x
            BY <3>3, <5>1, <5>2, <6>1
          <6> QED BY <3>4, <4>5, <6>2
        <5>3. CASE j # Len(hs)
          <6>1. j \in 1..(Len(hs) - 1)
            BY <3>1, <5>1, <5>3
          <6>2. j \in DOMAIN r /\ r[j] = x
            BY <3>3, <5>1, <6>1
          <6> QED BY <3>4, <4>5, <6>2
        <5> QED BY <5>2, <5>3
      <4> QED BY <4>4, <4>5
    <3>8. RoomForAll'
      <4> SUFFICES ASSUME NEW u \in Types
                   PROVE  Len(subscribers'[u]) + Len(subscribers'[All]) <= Len(subs)
        BY <3>2 DEF RoomForAll
      <4> DEFINE f == Len(subscribers[u])
                 g == Len(subscribers[All])
                 f1 == Len(subscribers'[u])
                 g1 == Len(subscribers'[All])
      <4>1. f + g <= Len(subs) /\ Len(subs) \in Nat
        BY DEF SlicesInv, RoomForAll, TypeOK
      <4>2. f \in Nat /\ g \in Nat
        BY DEF TypeOK
      <4>3. (f1 = f \/ f1 = f - 1) /\ (g1 = g \/ g1 = g - 1)
        BY <1>1, <3>3, <3>4
      <4> HIDE DEF f, g, f1, g1
      <4>4. f1 + g1 <= Len(subs)
        BY <4>1, <4>2, <4>3
      <4> QED BY <4>4 DEF f1, g1
    <3> QED BY <3>6, <3>7, <3>8
  <2> QED BY <2>1, <2>2
<1>6. SlicesInv'
  BY <1>4, <1>5 DEF SlicesInv
<1>7. \A x \in Items : (Somewhere(x)' <=> Somewhere(x)) /\ (Due(x)' <=> Due(x))
  BY <1>2 DEF Somewhere, Sending, Queued, Handling, Due
<1>8. DueInv'
  BY <1>3, <1>7 DEF DueInv
<1> QED BY <1>6, <1>8

\* The handlers a Publish calls are distinct, and are those of its type.
LEMMA RecipientsEntries ==
    ASSUME TypeOK, SlicesInv, NEW t \in Types, NEW rs, rs = Recipients(t)
    PROVE  /\ rs \in Seq(DOMAIN subs) /\ Len(rs) <= MaxSubs
           /\ \A i \in DOMAIN rs : subs[rs[i]].type \in {t, All}
           /\ \A i, j \in DOMAIN rs : rs[i] = rs[j] => i = j
           /\ \A u \in {t, All} : \A k \in DOMAIN subscribers[u] :
                 \E i \in DOMAIN rs : rs[i] = subscribers[u][k]
<1> DEFINE a == subscribers[t]
           b == subscribers[All]
<1>1. /\ a \in Seq(DOMAIN subs) /\ b \in Seq(DOMAIN subs) /\ t # All
      /\ DOMAIN a = 1..Len(a) /\ DOMAIN b = 1..Len(b) /\ Len(a) \in Nat /\ Len(b) \in Nat
  BY BusAssumption DEF TypeOK
<1>2. Len(a) + Len(b) <= Len(subs) /\ Len(subs) <= MaxSubs /\ Len(subs) \in Nat
  BY DEF SlicesInv, RoomForAll, TypeOK
<1>3. /\ \A i, j \in DOMAIN a : subs[a[i]].type = t /\ (a[i] = a[j] => i = j)
      /\ \A i, j \in DOMAIN b : subs[b[i]].type = All /\ (b[i] = b[j] => i = j)
  BY DEF SlicesInv, OwnSlice
<1>4. rs = a \o b
  BY DEF Recipients
<1> HIDE DEF a, b
<1>5. rs \in Seq(DOMAIN subs) /\ Len(rs) = Len(a) + Len(b) /\ DOMAIN rs = 1..(Len(a) + Len(b))
  BY <1>1, <1>4
<1>6. \A i \in 1..Len(a) : rs[i] = a[i]
  BY <1>1, <1>4
<1>7. \A i \in 1..Len(b) : rs[Len(a) + i] = b[i]
  BY <1>1, <1>4
<1>8. \A i \in DOMAIN rs : i \in 1..Len(a) \/ \E k \in 1..Len(b) : i = Len(a) + k
  <2>1. ASSUME NEW i \in 1..(Len(a) + Len(b)), i \notin 1..Len(a)
        PROVE  i - Len(a) \in 1..Len(b) /\ i = Len(a) + (i - Len(a))
    BY <1>1, <2>1
  <2> QED BY <1>5, <2>1
<1>9. MaxSubs \in Nat
  BY BusAssumption
<1>10. Len(rs) <= MaxSubs
  BY <1>1, <1>2, <1>5, <1>9
<1>11. ASSUME NEW i \in DOMAIN rs PROVE subs[rs[i]].type \in {t, All}
  <2>1. CASE i \in 1..Len(a)
    <3>1. rs[i] = a[i] /\ i \in DOMAIN a
      BY <1>1, <1>6, <2>1
    <3> QED BY <1>3, <3>1
  <2>2. ASSUME NEW k \in 1..Len(b), i = Len(a) + k PROVE subs[rs[i]].type = All
    <3>1. rs[i] = b[k] /\ k \in DOMAIN b
      BY <1>1, <1>7, <2>2
    <3> QED BY <1>3, <3>1
  <2> QED BY <1>8, <2>1, <2>2
<1>12. ASSUME NEW i \in DOMAIN rs, NEW j \in DOMAIN rs, rs[i] = rs[j] PROVE i = j
  <2>1. CASE i \in 1..Len(a) /\ j \in 1..Len(a)
    BY <1>1, <1>3, <1>6, <1>12, <2>1
  <2>2. ASSUME NEW k \in 1..Len(b), i = Len(a) + k, NEW l \in 1..Len(b), j = Len(a) + l
        PROVE  i = j
    <3>1. rs[i] = b[k] /\ rs[j] = b[l] /\ k \in DOMAIN b /\ l \in DOMAIN b
      BY <1>1, <1>7, <2>2
    <3>2. k = l
      BY <1>3, <1>12, <3>1
    <3> QED BY <2>2, <3>2
  <2>3. ASSUME NEW k \in 1..Len(b), i = Len(a) + k, j \in 1..Len(a) PROVE FALSE
    BY <1>1, <1>3, <1>6, <1>7, <1>12, <2>3
  <2>4. ASSUME NEW l \in 1..Len(b), j = Len(a) + l, i \in 1..Len(a) PROVE FALSE
    BY <1>1, <1>3, <1>6, <1>7, <1>12, <2>4
  <2> QED BY <1>8, <2>1, <2>2, <2>3, <2>4
<1>13. ASSUME NEW u \in {t, All}, NEW k \in DOMAIN subscribers[u]
       PROVE  \E i \in DOMAIN rs : rs[i] = subscribers[u][k]
  <2>1. CASE u = t
    <3>1. k \in 1..Len(a) /\ k \in 1..(Len(a) + Len(b))
      BY <1>1, <2>1 DEF a
    <3>2. rs[k] = a[k]
      BY <1>6, <3>1
    <3> QED BY <1>5, <2>1, <3>1, <3>2 DEF a
  <2>2. CASE u = All
    <3>1. k \in 1..Len(b)
      BY <1>1, <2>2 DEF b
    <3>2. Len(a) + k \in 1..(Len(a) + Len(b))
      BY <1>1, <3>1
    <3>3. rs[Len(a) + k] = b[k]
      BY <1>7, <3>1
    <3> QED BY <1>5, <2>2, <3>2, <3>3 DEF b
  <2> QED BY <2>1, <2>2
<1> QED BY <1>5, <1>10, <1>11, <1>12, <1>13

\* Publish owes the event to the handlers of its type, and to nobody else.
LEMMA DuePublish ==
    ASSUME TypeOK, SlicesInv, OnePlace, DueInv, NEW p \in Publishers, NEW t \in Types, Publish(p, t)
    PROVE  /\ SlicesInv' /\ OnePlace' /\ DueInv'
           /\ \A q \in Publishers : q = p \/ todo'[q] = todo[q]
           /\ Len(todo'[p]) <= MaxSubs
<1> DEFINE rs == Recipients(t)
           n == seq + 1
           xs == [i \in DOMAIN rs |-> [seq |-> n, h |-> rs[i]]]
<1>1. /\ pc[p] = "idle" /\ seq' = n /\ types' = Append(types, t)
      /\ todo' = [todo EXCEPT ![p] = xs]
      /\ UNCHANGED <<subscribers, subs, cancelled, snap, victims, workCh, work, got>>
  BY DEF Publish, subVars
<1>2. /\ rs \in Seq(DOMAIN subs) /\ Len(rs) <= MaxSubs
      /\ \A i \in DOMAIN rs : subs[rs[i]].type \in {t, All}
      /\ \A i, j \in DOMAIN rs : rs[i] = rs[j] => i = j
      /\ \A u \in {t, All} : \A k \in DOMAIN subscribers[u] :
            \E i \in DOMAIN rs : rs[i] = subscribers[u][k]
  BY RecipientsEntries
<1> HIDE DEF rs
<1>3. DOMAIN rs = 1..Len(rs) /\ Len(rs) \in Nat /\ \A i \in DOMAIN rs : rs[i] \in DOMAIN subs
  BY <1>2, SeqFacts
<1>4. DOMAIN xs = DOMAIN rs /\ \A i \in DOMAIN rs : xs[i] = [seq |-> n, h |-> rs[i]]
  OBVIOUS
<1>5. Len(xs) = Len(rs)
  BY <1>3
<1> HIDE DEF xs
<1>6. /\ seq \in Nat /\ n \in Nat /\ n > seq /\ types \in Seq(Types) /\ Len(types) = seq
      /\ todo \in [Publishers -> Seq(Items)] /\ todo[p] = <<>>
  BY <1>1 DEF TypeOK
<1>7. todo'[p] = xs /\ \A q \in Publishers : q # p => todo'[q] = todo[q]
  BY <1>1, <1>6
<1>8. types'[n] = t /\ \A m \in 1..seq : types'[m] = types[m]
  BY <1>1, <1>6
<1>9. \A x \in Items : Somewhere(x) => x.seq \in 1..seq
  BY DEF DueInv, Due
<1> HIDE DEF n
<1>10. \A q \in Publishers : \A i \in DOMAIN todo[q] : todo[q][i] \in Items /\ todo[q][i].seq # n
  <2>1. ASSUME NEW q \in Publishers, NEW i \in DOMAIN todo[q]
        PROVE  todo[q][i] \in Items /\ todo[q][i].seq # n
    <3>1. todo[q][i] \in Items
      BY <1>6, SeqFacts
    <3>2. Somewhere(todo[q][i])
      BY DEF Somewhere, Sending
    <3>3. todo[q][i].seq \in 1..seq
      BY <1>9, <3>1, <3>2
    <3> QED BY <1>6, <3>1, <3>3
  <2> QED BY <2>1
<1>11. \A q, r \in Publishers : \A i \in DOMAIN todo'[q], j \in DOMAIN todo'[r] :
          todo'[q][i] = todo'[r][j] => q = r /\ i = j
  <2> SUFFICES ASSUME NEW q \in Publishers, NEW r \in Publishers,
                      NEW i \in DOMAIN todo'[q],
                      NEW j \in DOMAIN todo'[r],
                      todo'[q][i] = todo'[r][j]
               PROVE  q = r /\ i = j
    OBVIOUS
  <2>1. CASE q = p /\ r = p
    BY <1>2, <1>4, <1>7, <2>1
  <2>2. CASE q = p /\ r # p
    BY <1>4, <1>7, <1>10, <2>2
  <2>3. CASE q # p /\ r = p
    BY <1>4, <1>7, <1>10, <2>3
  <2>4. CASE q # p /\ r # p
    BY <1>7, <2>4 DEF OnePlace
  <2> QED BY <2>1, <2>2, <2>3, <2>4
<1> DEFINE New(x) == x.seq = n /\ \E i \in DOMAIN rs : rs[i] = x.h
<1>12. \A x \in Items : Sending(x)' <=> Sending(x) \/ New(x)
  <2>1. ASSUME NEW x \in Items, Sending(x)' PROVE Sending(x) \/ New(x)
    <3>1. PICK q \in Publishers : \E i \in DOMAIN todo'[q] : todo'[q][i] = x
      BY <2>1 DEF Sending
    <3>2. CASE q = p
      BY <1>4, <1>7, <3>1, <3>2
    <3>3. CASE q # p
      BY <1>7, <3>1, <3>3 DEF Sending
    <3> QED BY <3>2, <3>3
  <2>2. ASSUME NEW x \in Items, Sending(x) PROVE Sending(x)'
    <3>1. PICK q \in Publishers : \E i \in DOMAIN todo[q] : todo[q][i] = x
      BY <2>2 DEF Sending
    <3>2. q # p
      BY <1>6, <3>1
    <3> QED BY <1>7, <3>1, <3>2 DEF Sending
  <2>3. ASSUME NEW x \in Items, New(x) PROVE Sending(x)'
    <3>1. PICK i \in DOMAIN rs : rs[i] = x.h
      BY <2>3
    <3>2. x = [seq |-> n, h |-> rs[i]]
      BY <2>3, <3>1 DEF Items
    <3> QED BY <1>4, <1>7, <3>2 DEF Sending
  <2> QED BY <2>1, <2>2, <2>3
<1>13. \A x \in Items : (Queued(x)' <=> Queued(x)) /\ (Handling(x)' <=> Handling(x))
  BY <1>1 DEF Queued, Handling
<1>14. \A x \in Items : New(x) => ~Queued(x) /\ ~Handling(x) /\ x \notin got /\ ~Sending(x)
  BY <1>6, <1>9 DEF Somewhere
<1>15. \A x \in Items : New(x) => Due(x)' /\ x.seq = n
  <2>1. ASSUME NEW x \in Items, NEW i \in DOMAIN rs, rs[i] = x.h, x.seq = n PROVE Due(x)'
    <3>1. x.h \in DOMAIN subs /\ subs[x.h].type \in {t, All}
      BY <1>2, <1>3, <2>1
    <3>2. snap[x.h] <= seq
      BY <3>1 DEF SlicesInv, SnapPast
    <3>3. snap[x.h] \in Int
      <4> DEFINE S == 0..MaxEvents[0]
      <4>1. snap \in [DOMAIN subs -> S]
        BY DEF TypeOK
      <4>2. snap[x.h] \in S
        <5> HIDE DEF S
        <5> QED BY <3>1, <4>1
      <4> QED BY <4>2
    <3>4. n \in 1..n /\ n > snap[x.h]
      BY <1>6, <3>2, <3>3
    <3> QED BY <1>1, <1>8, <2>1, <3>1, <3>4 DEF Due
  <2> QED BY <2>1
<1>16. ASSUME NEW x \in Items, Due(x)', x.seq = n, x.h \notin cancelled \cup victims
       PROVE  New(x)
  <2>1. x.h \in DOMAIN subs /\ subs[x.h].type \in {t, All}
    BY <1>1, <1>8, <1>16 DEF Due
  <2>2. PICK k \in DOMAIN subscribers[subs[x.h].type] : subscribers[subs[x.h].type][k] = x.h
    BY <1>16, <2>1 DEF SlicesInv, InSlice
  <2> QED BY <1>2, <1>16, <2>1, <2>2
<1>17. ASSUME NEW x \in Items, x.seq # n PROVE Due(x)' <=> Due(x)
  <2>1. x.seq \in 1..n <=> x.seq \in 1..seq
    <3>1. 1..n = 1..seq \cup {n}
      BY <1>6 DEF n
    <3> QED BY <1>17, <3>1
  <2>2. x.seq \in 1..seq => types'[x.seq] = types[x.seq]
    BY <1>8
  <2> QED BY <1>1, <2>1, <2>2 DEF Due
<1>18. \A x \in Items : Somewhere(x)' <=> Somewhere(x) \/ New(x)
  <2>1. \A x \in Items : Somewhere(x)' <=> Sending(x)' \/ Queued(x)' \/ Handling(x)' \/ x \in got'
    BY DEF Somewhere
  <2> HIDE DEF New
  <2> QED BY <1>1, <1>12, <1>13, <2>1 DEF Somewhere
<1>19. OnePlace'
  <2>1. /\ \A i, j \in DOMAIN workCh' : workCh'[i] = workCh'[j] => i = j
        /\ \A u, w \in Workers : work'[u] = work'[w] /\ work'[u] # None => u = w
    BY <1>1 DEF OnePlace
  <2> HIDE DEF New
  <2>2. \A x \in Items : /\ Sending(x)' => ~Queued(x)' /\ ~Handling(x)' /\ x \notin got'
                         /\ Queued(x)' => ~Handling(x)' /\ x \notin got'
                         /\ Handling(x)' => x \notin got'
    BY <1>1, <1>12, <1>13, <1>14 DEF OnePlace
  <2> QED BY <1>11, <2>1, <2>2 DEF OnePlace
<1>20. DueInv'
  <2> SUFFICES ASSUME NEW x \in Items
               PROVE  /\ Somewhere(x)' => Due(x)'
                      /\ Due(x)' /\ x.h \notin cancelled \cup victims => Somewhere(x)'
    BY <1>1 DEF DueInv
  <2>1. Somewhere(x) => x.seq # n
    BY <1>6, <1>9
  <2> HIDE DEF New
  <2>2. CASE x.seq = n
    BY <1>15, <1>16, <1>18, <2>1, <2>2
  <2>3. CASE x.seq # n
    <3>1. ~New(x)
      BY <2>3 DEF New
    <3> QED BY <1>17, <1>18, <2>3, <3>1 DEF DueInv
  <2> QED BY <2>2, <2>3
<1>21. SlicesInv'
  <2>1. subscribers' = subscribers /\ subs' = subs /\ snap' = snap
        /\ cancelled' = cancelled /\ victims' = victims
    BY <1>1
  <2>2. OwnSlice'
    BY <2>1 DEF SlicesInv, OwnSlice
  <2>3. InSlice'
    BY <2>1 DEF SlicesInv, InSlice
  <2>4. RoomForAll'
    BY <2>1 DEF SlicesInv, RoomForAll
  <2>5. SnapPast'
    <3> SUFFICES ASSUME NEW s \in DOMAIN subs PROVE snap[s] <= n
      BY <1>1 DEF SnapPast
    <3>1. snap[s] <= seq
      BY DEF SlicesInv, SnapPast
    <3>2. snap[s] \in Int
      BY BusAssumption DEF TypeOK
    <3> QED BY <1>6, <3>1, <3>2
  <2> QED BY <2>2, <2>3, <2>4, <2>5 DEF SlicesInv
<1> QED BY <1>2, <1>5, <1>7, <1>19, <1>20, <1>21

\* Every step keeps the deliveries in order.
LEMMA DeliveryStep == TypeOK /\ DeliveryInv /\ [Next]_vars => DeliveryInv'
<1> SUFFICES ASSUME TypeOK, DeliveryInv, [Next]_vars PROVE DeliveryInv'
  OBVIOUS
<1>1. /\ LogInv /\ SlicesInv /\ OnePlace /\ DueInv
      /\ \A p \in Publishers : Len(todo[p]) <= MaxSubs
  BY DEF DeliveryInv
<1>2. LogInv'
  BY <1>1, LogStep
<1>3. CASE /\ UNCHANGED <<subVars, logVars, todo>>
           /\ OnePlace' /\ \A x \in Items : Somewhere(x)' <=> Somewhere(x)
  <2>1. SlicesInv' /\ DueInv'
    BY <1>1, <1>3, DueFrame
  <2>2. \A p \in Publishers : Len(todo'[p]) <= MaxSubs
    BY <1>1, <1>3
  <2> QED BY <1>2, <1>3, <2>1, <2>2 DEF DeliveryInv
<1>4. CASE \E t \in Types \cup {All} : Subscribe(t)
  <2>1. PICK t \in Types \cup {All} : Subscribe(t)
    BY <1>4
  <2>2. UNCHANGED <<todo, workCh, work, got>>
    BY <2>1 DEF Subscribe
  <2>3. OnePlace' /\ \A p \in Publishers : Len(todo'[p]) <= MaxSubs
    BY <1>1, <2>2 DEF OnePlace, Sending, Queued, Handling
  <2> QED BY <1>1, <1>2, <2>1, <2>3, DueSubscribe DEF DeliveryInv
<1>5. CASE \E s \in DOMAIN subs : Cancel(s)
  <2>1. PICK s \in DOMAIN subs : Cancel(s)
    BY <1>5
  <2>2. UNCHANGED <<todo, workCh, work, got>>
    BY <2>1 DEF Cancel
  <2>3. OnePlace' /\ \A p \in Publishers : Len(todo'[p]) <= MaxSubs
    BY <1>1, <2>2 DEF OnePlace, Sending, Queued, Handling
  <2> QED BY <1>1, <1>2, <2>1, <2>3, DueCancel DEF DeliveryInv
<1>6. ASSUME NEW p \in Publishers, NEW t \in Types, Publish(p, t) PROVE DeliveryInv'
  <2>1. /\ SlicesInv' /\ OnePlace' /\ DueInv'
        /\ \A q \in Publishers : q = p \/ todo'[q] = todo[q]
        /\ Len(todo'[p]) <= MaxSubs
    BY <1>1, <1>6, DuePublish
  <2>2. \A q \in Publishers : Len(todo'[q]) <= MaxSubs
    BY <1>1, <2>1
  <2> QED BY <1>2, <2>1, <2>2 DEF DeliveryInv
<1>7. ASSUME NEW p \in Publishers, Send(p) PROVE DeliveryInv'
  <2>1. OnePlace' /\ \A x \in Items : Somewhere(x)' <=> Somewhere(x)
    BY <1>1, <1>7, OneSend
  <2>2. UNCHANGED subVars /\ UNCHANGED logVars
    BY <1>7 DEF Send
  <2>3. SlicesInv' /\ DueInv'
    BY <1>1, <2>1, <2>2, DueFrame
  <2>4. todo[p] \in Seq(Items) /\ todo[p] # <<>> /\ todo \in [Publishers -> Seq(Items)]
    BY <1>7 DEF TypeOK, Send
  <2>5. Len(Tail(todo[p])) = Len(todo[p]) - 1 /\ Len(todo[p]) \in Nat
    BY <2>4, Popped
  <2>6. todo'[p] = Tail(todo[p]) /\ \A q \in Publishers : q # p => todo'[q] = todo[q]
    BY <1>7, <2>4 DEF Send
  <2>7. MaxSubs \in Nat
    BY BusAssumption
  <2>8. \A q \in Publishers : Len(todo'[q]) <= MaxSubs
    <3>1. Len(Tail(todo[p])) <= MaxSubs
      BY <1>1, <2>5, <2>7
    <3> QED BY <1>1, <2>6, <3>1
  <2> QED BY <1>2, <2>1, <2>3, <2>8 DEF DeliveryInv
<1>8. ASSUME NEW w \in Workers, Receive(w) PROVE DeliveryInv'
  <2>1. OnePlace' /\ \A x \in Items : Somewhere(x)' <=> Somewhere(x)
    BY <1>1, <1>8, OneReceive
  <2>2. UNCHANGED <<subVars, logVars, todo>>
    BY <1>8 DEF Receive
  <2> QED BY <1>3, <2>1, <2>2
<1>9. ASSUME NEW w \in Workers, HandlerReturn(w) PROVE DeliveryInv'
  <2>1. OnePlace' /\ \A x \in Items : Somewhere(x)' <=> Somewhere(x)
    BY <1>1, <1>9, OneHandled
  <2>2. UNCHANGED <<subVars, logVars, todo>>
    BY <1>9 DEF HandlerReturn
  <2> QED BY <1>3, <2>1, <2>2
<1>10. CASE UNCHANGED <<subVars, logVars, todo, workCh, work, got>>
  <2>1. UNCHANGED <<todo, workCh, work, got>>
    BY <1>10
  <2>2. OnePlace' /\ \A x \in Items : Somewhere(x)' <=> Somewhere(x)
    BY <1>1, <2>1 DEF OnePlace, Somewhere, Sending, Queued, Handling
  <2> QED BY <1>3, <1>10, <2>2
<1>11. \/ \E t \in Types \cup {All} : Subscribe(t)
       \/ \E s \in DOMAIN subs : Cancel(s)
       \/ \E p \in Publishers, t \in Types : Publish(p, t)
       \/ \E p \in Publishers : Send(p)
       \/ \E w \in Workers : Receive(w) \/ HandlerReturn(w)
       \/ UNCHANGED <<subVars, logVars, todo, workCh, work, got>>
  BY DEF Next, vars, HandlerPublish, Publishers, StartWorkers, SeeStop, Exit, StopBegin, StopReturn
<1> QED BY <1>4, <1>5, <1>6, <1>7, <1>8, <1>9, <1>10, <1>11

LEMMA DeliveryInit == Init => DeliveryInv
<1> SUFFICES ASSUME Init PROVE DeliveryInv
  OBVIOUS
<1>1. /\ subscribers = [t \in Types \cup {All} |-> <<>>] /\ subs = <<>> /\ seq = 0
      /\ todo = [p \in Publishers |-> <<>>] /\ workCh = <<>> /\ got = {}
      /\ work = [w \in Workers |-> None] /\ MaxSubs \in Nat
  BY BusAssumption DEF Init
<1>2. SlicesInv
  <2>1. DOMAIN subs = {}
    BY <1>1
  <2> QED BY <1>1, <2>1 DEF SlicesInv, OwnSlice, InSlice, RoomForAll, SnapPast
<1>3. \A x \in Items : ~Sending(x) /\ ~Queued(x) /\ ~Handling(x) /\ x \notin got
  BY <1>1, NoneIsNoItem DEF Sending, Queued, Handling
<1>4. OnePlace
  <2>1. /\ \A p, q \in Publishers : \A i \in DOMAIN todo[p], j \in DOMAIN todo[q] :
              todo[p][i] = todo[q][j] => p = q /\ i = j
        /\ \A i, j \in DOMAIN workCh : workCh[i] = workCh[j] => i = j
        /\ \A u, w \in Workers : work[u] = work[w] /\ work[u] # None => u = w
    BY <1>1
  <2> QED BY <1>3, <2>1 DEF OnePlace
<1>5. DueInv
  <2>1. \A x \in Items : ~Somewhere(x) /\ ~Due(x)
    BY <1>1, <1>3 DEF Somewhere, Due
  <2> QED BY <2>1 DEF DueInv
<1>6. \A p \in Publishers : Len(todo[p]) <= MaxSubs
  BY <1>1
<1> QED BY <1>2, <1>4, <1>5, <1>6, LogInit DEF DeliveryInv

\* A set with at most one member has one or none.
LEMMA AtMostOne ==
    ASSUME NEW S, \A a, b \in S : a = b
    PROVE  Cardinality(S) = IF S = {} THEN 0 ELSE 1
<1>1. CASE S = {}
  BY <1>1, FS_EmptySet
<1>2. CASE S # {}
  <2>1. PICK a \in S : TRUE
    BY <1>2
  <2>2. S = {a}
    BY <2>1
  <2>3. Cardinality({a}) = 1
    BY FS_Singleton
  <2> QED BY <1>2, <2>2, <2>3
<1> QED BY <1>1, <1>2

\* An item is in as many places as Copies says: one, or none.
LEMMA CopiesOfItem ==
    ASSUME TypeOK, DeliveryInv, NEW x \in Items
    PROVE  Copies(x) = IF Somewhere(x) THEN 1 ELSE 0
<1> DEFINE A == {q \in Publishers \X (1..MaxSubs) :
                    q[2] <= Len(todo[q[1]]) /\ todo[q[1]][q[2]] = x}
           B == {i \in DOMAIN workCh : workCh[i] = x}
           C == {w \in Workers : work[w] = x}
<1>1. OnePlace /\ (\A p \in Publishers : Len(todo[p]) <= MaxSubs) /\ MaxSubs \in Nat
  BY BusAssumption DEF DeliveryInv
<1>2. \A p \in Publishers : DOMAIN todo[p] = 1..Len(todo[p]) /\ Len(todo[p]) \in Nat
  BY DEF TypeOK
<1>3. x # None
  BY NoneIsNoItem
<1>4. \A a, b \in A : a = b
  <2>1. ASSUME NEW a \in A, NEW b \in A PROVE a = b
    <3>1. /\ a[1] \in Publishers /\ a[2] \in DOMAIN todo[a[1]] /\ todo[a[1]][a[2]] = x
          /\ b[1] \in Publishers /\ b[2] \in DOMAIN todo[b[1]] /\ todo[b[1]][b[2]] = x
      BY <1>1, <1>2
    <3>2. a[1] = b[1] /\ a[2] = b[2]
      BY <1>1, <3>1 DEF OnePlace
    <3> QED BY <3>2
  <2> QED BY <2>1
<1>5. (\A a, b \in B : a = b) /\ (\A a, b \in C : a = b)
  BY <1>1, <1>3 DEF OnePlace
<1>6. A # {} <=> Sending(x)
  <2>1. ASSUME NEW a \in A PROVE Sending(x)
    BY <1>1, <1>2 DEF Sending
  <2>2. ASSUME NEW p \in Publishers, NEW i \in DOMAIN todo[p], todo[p][i] = x PROVE <<p, i>> \in A
    <3>1. i \in 1..MaxSubs /\ i <= Len(todo[p])
      BY <1>1, <1>2
    <3> QED BY <2>2, <3>1
  <2> QED BY <2>1, <2>2 DEF Sending
<1>7. (B # {} <=> Queued(x)) /\ (C # {} <=> Handling(x))
  BY DEF Queued, Handling
<1>8. Copies(x) = Cardinality(A) + Cardinality(B) + Cardinality(C) + (IF x \in got THEN 1 ELSE 0)
  BY DEF Copies
<1> HIDE DEF A, B, C
<1>9. /\ Cardinality(A) = IF Sending(x) THEN 1 ELSE 0
      /\ Cardinality(B) = IF Queued(x) THEN 1 ELSE 0
      /\ Cardinality(C) = IF Handling(x) THEN 1 ELSE 0
  BY <1>4, <1>5, <1>6, <1>7, AtMostOne
<1>10. /\ Sending(x) => ~Queued(x) /\ ~Handling(x) /\ x \notin got
       /\ Queued(x) => ~Handling(x) /\ x \notin got
       /\ Handling(x) => x \notin got
  BY <1>1 DEF OnePlace
<1> QED BY <1>8, <1>9, <1>10 DEF Somewhere

\* The inductive invariant of the bus holds: the history is a part of the log,
\* every handler is in the slice of its type once, every subscription is owed
\* what was published after its snapshot, and what is underway or handled is
\* exactly what is owed, each item in one place.
THEOREM InvariantHolds == Spec => []BusInv
<1>1. PoolInv /\ DeliveryInv /\ [Next]_vars => DeliveryInv'
  BY DeliveryStep DEF PoolInv
<1> QED BY <1>1, DeliveryInit, PoolIsSound, PTL DEF Spec, BusInv

\* No gap and no duplicate between the snapshot of a subscription and what it is
\* sent.
THEOREM DeliveredExactlyOnce == Spec => []NoGapNoDup
<1>1. TypeOK /\ DeliveryInv => NoGapNoDup
  <2> SUFFICES ASSUME TypeOK, DeliveryInv, NEW s \in DOMAIN subs, NEW n \in 1..seq
               PROVE  LET c   == Copies([seq |-> n, h |-> s])
                          due == n > snap[s] /\ subs[s].type \in {types[n], All}
                      IN  /\ c <= 1
                          /\ ~due => c = 0
                          /\ due /\ s \notin cancelled \cup victims => c = 1
    BY DEF NoGapNoDup
  <2> DEFINE x == [seq |-> n, h |-> s]
             due == n > snap[s] /\ subs[s].type \in {types[n], All}
  <2>1. n \in 1..MaxEvents[0] /\ s \in 1..MaxSubs
    <3>1. Len(subs) \in 0..MaxSubs /\ DOMAIN subs = 1..Len(subs) /\ 0 \in 0..MaxSubs
      BY BusAssumption DEF TypeOK
    <3>2. MaxEvents[Len(subs)] <= MaxEvents[0] /\ MaxEvents[0] \in Nat
          /\ MaxEvents[Len(subs)] \in Nat
      BY <3>1, BusAssumption
    <3>3. seq <= MaxEvents[Len(subs)] /\ seq \in Nat /\ MaxSubs \in Nat
      BY <3>2, BusAssumption DEF TypeOK
    <3> QED BY <3>1, <3>2, <3>3
  <2>2. x \in Items /\ x.seq = n /\ x.h = s
    BY <2>1 DEF Items
  <2>3. due <=> Due(x)
    BY <2>2 DEF Due
  <2> HIDE DEF x, due
  <2>4. Copies(x) = IF Somewhere(x) THEN 1 ELSE 0
    BY <2>2, CopiesOfItem
  <2>5. Somewhere(x) => Due(x)
    BY <2>2 DEF DeliveryInv, DueInv
  <2>6. Due(x) /\ s \notin cancelled \cup victims => Somewhere(x)
    BY <2>2 DEF DeliveryInv, DueInv
  <2>7. Copies(x) <= 1 /\ (~due => Copies(x) = 0)
        /\ (due /\ s \notin cancelled \cup victims => Copies(x) = 1)
    BY <2>3, <2>4, <2>5, <2>6
  <2> QED BY <2>7 DEF x, due
<1> QED BY <1>1, InvariantHolds, PTL DEF BusInv, PoolInv

=============================================================================

-------------------------- MODULE LambdaPoolProofs --------------------------
(* Proofs about LambdaPool, for any functions, limits, budgets and any number
   of goroutines and containers.

   A count or a sum in the code's books is compared with the cardinality of a
   set of calls or of a set of (owner, megabyte) pairs, so that each step adds
   or removes one element or one block of pairs.                             *)

EXTENDS LambdaPool, FiniteSetTheorems, TLAPS

-----------------------------------------------------------------------------
(* Sums of sizes. *)

\* The block of pairs one owner contributes.
LEMMA BlockSize ==
    ASSUME NEW x, NEW m \in Nat
    PROVE  IsFiniteSet({x} \X (1..m)) /\ Cardinality({x} \X (1..m)) = m
<1>1. IsFiniteSet(1..m) /\ Cardinality(1..m) = m
  BY FS_Interval, 1 \in Int, m \in Int
<1> DEFINE b == [k \in 1..m |-> <<x, k>>]
<1>2. b \in Bijection(1..m, {x} \X (1..m))
  BY DEF Bijection, Injection, Surjection, IsInjective
<1>3. ExistsBijection(1..m, {x} \X (1..m))
  BY <1>2 DEF ExistsBijection
<1> QED BY <1>1, <1>3, FS_Bijection

\* Units is monotone and only looks at the sizes of its owners.
LEMMA UnitsAdd ==
    ASSUME NEW S, NEW mem, NEW x
    PROVE  /\ Units(S \cup {x}, mem) = Units(S, mem) \cup ({x} \X (1..mem[x]))
           /\ x \notin S => Units(S, mem) \cap ({x} \X (1..mem[x])) = {}
<1>1. Units(S \cup {x}, mem) = Units(S, mem) \cup ({x} \X (1..mem[x]))
  BY DEF Units
<1>2. ASSUME x \notin S, NEW p \in Units(S, mem) PROVE p \notin {x} \X (1..mem[x])
  <2>1. PICK y \in S : p \in {y} \X (1..mem[y])
    BY <1>2 DEF Units
  <2> QED BY <1>2, <2>1
<1> QED BY <1>1, <1>2

LEMMA UnitsSame ==
    ASSUME NEW S, NEW mem, NEW mem2, \A x \in S : mem2[x] = mem[x]
    PROVE  Units(S, mem2) = Units(S, mem)
BY DEF Units

LEMMA UnitsSubset ==
    ASSUME NEW S, NEW mem, NEW T, T \subseteq S
    PROVE  Units(T, mem) \subseteq Units(S, mem)
BY DEF Units

\* The pairs of finitely many owners are finitely many.
LEMMA UnitsFinite ==
    ASSUME NEW S, IsFiniteSet(S), NEW mem, \A x \in S : mem[x] \in Nat
    PROVE  IsFiniteSet(Units(S, mem)) /\ Sum(S, mem) \in Nat
<1> DEFINE B == {{x} \X (1..mem[x]) : x \in S}
<1>1. ASSUME NEW b \in B PROVE IsFiniteSet(b)
  <2>1. PICK x \in S : b = {x} \X (1..mem[x])
    OBVIOUS
  <2> QED BY <2>1, BlockSize
<1>2. IsFiniteSet(B)
  <2> DEFINE f == [x \in S |-> {x} \X (1..mem[x])]
  <2>1. f \in Surjection(S, B)
    BY DEF Surjection
  <2> HIDE DEF f, B
  <2> QED BY <2>1, FS_Surjection
<1>3. IsFiniteSet(UNION B)
  <2> HIDE DEF B
  <2> QED BY <1>1, <1>2, FS_UNION
<1>4. IsFiniteSet(Units(S, mem))
  BY <1>3 DEF Units
<1> QED BY <1>4, FS_CardinalityType DEF Sum

\* One owner more, one owner less.
LEMMA SumAdd ==
    ASSUME NEW S, IsFiniteSet(S), NEW mem, NEW x, x \notin S,
           \A y \in S \cup {x} : mem[y] \in Nat
    PROVE  Sum(S \cup {x}, mem) = Sum(S, mem) + mem[x] /\ Sum(S, mem) \in Nat
<1> DEFINE U == Units(S, mem)
           X == {x} \X (1..mem[x])
<1>1. IsFiniteSet(U) /\ Cardinality(U) \in Nat
  BY UnitsFinite DEF Sum
<1>2. IsFiniteSet(X) /\ Cardinality(X) = mem[x]
  BY BlockSize
<1>3. U \cap X = {} /\ Units(S \cup {x}, mem) = U \cup X
  BY UnitsAdd
<1> HIDE DEF U, X
<1>4. Cardinality(U \cup X) = Cardinality(U) + Cardinality(X) - Cardinality(U \cap X)
  BY <1>1, <1>2, FS_Union
<1>5. Cardinality(U \cap X) = 0
  BY <1>3, FS_EmptySet
<1>6. Cardinality(U \cup X) = Cardinality(U) + mem[x]
  BY <1>1, <1>2, <1>4, <1>5
<1> QED BY <1>1, <1>3, <1>6 DEF Sum, U

LEMMA SumRemove ==
    ASSUME NEW S, IsFiniteSet(S), NEW mem, NEW x \in S, \A y \in S : mem[y] \in Nat
    PROVE  Sum(S \ {x}, mem) = Sum(S, mem) - mem[x] /\ Sum(S, mem) \in Nat
<1> DEFINE T == S \ {x}
<1>1. IsFiniteSet(T)
  BY FS_RemoveElement
<1>2. x \notin T /\ T \cup {x} = S
  OBVIOUS
<1> HIDE DEF T
<1>3. \A y \in T \cup {x} : mem[y] \in Nat
  BY <1>2
<1>4. Sum(T \cup {x}, mem) = Sum(T, mem) + mem[x] /\ Sum(T, mem) \in Nat
  BY <1>1, <1>2, <1>3, SumAdd
<1>5. Sum(S, mem) = Sum(T, mem) + mem[x] /\ Sum(T, mem) \in Nat /\ mem[x] \in Nat
  BY <1>2, <1>4
<1> QED BY <1>5 DEF T

LEMMA SumSame ==
    ASSUME NEW S, NEW mem, NEW mem2, \A x \in S : mem2[x] = mem[x]
    PROVE  Sum(S, mem2) = Sum(S, mem)
BY UnitsSame DEF Sum

LEMMA SumSubset ==
    ASSUME NEW S, IsFiniteSet(S), NEW mem, \A x \in S : mem[x] \in Nat,
           NEW T, T \subseteq S
    PROVE  Sum(T, mem) <= Sum(S, mem) /\ Sum(T, mem) \in Nat /\ Sum(S, mem) \in Nat
<1>1. IsFiniteSet(Units(S, mem)) /\ Sum(S, mem) \in Nat
  BY UnitsFinite
<1>2. Units(T, mem) \in SUBSET Units(S, mem)
  BY UnitsSubset
<1>3. IsFiniteSet(Units(T, mem)) /\ Cardinality(Units(T, mem)) <= Cardinality(Units(S, mem))
  BY <1>1, <1>2, FS_Subset
<1>4. Cardinality(Units(T, mem)) \in Nat
  BY <1>3, FS_CardinalityType
<1> QED BY <1>1, <1>3, <1>4 DEF Sum

-----------------------------------------------------------------------------
(* Steps that leave a call alone. *)

\* A call that took no part in a step, except that it may have been woken.
SameCall(h) ==
    /\ kind'[h] = kind[h] /\ cfg'[h] = cfg[h]
    /\ inst'[h] = inst[h] /\ drop'[h] = drop[h] /\ left'[h] = left[h]
    /\ \/ pc'[h] = pc[h]
       \/ pc[h] = "admitWait" /\ pc'[h] = "admit"
       \/ pc[h] = "containerWait" /\ pc'[h] = "container"

\* A bystander keeps its shape, its slot and its reservation of memory.
LEMMA Bystander ==
    ASSUME NEW h \in Calls, SameCall(h)
    PROVE  /\ CallShape(h) => CallShape(h)'
           /\ h \in SlotHolders' <=> h \in SlotHolders
           /\ h \in PendingCalls' <=> h \in PendingCalls
<1>1. CallShape(h) => CallShape(h)'
  BY DEF SameCall, CallShape, Admitted
<1>2. h \in SlotHolders' <=> h \in SlotHolders
  BY DEF SameCall, SlotHolders
<1>3. h \in PendingCalls' <=> h \in PendingCalls
  BY DEF SameCall, PendingCalls, Admitted
<1> QED BY <1>1, <1>2, <1>3

\* What going to a label does, with and without waking everybody.
LEMMA GotoFacts ==
    ASSUME TypeOK, NEW g \in Calls, NEW l \in Labels, l \notin {"admitWait", "containerWait"}
    PROVE  /\ Goto(g, l) \in [Calls -> Labels] /\ Woken(Goto(g, l)) \in [Calls -> Labels]
           /\ Goto(g, l)[g] = l /\ Woken(Goto(g, l))[g] = l
           /\ \A h \in Calls : h # g =>
                /\ Goto(g, l)[h] = pc[h]
                /\ \/ Woken(Goto(g, l))[h] = pc[h]
                   \/ pc[h] = "admitWait" /\ Woken(Goto(g, l))[h] = "admit"
                   \/ pc[h] = "containerWait" /\ Woken(Goto(g, l))[h] = "container"
                /\ Woken(Goto(g, l))[h] \notin {"admitWait", "containerWait"}
BY DEF TypeOK, Goto, Woken, Labels

LEMMA GotoWaitFacts ==
    ASSUME TypeOK, NEW g \in Calls, NEW l \in Labels
    PROVE  /\ Goto(g, l) \in [Calls -> Labels] /\ Goto(g, l)[g] = l
           /\ \A h \in Calls : h # g => Goto(g, l)[h] = pc[h]
BY DEF TypeOK, Goto, Labels

\* What a step of call g that goes to label l does to the others.
LEMMA OthersSame ==
    ASSUME TypeOK, NEW g \in Calls, NEW l \in Labels,
           \/ pc' = Goto(g, l)
           \/ pc' = Woken(Goto(g, l)) /\ l \notin {"admitWait", "containerWait"},
           \A h \in Calls \ {g} : /\ kind'[h] = kind[h] /\ cfg'[h] = cfg[h]
                                  /\ inst'[h] = inst[h] /\ drop'[h] = drop[h] /\ left'[h] = left[h]
    PROVE  /\ pc' \in [Calls -> Labels] /\ pc'[g] = l
           /\ \A h \in Calls \ {g} : SameCall(h)
<1>1. pc' \in [Calls -> Labels] /\ pc'[g] = l
  BY GotoFacts, GotoWaitFacts
<1>2. ASSUME NEW h \in Calls \ {g} PROVE SameCall(h)
  <2>1. CASE pc' = Goto(g, l)
    <3>1. pc'[h] = pc[h]
      BY <2>1, GotoWaitFacts
    <3> QED BY <3>1 DEF SameCall
  <2>2. CASE pc' = Woken(Goto(g, l)) /\ l \notin {"admitWait", "containerWait"}
    <3>1. \/ pc'[h] = pc[h]
          \/ pc[h] = "admitWait" /\ pc'[h] = "admit"
          \/ pc[h] = "containerWait" /\ pc'[h] = "container"
      BY <2>2, GotoFacts
    <3> QED BY <3>1 DEF SameCall
  <2> QED BY <2>1, <2>2
<1> QED BY <1>1, <1>2

LEMMA WokenFacts ==
    ASSUME TypeOK
    PROVE  /\ Woken(pc) \in [Calls -> Labels]
           /\ \A h \in Calls :
                /\ \/ Woken(pc)[h] = pc[h]
                   \/ pc[h] = "admitWait" /\ Woken(pc)[h] = "admit"
                   \/ pc[h] = "containerWait" /\ Woken(pc)[h] = "container"
                /\ Woken(pc)[h] \notin {"admitWait", "containerWait"}
BY DEF TypeOK, Woken, Labels

-----------------------------------------------------------------------------
(* The slot books. *)

LEMMA HoldersFinite ==
    ASSUME NEW f
    PROVE  /\ IsFiniteSet(HoldersOf(f)) /\ Cardinality(HoldersOf(f)) \in Nat
           /\ HoldersOf(f) \subseteq Calls
<1>1. HoldersOf(f) \in SUBSET Calls
  BY DEF HoldersOf, SlotHolders
<1>2. IsFiniteSet(HoldersOf(f))
  BY <1>1, PoolAssumption, FS_Subset
<1> QED BY <1>1, <1>2, FS_CardinalityType

\* Nobody takes or gives back a slot.
LEMMA SlotsSame ==
    ASSUME SlotBooks, checkedOut' = checkedOut, Nil => Nil',
           \A h \in Calls : h \in SlotHolders' <=> h \in SlotHolders,
           \A h \in SlotHolders : cfg'[h] = cfg[h]
    PROVE  SlotBooks'
<1>1. \A f : HoldersOf(f)' = HoldersOf(f)
  BY DEF HoldersOf, SlotHolders, Fn
<1> QED BY <1>1 DEF SlotBooks, Nil

\* Call g takes a slot of function k.
LEMMA SlotTaken ==
    ASSUME TypeOK, SlotBooks, Nil => Nil', NEW g \in Calls, NEW k \in Functions,
           NameOf[cfg'[g]] = k, checkedOut' = [checkedOut EXCEPT ![k] = @ + 1],
           g \notin SlotHolders, g \in SlotHolders',
           \A h \in Calls : h # g => (h \in SlotHolders' <=> h \in SlotHolders),
           \A h \in SlotHolders : cfg'[h] = cfg[h]
    PROVE  SlotBooks'
<1>0. SlotHolders \subseteq Calls /\ SlotHolders' \subseteq Calls
  BY DEF SlotHolders
<1>1. HoldersOf(k)' = HoldersOf(k) \cup {g} /\ g \notin HoldersOf(k)
  BY <1>0 DEF HoldersOf, Fn
<1>2. \A f : f # k => HoldersOf(f)' = HoldersOf(f)
  BY <1>0 DEF HoldersOf, Fn
<1> DEFINE H == HoldersOf(k)
<1>3. Cardinality(HoldersOf(k)') = Cardinality(HoldersOf(k)) + 1
  <2>1. IsFiniteSet(H) /\ g \notin H
    BY <1>1, HoldersFinite
  <2> HIDE DEF H
  <2>2. Cardinality(H \cup {g}) = Cardinality(H) + 1
    BY <2>1, FS_AddElement
  <2> QED BY <1>1, <2>2 DEF H
<1>4. ASSUME ~Nil', NEW f \in Functions PROVE checkedOut'[f] = Cardinality(HoldersOf(f)')
  <2>1. checkedOut[f] = Cardinality(HoldersOf(f))
    BY <1>4 DEF SlotBooks
  <2>2. CASE f = k
    <3>1. checkedOut'[f] = checkedOut[f] + 1
      BY <2>2 DEF TypeOK
    <3> QED BY <2>1, <2>2, <3>1, <1>3
  <2>3. CASE f # k
    <3>1. checkedOut'[f] = checkedOut[f]
      BY <2>3 DEF TypeOK
    <3> QED BY <2>1, <2>3, <3>1, <1>2
  <2> QED BY <2>2, <2>3
<1> QED BY <1>4 DEF SlotBooks

\* Call g gives its slot of function k back.
LEMMA SlotReturned ==
    ASSUME TypeOK, SlotBooks, stopped' = stopped, NEW g \in Calls, NEW k \in Functions,
           Fn(g) = k, checkedOut' = Decremented(k),
           g \in SlotHolders, g \notin SlotHolders',
           \A h \in Calls : h # g => (h \in SlotHolders' <=> h \in SlotHolders),
           \A h \in SlotHolders : cfg'[h] = cfg[h]
    PROVE  SlotBooks'
<1>0. SlotHolders \subseteq Calls /\ SlotHolders' \subseteq Calls
  BY DEF SlotHolders
<1>1. HoldersOf(k)' = HoldersOf(k) \ {g} /\ g \in HoldersOf(k)
  BY <1>0 DEF HoldersOf, Fn
<1>2. \A f : f # k => HoldersOf(f)' = HoldersOf(f)
  BY <1>0 DEF HoldersOf, Fn
<1> DEFINE H == HoldersOf(k)
<1>3. Cardinality(HoldersOf(k)') = Cardinality(HoldersOf(k)) - 1
  <2>1. IsFiniteSet(H) /\ g \in H
    BY <1>1, HoldersFinite
  <2> HIDE DEF H
  <2>2. Cardinality(H \ {g}) = Cardinality(H) - 1
    BY <2>1, FS_RemoveElement
  <2> QED BY <1>1, <2>2 DEF H
<1>4. Cardinality(HoldersOf(k)) \in Nat /\ Cardinality(HoldersOf(k)) # 0
  BY <1>1, HoldersFinite, FS_EmptySet
<1>5. ASSUME ~Nil', NEW f \in Functions PROVE checkedOut'[f] = Cardinality(HoldersOf(f)')
  <2>0. ~Nil
    BY <1>5 DEF Nil
  <2>1. checkedOut[f] = Cardinality(HoldersOf(f))
    BY <2>0 DEF SlotBooks
  <2>2. CASE f = k
    <3>1. checkedOut'[f] = IF checkedOut[f] <= 1 THEN 0 ELSE checkedOut[f] - 1
      BY <2>0, <2>2 DEF TypeOK, Decremented
    <3> QED BY <2>1, <2>2, <3>1, <1>3, <1>4
  <2>3. CASE f # k
    <3>1. checkedOut'[f] = checkedOut[f]
      BY <2>0, <2>3 DEF TypeOK, Decremented
    <3> QED BY <2>1, <2>3, <3>1, <1>2
  <2> QED BY <2>2, <2>3
<1> QED BY <1>5 DEF SlotBooks

-----------------------------------------------------------------------------
(* The memory books. *)

LEMMA MemTypes ==
    ASSUME TypeOK
    PROVE  /\ \A g \in Calls : CallMem[g] \in Nat
           /\ \A i \in Instances : InstMem[i] \in Nat
BY PoolAssumption DEF TypeOK, CallMem, InstMem

LEMMA PendingFinite == PendingCalls \subseteq Calls /\ IsFiniteSet(PendingCalls)
<1>1. PendingCalls \in SUBSET Calls
  BY DEF PendingCalls
<1> QED BY <1>1, PoolAssumption, FS_Subset

LEMMA InstancesFinite ==
    ASSUME NEW S, S \subseteq Instances PROVE IsFiniteSet(S)
BY PoolAssumption, FS_Subset

\* The sizes of the cold starts in flight, when nobody starts or ends one.
LEMMA PendingSame ==
    ASSUME \A h \in Calls : h \in PendingCalls' <=> h \in PendingCalls,
           \A h \in PendingCalls : cfg'[h] = cfg[h]
    PROVE  Sum(PendingCalls, CallMem)' = Sum(PendingCalls, CallMem)
<1>1. PendingCalls' = PendingCalls /\ PendingCalls \subseteq Calls
  BY DEF PendingCalls
<1>2. \A h \in PendingCalls : CallMem'[h] = CallMem[h]
  BY <1>1 DEF CallMem
<1>3. Sum(PendingCalls, CallMem') = Sum(PendingCalls, CallMem)
  BY <1>2, SumSame
<1> QED BY <1>1, <1>3 DEF Sum, Units

\* Call g starts one of size MemoryOf[c].
LEMMA PendingAdded ==
    ASSUME TypeOK, NEW g \in Calls, NEW c \in Configs, cfg'[g] = c,
           g \notin PendingCalls, g \in PendingCalls',
           \A h \in Calls : h # g => (h \in PendingCalls' <=> h \in PendingCalls),
           \A h \in PendingCalls : cfg'[h] = cfg[h]
    PROVE  /\ Sum(PendingCalls, CallMem)' = Sum(PendingCalls, CallMem) + MemoryOf[c]
           /\ Sum(PendingCalls, CallMem) \in Nat
<1>0. PendingCalls' \subseteq Calls
  BY DEF PendingCalls
<1>1. PendingCalls' = PendingCalls \cup {g} /\ PendingCalls \subseteq Calls
  BY <1>0, PendingFinite
<1>2. (\A h \in PendingCalls : CallMem'[h] = CallMem[h]) /\ CallMem'[g] = MemoryOf[c]
  BY <1>1, PoolAssumption DEF CallMem
<1> DEFINE P == PendingCalls
           M == CallMem'
<1>3. \A h \in P \cup {g} : M[h] \in Nat
  BY <1>1, <1>2, MemTypes, PoolAssumption
<1>4. Sum(P, M) = Sum(P, CallMem)
  BY <1>2, SumSame
<1>5. IsFiniteSet(P) /\ g \notin P
  BY PendingFinite
<1> HIDE DEF P, M
<1>6. Sum(P \cup {g}, M) = Sum(P, M) + M[g] /\ Sum(P, M) \in Nat
  BY <1>3, <1>5, SumAdd
<1>7. Sum(PendingCalls, CallMem)' = Sum(P \cup {g}, M)
  BY <1>1 DEF Sum, Units, P, M
<1> QED BY <1>2, <1>4, <1>6, <1>7 DEF P, M

\* Call g ends one.
LEMMA PendingRemoved ==
    ASSUME TypeOK, NEW g \in Calls, NEW c \in Configs, cfg[g] = c,
           g \in PendingCalls, g \notin PendingCalls',
           \A h \in Calls : h # g => (h \in PendingCalls' <=> h \in PendingCalls),
           \A h \in PendingCalls \ {g} : cfg'[h] = cfg[h]
    PROVE  /\ Sum(PendingCalls, CallMem)' = Sum(PendingCalls, CallMem) - MemoryOf[c]
           /\ Sum(PendingCalls, CallMem) \in Nat
<1>0. PendingCalls' \subseteq Calls
  BY DEF PendingCalls
<1>1. PendingCalls' = PendingCalls \ {g} /\ PendingCalls \subseteq Calls
  BY <1>0, PendingFinite
<1>2. (\A h \in PendingCalls \ {g} : CallMem'[h] = CallMem[h]) /\ CallMem[g] = MemoryOf[c]
  BY <1>1, PoolAssumption DEF CallMem
<1> DEFINE P == PendingCalls
           M == CallMem
<1>3. \A h \in P : M[h] \in Nat
  BY <1>1, MemTypes
<1>4. Sum(P \ {g}, CallMem') = Sum(P \ {g}, M)
  BY <1>2, SumSame
<1>5. IsFiniteSet(P) /\ g \in P
  BY PendingFinite
<1> HIDE DEF P, M
<1>6. Sum(P \ {g}, M) = Sum(P, M) - M[g] /\ Sum(P, M) \in Nat
  BY <1>3, <1>5, SumRemove
<1>7. Sum(PendingCalls, CallMem)' = Sum(P \ {g}, CallMem')
  BY <1>1 DEF Sum, Units, P
<1> QED BY <1>2, <1>4, <1>6, <1>7 DEF P, M

\* The sizes of a set of containers, when none of them is remade.
LEMMA BookedSame ==
    ASSUME NEW S, S \subseteq Instances, \A i \in S : made'[i] = made[i]
    PROVE  Sum(S, InstMem') = Sum(S, InstMem)
<1>1. \A i \in S : InstMem'[i] = InstMem[i]
  BY DEF InstMem
<1> QED BY <1>1, SumSame

LEMMA BookedAdded ==
    ASSUME TypeOK, NEW i \in Instances, NEW S, S \subseteq Instances, i \notin S,
           made[i] \in Configs
    PROVE  Sum(S \cup {i}, InstMem) = Sum(S, InstMem) + MemoryOf[made[i]] /\ Sum(S, InstMem) \in Nat
<1>1. \A j \in S \cup {i} : InstMem[j] \in Nat
  BY MemTypes
<1>2. IsFiniteSet(S)
  BY InstancesFinite
<1>3. InstMem[i] = MemoryOf[made[i]]
  BY PoolAssumption DEF InstMem
<1>4. Sum(S \cup {i}, InstMem) = Sum(S, InstMem) + InstMem[i] /\ Sum(S, InstMem) \in Nat
  BY <1>1, <1>2, SumAdd
<1> QED BY <1>3, <1>4

LEMMA BookedRemoved ==
    ASSUME TypeOK, NEW S, S \subseteq Instances, NEW i \in S, made[i] \in Configs
    PROVE  Sum(S \ {i}, InstMem) = Sum(S, InstMem) - MemoryOf[made[i]] /\ Sum(S, InstMem) \in Nat
<1>1. \A j \in S : InstMem[j] \in Nat
  BY MemTypes
<1>2. IsFiniteSet(S)
  BY InstancesFinite
<1>3. InstMem[i] = MemoryOf[made[i]]
  BY PoolAssumption DEF InstMem
<1>4. Sum(S \ {i}, InstMem) = Sum(S, InstMem) - InstMem[i] /\ Sum(S, InstMem) \in Nat
  BY <1>1, <1>2, SumRemove
<1> QED BY <1>3, <1>4

\* Nothing changes in the memory books.
LEMMA MemorySame ==
    ASSUME TypeOK, MemoryBooks, UNCHANGED bookVars, Nil => Nil',
           \A i \in booked : made'[i] = made[i],
           \A h \in Calls : h \in PendingCalls' <=> h \in PendingCalls,
           \A h \in PendingCalls : cfg'[h] = cfg[h]
    PROVE  MemoryBooks'
<1>1. Sum(PendingCalls, CallMem)' = Sum(PendingCalls, CallMem)
  BY PendingSame
<1>2. Sum(booked, InstMem') = Sum(booked, InstMem)
  BY BookedSame DEF TypeOK
<1>3. Sum(booked, InstMem)' = Sum(booked, InstMem')
  BY DEF bookVars, Sum, Units
<1> QED BY <1>1, <1>2, <1>3 DEF MemoryBooks, bookVars, Nil

\* Nothing is booked or closed.
LEMMA BookedUnchanged ==
    ASSUME TypeOK, UNCHANGED <<booked, made>>
    PROVE  Sum(booked, InstMem)' = Sum(booked, InstMem) /\ Sum(booked, InstMem) \in Nat
<1>1. Sum(booked, InstMem)' = Sum(booked, InstMem)
  BY DEF InstMem, Sum, Units
<1>2. IsFiniteSet(booked) /\ \A i \in booked : InstMem[i] \in Nat
  BY MemTypes, InstancesFinite DEF TypeOK
<1>3. Sum(booked, InstMem) \in Nat
  BY <1>2, UnitsFinite
<1> QED BY <1>1, <1>3

\* Memory is reserved for a container that call g is going to start.
LEMMA MemoryTaken ==
    ASSUME TypeOK, MemoryBooks, NEW g \in Calls, NEW c \in Configs, cfg'[g] = c,
           pendingMem' = pendingMem + MemoryOf[c], reservedMem' = reservedMem + MemoryOf[c],
           UNCHANGED <<booked, made, stopped>>,
           g \notin PendingCalls, g \in PendingCalls', \A h \in Calls \ {g} : SameCall(h)
    PROVE  MemoryBooks'
<1>1. \A h \in Calls : h # g => (h \in PendingCalls' <=> h \in PendingCalls)
  BY Bystander
<1>2. \A h \in PendingCalls : cfg'[h] = cfg[h]
  BY DEF PendingCalls, SameCall
<1>3. /\ Sum(PendingCalls, CallMem)' = Sum(PendingCalls, CallMem) + MemoryOf[c]
      /\ Sum(PendingCalls, CallMem) \in Nat
  BY <1>1, <1>2, PendingAdded
<1>4. Sum(booked, InstMem)' = Sum(booked, InstMem) /\ Sum(booked, InstMem) \in Nat
  BY BookedUnchanged
<1>5. MemoryOf[c] \in Nat
  BY PoolAssumption
<1> QED BY <1>3, <1>4, <1>5 DEF MemoryBooks, Nil

\* And given back.
LEMMA MemoryReturned ==
    ASSUME TypeOK, MemoryBooks, NEW g \in Calls, NEW c \in Configs, cfg[g] = c,
           pendingMem' = pendingMem - MemoryOf[c], reservedMem' = reservedMem - MemoryOf[c],
           UNCHANGED <<booked, made, stopped>>,
           g \in PendingCalls, g \notin PendingCalls', \A h \in Calls \ {g} : SameCall(h)
    PROVE  MemoryBooks'
<1>1. \A h \in Calls : h # g => (h \in PendingCalls' <=> h \in PendingCalls)
  BY Bystander
<1>2. \A h \in PendingCalls \ {g} : cfg'[h] = cfg[h]
  BY DEF PendingCalls, SameCall
<1>3. /\ Sum(PendingCalls, CallMem)' = Sum(PendingCalls, CallMem) - MemoryOf[c]
      /\ Sum(PendingCalls, CallMem) \in Nat
  BY <1>1, <1>2, PendingRemoved
<1>4. Sum(booked, InstMem)' = Sum(booked, InstMem) /\ Sum(booked, InstMem) \in Nat
  BY BookedUnchanged
<1>5. MemoryOf[c] \in Nat
  BY PoolAssumption
<1> QED BY <1>3, <1>4, <1>5 DEF MemoryBooks, Nil

\* What was reserved for container i is booked on it.
LEMMA MemoryCommitted ==
    ASSUME TypeOK, MemoryBooks, NEW g \in Calls, NEW i \in Instances,
           cfg[g] \in Configs, made[i] = cfg[g], i \notin booked,
           pendingMem' = pendingMem - MemoryOf[cfg[g]], booked' = booked \cup {i},
           UNCHANGED <<reservedMem, made, stopped>>,
           g \in PendingCalls, g \notin PendingCalls', \A h \in Calls \ {g} : SameCall(h)
    PROVE  MemoryBooks'
<1>1. \A h \in Calls : h # g => (h \in PendingCalls' <=> h \in PendingCalls)
  BY Bystander
<1>2. \A h \in PendingCalls \ {g} : cfg'[h] = cfg[h]
  BY DEF PendingCalls, SameCall
<1>3. /\ Sum(PendingCalls, CallMem)' = Sum(PendingCalls, CallMem) - MemoryOf[cfg[g]]
      /\ Sum(PendingCalls, CallMem) \in Nat
  BY <1>1, <1>2, PendingRemoved
<1>4. /\ Sum(booked \cup {i}, InstMem) = Sum(booked, InstMem) + MemoryOf[cfg[g]]
      /\ Sum(booked, InstMem) \in Nat
  BY BookedAdded DEF TypeOK
<1>5. Sum(booked, InstMem)' = Sum(booked \cup {i}, InstMem)
  BY DEF InstMem, Sum, Units
<1>6. MemoryOf[cfg[g]] \in Nat
  BY PoolAssumption
<1> QED BY <1>3, <1>4, <1>5, <1>6 DEF MemoryBooks, Nil

\* A container nobody had reserved memory for is booked.
LEMMA MemoryRegistered ==
    ASSUME TypeOK, MemoryBooks, NEW i \in Instances, made[i] \in Configs, i \notin booked,
           reservedMem' = reservedMem + MemoryOf[made[i]], booked' = booked \cup {i},
           UNCHANGED <<pendingMem, made, stopped>>,
           \A h \in Calls : h \in PendingCalls' <=> h \in PendingCalls,
           \A h \in PendingCalls : cfg'[h] = cfg[h]
    PROVE  MemoryBooks'
<1>1. Sum(PendingCalls, CallMem)' = Sum(PendingCalls, CallMem)
  BY PendingSame
<1>2. /\ Sum(booked \cup {i}, InstMem) = Sum(booked, InstMem) + MemoryOf[made[i]]
      /\ Sum(booked, InstMem) \in Nat
  BY BookedAdded DEF TypeOK
<1>3. Sum(booked, InstMem)' = Sum(booked \cup {i}, InstMem)
  BY DEF InstMem, Sum, Units
<1>4. MemoryOf[made[i]] \in Nat /\ pendingMem \in Int
  BY PoolAssumption DEF TypeOK
<1> QED BY <1>1, <1>2, <1>3, <1>4 DEF MemoryBooks, Nil

\* A booked container is closed.
LEMMA MemoryReleased ==
    ASSUME TypeOK, MemoryBooks, NEW i \in booked, made[i] \in Configs,
           reservedMem' = reservedMem - MemoryOf[made[i]], booked' = booked \ {i},
           UNCHANGED <<pendingMem, made, stopped>>,
           \A h \in Calls : h \in PendingCalls' <=> h \in PendingCalls,
           \A h \in PendingCalls : cfg'[h] = cfg[h]
    PROVE  MemoryBooks'
<1>1. Sum(PendingCalls, CallMem)' = Sum(PendingCalls, CallMem)
  BY PendingSame
<1>2. /\ Sum(booked \ {i}, InstMem) = Sum(booked, InstMem) - MemoryOf[made[i]]
      /\ Sum(booked, InstMem) \in Nat
  BY BookedRemoved DEF TypeOK
<1>3. Sum(booked, InstMem)' = Sum(booked \ {i}, InstMem)
  BY DEF InstMem, Sum, Units
<1>4. MemoryOf[made[i]] \in Nat /\ pendingMem \in Int
  BY PoolAssumption DEF TypeOK
<1> QED BY <1>1, <1>2, <1>3, <1>4 DEF MemoryBooks, Nil

-----------------------------------------------------------------------------
(* Steps of call g that leave the containers where they are. *)

\* Who has what is as before, if g still has the shape of a call.
LEMMA OwnershipKept ==
    ASSUME Ownership, NEW g \in Calls, TypeOK',
           UNCHANGED <<warm, inst, drop, booked, contVars>>, Nil' <=> Nil,
           provInst' \subseteq prewarmed, evicted' \subseteq evicted,
           \A h \in Calls \ {g} : SameCall(h),
           inst[g] # None => cfg'[g] = cfg[g],
           CallShape(g)', HeldShape(g)'
    PROVE  Ownership'
<1>1. ContainerShape'
  BY DEF Ownership, ContainerShape, contVars
<1>2. ASSUME NEW h \in Calls PROVE CallShape(h)' /\ HeldShape(h)'
  <2>1. CASE h = g
    BY <2>1
  <2>2. CASE h # g
    <3>1. SameCall(h) /\ CallShape(h) /\ HeldShape(h)
      BY <2>2 DEF Ownership
    <3>2. CallShape(h)'
      BY <3>1, Bystander
    <3>3. HeldShape(h)'
      BY <3>1 DEF HeldShape, SameCall, contVars
    <3> QED BY <3>2, <3>3
  <2> QED BY <2>1, <2>2
<1>3. OneOwner'
  <2>1. \A h, i : Owns(h, i)' <=> Owns(h, i)
    BY DEF Owns
  <2>2. Live' = Live
    BY DEF Live, contVars
  <2> QED BY <2>1, <2>2 DEF Ownership, OneOwner
<1>4. RunsItsOwnConfig'
  BY DEF Ownership, RunsItsOwnConfig, SameCall, contVars
<1>5. NothingWarmIsDeleted'
  BY DEF Ownership, NothingWarmIsDeleted, FnOf, contVars
<1> QED BY <1>1, <1>2, <1>3, <1>4, <1>5 DEF Ownership

\* And the books too, if it takes and returns nothing.
LEMMA BooksKept ==
    ASSUME PoolInv, NEW g \in Calls,
           UNCHANGED <<checkedOut, bookVars, made>>, Nil => Nil',
           \A h \in Calls \ {g} : SameCall(h),
           g \in SlotHolders' <=> g \in SlotHolders,
           g \in PendingCalls' <=> g \in PendingCalls,
           g \in SlotHolders \cup PendingCalls => cfg'[g] = cfg[g]
    PROVE  SlotBooks' /\ MemoryBooks'
<1>1. \A h \in Calls : /\ h \in SlotHolders' <=> h \in SlotHolders
                       /\ h \in PendingCalls' <=> h \in PendingCalls
  BY Bystander
<1>2. \A h \in SlotHolders \cup PendingCalls : h \in Calls /\ cfg'[h] = cfg[h]
  BY DEF SlotHolders, PendingCalls, SameCall
<1>3. SlotBooks'
  BY <1>1, <1>2, SlotsSame DEF PoolInv
<1>4. MemoryBooks'
  BY <1>1, <1>2, MemorySame DEF PoolInv, Ownership
<1> QED BY <1>3, <1>4

\* Call g goes to another label, and nothing else that matters changes.
LEMMA LabelStep ==
    ASSUME PoolInv, NEW g \in Calls, NEW l \in Labels,
           \/ pc' = Goto(g, l)
           \/ pc' = Woken(Goto(g, l)) /\ l \notin {"admitWait", "containerWait"},
           UNCHANGED <<warm, checkedOut, expected, evicted, provisioned, target, bookVars,
                       stopped, kind, cfg, inst, drop, doomed, left, claimed, limit, contVars>>,
           provInst' \subseteq prewarmed, provPending' \in [Functions -> Int],
           pc'[g] = l => CallShape(g)' /\ HeldShape(g)',
           pc'[g] = l => /\ g \in SlotHolders' <=> g \in SlotHolders
                         /\ g \in PendingCalls' <=> g \in PendingCalls
    PROVE  PoolInv'
<1>1. TypeOK /\ ContainerShape
  BY DEF PoolInv, Ownership
<1>2. pc' \in [Calls -> Labels] /\ pc'[g] = l /\ \A h \in Calls \ {g} : SameCall(h)
  BY <1>1, OthersSame
<1>4. TypeOK'
  BY <1>1, <1>2 DEF TypeOK, ContainerShape, bookVars, contVars
<1>5. Ownership'
  BY <1>2, <1>4, OwnershipKept DEF PoolInv, Nil, bookVars
<1>6. SlotBooks' /\ MemoryBooks'
  BY <1>2, BooksKept DEF Nil, contVars
<1> QED BY <1>5, <1>6 DEF PoolInv

\* The steps of that kind.
LEMMA WaitingSteps ==
    ASSUME PoolInv, NEW g \in Calls,
           AcquireStopped(g) \/ Reclaimed(g) \/ ContainerQueue(g) \/ WaitTimeout(g)
    PROVE  PoolInv'
<1>1. TypeOK /\ CallShape(g) /\ HeldShape(g) /\ provInst \subseteq prewarmed
  BY DEF PoolInv, Ownership, ContainerShape
<1>2. UNCHANGED <<warm, checkedOut, expected, evicted, provVars, bookVars, stopped, kind,
                  cfg, inst, drop, doomed, left, claimed, limit, contVars>>
  BY DEF AcquireStopped, Reclaimed, ContainerQueue, WaitTimeout
<1>3. ASSUME NEW l \in Labels,
             \/ /\ pc[g] \in {"takeWarm", "container", "reclaimed", "containerWait"}
                /\ l \in {"container", "containerWait", "releaseSlot"}
             \/ pc[g] = "admitWait" /\ l = "over",
             \/ pc' = Goto(g, l)
             \/ l = "container" /\ pc' = Woken(Goto(g, l))
      PROVE  PoolInv'
  <2>1. pc'[g] = l => CallShape(g)' /\ HeldShape(g)'
    BY <1>1, <1>2, <1>3 DEF CallShape, HeldShape, Admitted, bookVars, contVars
  <2>2. pc'[g] = l => /\ g \in SlotHolders' <=> g \in SlotHolders
                      /\ g \in PendingCalls' <=> g \in PendingCalls
    BY <1>1, <1>2, <1>3 DEF CallShape, SlotHolders, PendingCalls, Admitted
  <2> QED BY <1>1, <1>2, <1>3, <2>1, <2>2, LabelStep DEF provVars, TypeOK
<1>l. /\ "container" \in Labels /\ "containerWait" \in Labels
      /\ "releaseSlot" \in Labels /\ "over" \in Labels
  BY DEF Labels
<1>4. CASE AcquireStopped(g)
  <2>1. \/ pc[g] = "takeWarm" /\ pc' = Goto(g, "container")
        \/ pc[g] = "container" /\ pc' = Goto(g, "releaseSlot")
    BY <1>4 DEF AcquireStopped, At
  <2> QED BY <1>3, <1>l, <2>1
<1>5. CASE Reclaimed(g)
  <2>1. pc[g] = "reclaimed" /\ pc' = Woken(Goto(g, "container"))
    BY <1>5 DEF Reclaimed, At
  <2> QED BY <1>3, <1>l, <2>1
<1>6. CASE ContainerQueue(g)
  <2>1. pc[g] = "container" /\ pc' = Goto(g, "containerWait")
    BY <1>6 DEF ContainerQueue, At
  <2> QED BY <1>3, <1>l, <2>1
<1>7. CASE WaitTimeout(g)
  <2>1. \/ pc[g] = "admitWait" /\ pc' = Goto(g, "over")
        \/ pc[g] = "containerWait" /\ pc' = Goto(g, "releaseSlot")
    BY <1>7 DEF WaitTimeout, At
  <2> QED BY <1>3, <1>l, <2>1
<1> QED BY <1>4, <1>5, <1>6, <1>7

LEMMA BeginColdStartStep ==
    ASSUME PoolInv, NEW g \in Calls, BeginColdStart(g)
    PROVE  PoolInv'
<1> USE DEF BeginColdStart, At
<1>1. TypeOK /\ CallShape(g) /\ HeldShape(g) /\ provInst \subseteq prewarmed
  BY DEF PoolInv, Ownership, ContainerShape
<1>2. pc' = Goto(g, "creating") /\ "creating" \in Labels
  BY DEF Labels
<1>3. pc'[g] = "creating" => CallShape(g)' /\ HeldShape(g)'
  BY <1>1 DEF CallShape, HeldShape, Admitted, bookVars, contVars
<1>4. pc'[g] = "creating" => /\ g \in SlotHolders' <=> g \in SlotHolders
                             /\ g \in PendingCalls' <=> g \in PendingCalls
  BY <1>1 DEF CallShape, SlotHolders, PendingCalls, Admitted
<1> QED BY <1>1, <1>2, <1>3, <1>4, LabelStep DEF provVars, TypeOK

LEMMA SpawnStep ==
    ASSUME PoolInv, NEW g \in Calls, Spawn(g)
    PROVE  PoolInv'
<1> USE DEF Spawn, At
<1> DEFINE l == IF kind[g] = "replenish" THEN "loop" ELSE "start"
<1>1. TypeOK /\ CallShape(g) /\ HeldShape(g) /\ provInst \subseteq prewarmed
  BY DEF PoolInv, Ownership, ContainerShape
<1>2. pc' = Goto(g, l) /\ l \in Labels
  BY DEF Labels
<1>3. pc'[g] = l => CallShape(g)' /\ HeldShape(g)'
  BY <1>1 DEF CallShape, HeldShape, Admitted, bookVars, contVars
<1>4. pc'[g] = l => /\ g \in SlotHolders' <=> g \in SlotHolders
                    /\ g \in PendingCalls' <=> g \in PendingCalls
  BY <1>1 DEF CallShape, SlotHolders, PendingCalls, Admitted
<1>5. UNCHANGED <<warm, checkedOut, expected, evicted, provVars, bookVars, stopped, kind,
                  cfg, inst, drop, doomed, left, claimed, limit, contVars>>
  OBVIOUS
<1> HIDE DEF l, Spawn
<1> QED BY <1>1, <1>2, <1>3, <1>4, <1>5, LabelStep DEF provVars, TypeOK

LEMMA ReplenishStartStep ==
    ASSUME PoolInv, NEW g \in Calls, ReplenishStart(g)
    PROVE  PoolInv'
<1> USE DEF ReplenishStart, At
<1>1. TypeOK /\ CallShape(g) /\ HeldShape(g) /\ provInst \subseteq prewarmed
  BY DEF PoolInv, Ownership, ContainerShape
<1>2. pc' = Goto(g, "creating") /\ "creating" \in Labels
  BY DEF Labels
<1>3. pc'[g] = "creating" => CallShape(g)' /\ HeldShape(g)'
  BY <1>1 DEF CallShape, HeldShape, Admitted, bookVars, contVars
<1>4. pc'[g] = "creating" => /\ g \in SlotHolders' <=> g \in SlotHolders
                             /\ g \in PendingCalls' <=> g \in PendingCalls
  BY <1>1 DEF CallShape, SlotHolders, PendingCalls, Admitted
<1> QED BY <1>1, <1>2, <1>3, <1>4, LabelStep DEF provVars, TypeOK

LEMMA ReplenishEndStep ==
    ASSUME PoolInv, NEW g \in Calls, ReplenishEnd(g)
    PROVE  PoolInv'
<1> USE DEF ReplenishEnd, At
<1>1. TypeOK /\ CallShape(g) /\ HeldShape(g) /\ provInst \subseteq prewarmed
  BY DEF PoolInv, Ownership, ContainerShape
<1>2. pc' = Goto(g, "over") /\ "over" \in Labels
  BY DEF Labels
<1>3. pc'[g] = "over" => CallShape(g)' /\ HeldShape(g)'
  BY <1>1 DEF CallShape, HeldShape, Admitted, bookVars, contVars
<1>4. pc'[g] = "over" => /\ g \in SlotHolders' <=> g \in SlotHolders
                         /\ g \in PendingCalls' <=> g \in PendingCalls
  BY <1>1 DEF CallShape, SlotHolders, PendingCalls, Admitted
<1>5. Fn(g) \in Functions /\ claimed[g] \in Int
  BY <1>1, PoolAssumption DEF CallShape, Fn, TypeOK
<1>6. provPending' \in [Functions -> Int]
  BY <1>1, <1>5 DEF TypeOK
<1> QED BY <1>1, <1>2, <1>3, <1>4, <1>6, LabelStep

LEMMA MarkProvisionedStep ==
    ASSUME PoolInv, NEW g \in Calls, MarkProvisioned(g)
    PROVE  PoolInv'
<1> USE DEF MarkProvisioned, At
<1>1. TypeOK /\ CallShape(g) /\ HeldShape(g) /\ provInst \subseteq prewarmed
  BY DEF PoolInv, Ownership, ContainerShape
<1>2. pc' = Goto(g, "register") /\ "register" \in Labels
  BY DEF Labels
<1>3. pc'[g] = "register" => CallShape(g)' /\ HeldShape(g)'
  BY <1>1 DEF CallShape, HeldShape, Admitted, bookVars, contVars
<1>4. pc'[g] = "register" => /\ g \in SlotHolders' <=> g \in SlotHolders
                             /\ g \in PendingCalls' <=> g \in PendingCalls
  BY <1>1 DEF CallShape, SlotHolders, PendingCalls, Admitted
<1>5. provInst' \subseteq prewarmed
  BY <1>1 DEF HeldShape
<1> QED BY <1>1, <1>2, <1>3, <1>4, <1>5, LabelStep DEF TypeOK

-----------------------------------------------------------------------------
(* Acquire. *)

LEMMA OthersInTheBooks ==
    ASSUME NEW g \in Calls, \A h \in Calls \ {g} : SameCall(h)
    PROVE  \A h \in Calls : h # g => /\ h \in SlotHolders' <=> h \in SlotHolders
                                     /\ h \in PendingCalls' <=> h \in PendingCalls
                                     /\ cfg'[h] = cfg[h]
BY Bystander DEF SameCall

\* A limit is a number.
LEMMA PerFunctionType ==
    ASSUME NEW c \in Configs, NEW pin
    PROVE  PerFunction(c, pin) \in Nat
<1>1. ReservedOf[c] \in Nat \cup {-1} /\ MaxPerFunction \in Nat
  BY PoolAssumption
<1> QED BY <1>1 DEF PerFunction

LEMMA LimitsType ==
    ASSUME TypeOK, NEW g \in Calls, NEW c \in Configs
    PROVE  Limits(g, c) \subseteq Nat
BY PerFunctionType DEF Limits, TypeOK

\* An invocation that looks at the slots goes to l.
LEMMA AdmittingStep ==
    ASSUME TypeOK, ContainerShape, NEW g \in Calls, NEW c \in Configs, NEW l \in Labels,
           CallShape(g), HeldShape(g), Admitting(g, c), Invocation(g, c), pc' = Goto(g, l),
           l \in {"over", "admitWait", "takeWarm"}, checkedOut' \in [Functions -> Nat],
           limit' \in [Calls -> Nat],
           UNCHANGED <<warm, expected, evicted, provVars, bookVars, stopped, inst, drop,
                       doomed, left, claimed, contVars>>
    PROVE  /\ TypeOK' /\ CallShape(g)' /\ HeldShape(g)' /\ provInst' \subseteq prewarmed
           /\ \A h \in Calls \ {g} : SameCall(h)
           /\ g \notin SlotHolders \cup PendingCalls \cup PendingCalls'
           /\ g \in SlotHolders' <=> l = "takeWarm"
           /\ inst[g] # None => cfg'[g] = cfg[g]
           /\ cfg'[g] = c
<1> USE DEF Invocation, Admitting, FreshCall, At
<1>1. \A h \in Calls \ {g} : /\ kind'[h] = kind[h] /\ cfg'[h] = cfg[h]
                             /\ inst'[h] = inst[h] /\ drop'[h] = drop[h] /\ left'[h] = left[h]
  BY DEF TypeOK
<1>2. pc' \in [Calls -> Labels] /\ pc'[g] = l /\ \A h \in Calls \ {g} : SameCall(h)
  BY <1>1, OthersSame
<1>3. kind'[g] = "invoke" /\ cfg'[g] = c
  BY DEF TypeOK
<1>4. TypeOK'
  BY <1>2 DEF TypeOK, provVars, bookVars, contVars
<1>5. CallShape(g)' /\ HeldShape(g)'
  BY <1>2, <1>3 DEF CallShape, HeldShape, Admitted, contVars, bookVars
<1>6. /\ g \notin SlotHolders \cup PendingCalls \cup PendingCalls'
      /\ g \in SlotHolders' <=> l = "takeWarm"
  BY <1>2, <1>3 DEF CallShape, SlotHolders, PendingCalls, Admitted
<1>7. inst[g] # None => cfg'[g] = cfg[g]
  BY DEF CallShape
<1>8. provInst' \subseteq prewarmed
  BY DEF ContainerShape, provVars
<1> QED BY <1>2, <1>3, <1>4, <1>5, <1>6, <1>7, <1>8

LEMMA TurnedAwayStep ==
    ASSUME PoolInv, NEW g \in Calls, NEW c \in Configs,
           AdmitThrottle(g, c) \/ AdmitQueue(g, c)
    PROVE  PoolInv'
<1>1. TypeOK /\ ContainerShape /\ CallShape(g) /\ HeldShape(g)
  BY DEF PoolInv, Ownership
<1>2. ASSUME NEW l \in Labels, l \in {"over", "admitWait"}, pc' = Goto(g, l)
      PROVE  PoolInv'
  <2>1. /\ Admitting(g, c) /\ Invocation(g, c)
        /\ UNCHANGED <<warm, checkedOut, expected, evicted, provVars, bookVars, stopped,
                       inst, drop, doomed, left, claimed, contVars>>
    BY DEF AdmitThrottle, AdmitQueue
  <2>2. checkedOut' \in [Functions -> Nat] /\ limit' \in [Calls -> Nat]
    BY <1>1, <2>1, LimitsType DEF TypeOK, AdmitThrottle, AdmitQueue
  <2>3. /\ TypeOK' /\ CallShape(g)' /\ HeldShape(g)' /\ provInst' \subseteq prewarmed
        /\ \A h \in Calls \ {g} : SameCall(h)
        /\ g \notin SlotHolders \cup PendingCalls \cup PendingCalls' \cup SlotHolders'
        /\ inst[g] # None => cfg'[g] = cfg[g]
    BY <1>1, <1>2, <2>1, <2>2, AdmittingStep
  <2>4. Ownership'
    BY <2>1, <2>3, OwnershipKept DEF PoolInv, Nil, bookVars
  <2>5. SlotBooks' /\ MemoryBooks'
    BY <2>1, <2>3, BooksKept DEF contVars, Nil
  <2> QED BY <2>4, <2>5 DEF PoolInv
<1>3. pc' = Goto(g, "over") \/ pc' = Goto(g, "admitWait")
  BY DEF AdmitThrottle, AdmitQueue
<1>4. "over" \in Labels /\ "admitWait" \in Labels
  BY DEF Labels
<1>5. CASE pc' = Goto(g, "over")
  BY <1>2, <1>4, <1>5
<1>6. CASE pc' = Goto(g, "admitWait")
  BY <1>2, <1>4, <1>6
<1> QED BY <1>3, <1>5, <1>6

LEMMA AdmitGrantStep ==
    ASSUME PoolInv, NEW g \in Calls, NEW c \in Configs, AdmitGrant(g, c)
    PROVE  PoolInv'
<1>1. TypeOK /\ ContainerShape /\ CallShape(g) /\ HeldShape(g)
  BY DEF PoolInv, Ownership
<1>2. /\ Admitting(g, c) /\ Invocation(g, c) /\ pc' = Goto(g, "takeWarm")
      /\ checkedOut' = [checkedOut EXCEPT ![NameOf[c]] = @ + 1]
      /\ UNCHANGED <<warm, expected, evicted, provVars, bookVars, stopped,
                     inst, drop, doomed, left, claimed, contVars>>
  BY DEF AdmitGrant
<1>3. /\ NameOf[c] \in Functions /\ checkedOut' \in [Functions -> Nat]
      /\ limit' \in [Calls -> Nat]
  BY <1>1, <1>2, PoolAssumption DEF TypeOK, AdmitGrant
<1>4. "takeWarm" \in Labels
  BY DEF Labels
<1>5. /\ TypeOK' /\ CallShape(g)' /\ HeldShape(g)' /\ provInst' \subseteq prewarmed
      /\ \A h \in Calls \ {g} : SameCall(h)
      /\ g \notin SlotHolders \cup PendingCalls \cup PendingCalls'
      /\ g \in SlotHolders'
      /\ inst[g] # None => cfg'[g] = cfg[g]
      /\ cfg'[g] = c
  BY <1>1, <1>2, <1>3, <1>4, AdmittingStep
<1>6. Ownership'
  BY <1>2, <1>5, OwnershipKept DEF PoolInv, Nil, bookVars
<1>7. /\ \A h \in Calls : h # g => (h \in SlotHolders' <=> h \in SlotHolders)
      /\ \A h \in Calls : h \in PendingCalls' <=> h \in PendingCalls
      /\ \A h \in SlotHolders \cup PendingCalls : cfg'[h] = cfg[h]
  BY <1>5, OthersInTheBooks DEF SlotHolders, PendingCalls
<1>8. SlotBooks'
  BY <1>1, <1>2, <1>3, <1>5, <1>7, SlotTaken DEF PoolInv, Nil
<1>9. MemoryBooks'
  BY <1>1, <1>2, <1>7, MemorySame DEF PoolInv, Nil, contVars
<1> QED BY <1>6, <1>8, <1>9 DEF PoolInv

\* Memory is reserved: the slot and the containers stay where they are.
LEMMA AdmitContainerStep ==
    ASSUME PoolInv, NEW g \in Calls, AdmitContainer(g)
    PROVE  PoolInv'
<1> USE DEF AdmitContainer, At
<1>1. TypeOK /\ ContainerShape /\ CallShape(g) /\ HeldShape(g)
  BY DEF PoolInv, Ownership
<1>2. pc' = Goto(g, "start") /\ "start" \in Labels
  BY DEF Labels
<1>3. pc' \in [Calls -> Labels] /\ pc'[g] = "start" /\ \A h \in Calls \ {g} : SameCall(h)
  BY <1>1, <1>2, OthersSame
<1>4. kind[g] = "invoke" /\ cfg[g] \in Configs /\ MemoryOf[cfg[g]] \in Nat
  BY <1>1, PoolAssumption DEF CallShape, Admitted
<1>5. TypeOK'
  BY <1>1, <1>3, <1>4 DEF TypeOK, provVars, contVars
<1>6. CallShape(g)' /\ HeldShape(g)'
  BY <1>1, <1>3 DEF CallShape, HeldShape, Admitted, contVars
<1>7. Ownership'
  BY <1>1, <1>3, <1>5, <1>6, OwnershipKept DEF PoolInv, Nil, ContainerShape, provVars
<1>8. /\ g \in SlotHolders /\ g \in SlotHolders'
      /\ g \notin PendingCalls /\ g \in PendingCalls'
  BY <1>3, <1>4 DEF SlotHolders, PendingCalls, Admitted
<1>9. SlotBooks'
  BY <1>3, <1>8, OthersInTheBooks, SlotsSame DEF PoolInv, Nil
<1>10. MemoryBooks'
  BY <1>1, <1>3, <1>4, <1>8, MemoryTaken DEF PoolInv, contVars
<1> QED BY <1>7, <1>9, <1>10 DEF PoolInv

-----------------------------------------------------------------------------
(* Cold starts. *)

LEMMA UnreservePendingMemStep ==
    ASSUME PoolInv, NEW g \in Calls, UnreservePendingMem(g)
    PROVE  PoolInv'
<1> USE DEF UnreservePendingMem, At
<1>1. TypeOK /\ ContainerShape /\ CallShape(g) /\ HeldShape(g)
  BY DEF PoolInv, Ownership
<1>2. "releaseSlot" \in Labels
  BY DEF Labels
<1>3. /\ pc' \in [Calls -> Labels] /\ pc'[g] = "releaseSlot"
      /\ \A h \in Calls \ {g} : SameCall(h)
  BY <1>1, <1>2, OthersSame
<1>4. Admitted(g) /\ cfg[g] \in Configs /\ MemoryOf[cfg[g]] \in Nat
  BY <1>1, PoolAssumption DEF CallShape
<1>5. TypeOK'
  BY <1>1, <1>3, <1>4 DEF TypeOK, provVars, contVars
<1>6. CallShape(g)' /\ HeldShape(g)'
  BY <1>1, <1>3 DEF CallShape, HeldShape, Admitted, contVars
<1>7. Ownership'
  BY <1>1, <1>3, <1>5, <1>6, OwnershipKept DEF PoolInv, Nil, ContainerShape, provVars
<1>8. /\ g \in SlotHolders /\ g \in SlotHolders'
      /\ g \in PendingCalls /\ g \notin PendingCalls'
  BY <1>3, <1>4 DEF SlotHolders, PendingCalls, Admitted
<1>9. SlotBooks'
  BY <1>3, <1>8, OthersInTheBooks, SlotsSame DEF PoolInv, Nil
<1>10. MemoryBooks'
  <2>1. CASE Nil
    BY <2>1 DEF MemoryBooks, Nil
  <2>2. CASE ~Nil
    BY <1>1, <1>3, <1>4, <1>8, <2>2, MemoryReturned DEF PoolInv, contVars
  <2> QED BY <2>1, <2>2
<1> QED BY <1>7, <1>9, <1>10 DEF PoolInv

\* The container a call holds is booked.
LEMMA OwnershipBooked ==
    ASSUME Ownership, NEW g \in Calls, TypeOK', inst[g] # None,
           UNCHANGED <<warm, kind, cfg, inst, drop, evicted, provInst, stopped, contVars>>,
           booked' \in {booked, booked \cup {inst[g]}},
           \A h \in Calls \ {g} : SameCall(h), CallShape(g)', HeldShape(g)'
    PROVE  Ownership'
<1> USE DEF Ownership
<1>1. inst[g] \in Instances /\ inst[g] \in Live
  BY DEF TypeOK, OneOwner, Owns
<1>2. ContainerShape'
  BY <1>1 DEF ContainerShape, Live, contVars
<1>3. ASSUME NEW h \in Calls PROVE CallShape(h)' /\ HeldShape(h)'
  <2>1. CASE h = g
    BY <2>1
  <2>2. CASE h # g
    <3>1. SameCall(h) /\ CallShape(h) /\ HeldShape(h)
      BY <2>2
    <3>2. CallShape(h)'
      BY <3>1, Bystander
    <3>3. inst[h] # inst[g]
      BY <1>1, <2>2 DEF OneOwner, Owns
    <3>4. HeldShape(h)'
      BY <3>1, <3>3 DEF HeldShape, SameCall, contVars
    <3> QED BY <3>2, <3>4
  <2> QED BY <2>1, <2>2
<1>4. OneOwner'
  <2>1. \A h, i : Owns(h, i)' <=> Owns(h, i)
    BY DEF Owns
  <2>2. Live' = Live
    BY DEF Live, contVars
  <2> QED BY <2>1, <2>2 DEF OneOwner
<1>5. RunsItsOwnConfig'
  BY DEF RunsItsOwnConfig, contVars
<1>6. NothingWarmIsDeleted'
  BY DEF NothingWarmIsDeleted, FnOf, contVars, Nil
<1> QED BY <1>2, <1>3, <1>4, <1>5, <1>6

LEMMA CommitPendingMemStep ==
    ASSUME PoolInv, NEW g \in Calls, CommitPendingMem(g)
    PROVE  PoolInv'
<1> USE DEF CommitPendingMem, At
<1>1. TypeOK /\ ContainerShape /\ CallShape(g) /\ HeldShape(g) /\ RunsItsOwnConfig
  BY DEF PoolInv, Ownership
<1>2. pc' = Goto(g, "running") /\ "running" \in Labels
  BY DEF Labels
<1>3. pc' \in [Calls -> Labels] /\ pc'[g] = "running" /\ \A h \in Calls \ {g} : SameCall(h)
  BY <1>1, <1>2, OthersSame
<1>4. Admitted(g) /\ cfg[g] \in Configs /\ MemoryOf[cfg[g]] \in Nat
  BY <1>1, PoolAssumption DEF CallShape
<1>5. inst[g] \in Instances /\ inst[g] \notin booked /\ made[inst[g]] = cfg[g]
  BY <1>1 DEF TypeOK, CallShape, HeldShape, RunsItsOwnConfig
<1>6. TypeOK'
  BY <1>1, <1>3, <1>4, <1>5 DEF TypeOK, provVars, bookVars, contVars
<1>7. CallShape(g)' /\ HeldShape(g)'
  BY <1>1, <1>3 DEF CallShape, HeldShape, Admitted, contVars
<1>8. Ownership'
  <2>1. booked' \in {booked, booked \cup {inst[g]}}
    BY DEF bookVars
  <2> QED BY <1>3, <1>5, <1>6, <1>7, <2>1, PoolAssumption, OwnershipBooked DEF PoolInv, provVars
<1>9. /\ g \in SlotHolders /\ g \in SlotHolders'
      /\ g \in PendingCalls /\ g \notin PendingCalls'
  BY <1>3, <1>4 DEF SlotHolders, PendingCalls, Admitted
<1>10. SlotBooks'
  BY <1>3, <1>9, OthersInTheBooks, SlotsSame DEF PoolInv, Nil
<1>11. MemoryBooks'
  <2>1. CASE Nil
    BY <2>1 DEF MemoryBooks, Nil
  <2>2. CASE ~Nil
    BY <1>1, <1>3, <1>4, <1>5, <1>9, <2>2, MemoryCommitted DEF PoolInv, contVars
  <2> QED BY <2>1, <2>2
<1> QED BY <1>8, <1>10, <1>11 DEF PoolInv

LEMMA RegisterLiveMemStep ==
    ASSUME PoolInv, NEW g \in Calls, RegisterLiveMem(g)
    PROVE  PoolInv'
<1> USE DEF RegisterLiveMem, At
<1>1. TypeOK /\ ContainerShape /\ CallShape(g) /\ HeldShape(g) /\ RunsItsOwnConfig
  BY DEF PoolInv, Ownership
<1>2. pc' = Goto(g, "borrow") /\ "borrow" \in Labels
  BY DEF Labels
<1>3. pc' \in [Calls -> Labels] /\ pc'[g] = "borrow" /\ \A h \in Calls \ {g} : SameCall(h)
  BY <1>1, <1>2, OthersSame
<1>4. kind[g] = "replenish" /\ cfg[g] \in Configs /\ MemoryOf[cfg[g]] \in Nat
  BY <1>1, PoolAssumption DEF CallShape
<1>5. /\ inst[g] \in Instances /\ inst[g] \notin booked /\ inst[g] \in prewarmed
      /\ made[inst[g]] = cfg[g]
  BY <1>1 DEF TypeOK, CallShape, HeldShape, RunsItsOwnConfig
<1>6. TypeOK'
  BY <1>1, <1>3, <1>4, <1>5 DEF TypeOK, provVars, contVars
<1>7. CallShape(g)' /\ HeldShape(g)'
  BY <1>1, <1>3, <1>5 DEF CallShape, HeldShape, Admitted, contVars
<1>8. Ownership'
  <2>1. booked' \in {booked, booked \cup {inst[g]}}
    OBVIOUS
  <2> QED BY <1>3, <1>5, <1>6, <1>7, <2>1, PoolAssumption, OwnershipBooked DEF PoolInv, provVars
<1>9. g \notin SlotHolders \cup SlotHolders' \cup PendingCalls \cup PendingCalls'
  BY <1>3, <1>4 DEF SlotHolders, PendingCalls, Admitted
<1>10. /\ \A h \in Calls : /\ h \in SlotHolders' <=> h \in SlotHolders
                           /\ h \in PendingCalls' <=> h \in PendingCalls
       /\ \A h \in SlotHolders \cup PendingCalls : cfg'[h] = cfg[h]
  BY <1>3, <1>9, OthersInTheBooks
<1>11. SlotBooks'
  BY <1>10, SlotsSame DEF PoolInv, Nil
<1>12. MemoryBooks'
  <2>1. CASE Nil
    BY <2>1 DEF MemoryBooks, Nil
  <2>2. CASE ~Nil
    BY <1>1, <1>4, <1>5, <1>10, <2>2, MemoryRegistered DEF PoolInv, contVars
  <2> QED BY <2>1, <2>2
<1> QED BY <1>8, <1>11, <1>12 DEF PoolInv

-----------------------------------------------------------------------------
(* Provisioned concurrency and proactive starts. *)

LEMMA BorrowSlotStep ==
    ASSUME PoolInv, NEW g \in Calls, BorrowSlot(g)
    PROVE  PoolInv'
<1> USE DEF BorrowSlot, At
<1>1. TypeOK /\ ContainerShape /\ CallShape(g) /\ HeldShape(g)
  BY DEF PoolInv, Ownership
<1>2. pc' = Goto(g, "running") /\ "running" \in Labels
  BY DEF Labels
<1>3. pc' \in [Calls -> Labels] /\ pc'[g] = "running" /\ \A h \in Calls \ {g} : SameCall(h)
  BY <1>1, <1>2, OthersSame
<1>4. kind[g] = "replenish" /\ cfg[g] \in Configs /\ Fn(g) \in Functions
  BY <1>1, PoolAssumption DEF CallShape, Fn
<1>5. TypeOK'
  <2>1. checkedOut' \in [Functions -> Nat]
    BY <1>1, <1>4 DEF TypeOK
  <2> QED BY <1>1, <1>3, <2>1 DEF TypeOK, provVars, bookVars, contVars
<1>6. CallShape(g)' /\ HeldShape(g)'
  BY <1>1, <1>3 DEF CallShape, HeldShape, Admitted, contVars, bookVars
<1>7. Ownership'
  BY <1>1, <1>3, <1>5, <1>6, OwnershipKept DEF PoolInv, Nil, ContainerShape, provVars, bookVars
<1>8. /\ g \notin SlotHolders /\ g \in SlotHolders'
      /\ g \notin PendingCalls /\ g \notin PendingCalls'
  BY <1>3, <1>4 DEF SlotHolders, PendingCalls, Admitted
<1>9. /\ \A h \in Calls : h # g => (h \in SlotHolders' <=> h \in SlotHolders)
      /\ \A h \in Calls : h \in PendingCalls' <=> h \in PendingCalls
  BY <1>3, <1>8, OthersInTheBooks
<1>10. SlotBooks'
  <2>1. CASE Nil
    BY <2>1 DEF SlotBooks, Nil
  <2>2. CASE ~Nil
    <3>1. NameOf[cfg'[g]] = Fn(g) /\ checkedOut' = [checkedOut EXCEPT ![Fn(g)] = @ + 1]
      BY <2>2 DEF Fn
    <3> QED BY <1>1, <1>4, <1>8, <1>9, <3>1, SlotTaken DEF PoolInv, Nil
  <2> QED BY <2>1, <2>2
<1>11. MemoryBooks'
  BY <1>1, <1>9, MemorySame DEF PoolInv, Nil, contVars
<1> QED BY <1>7, <1>10, <1>11 DEF PoolInv

LEMMA ProactiveInitStep ==
    ASSUME PoolInv, NEW g \in Calls, NEW c \in Configs, ProactiveInit(g, c)
    PROVE  PoolInv'
<1> USE DEF ProactiveInit, FreshCall, NotePresent
<1>1. TypeOK /\ ContainerShape /\ CallShape(g) /\ HeldShape(g)
  BY DEF PoolInv, Ownership
<1>2. pc' = Goto(g, "spawned") /\ "spawned" \in Labels
  BY DEF Labels
<1>3. kind'[g] = "proactive" /\ cfg'[g] = c
  BY <1>1 DEF TypeOK
<1>4. \A h \in Calls \ {g} : /\ kind'[h] = kind[h] /\ cfg'[h] = cfg[h]
                             /\ inst'[h] = inst[h] /\ drop'[h] = drop[h] /\ left'[h] = left[h]
  BY <1>1 DEF TypeOK
<1>5. pc' \in [Calls -> Labels] /\ pc'[g] = "spawned" /\ \A h \in Calls \ {g} : SameCall(h)
  BY <1>1, <1>2, <1>4, OthersSame
<1>6. NameOf[c] \in Functions /\ MemoryOf[c] \in Nat
  BY PoolAssumption
<1>7. TypeOK'
  <2>1. checkedOut' \in [Functions -> Nat]
    BY <1>1, <1>6 DEF TypeOK
  <2>2. expected' \in [Functions -> Configs \cup {None}] /\ evicted' \subseteq Functions
    BY <1>1, <1>6 DEF TypeOK
  <2> QED BY <1>1, <1>5, <1>6, <2>1, <2>2 DEF TypeOK, provVars, contVars
<1>8. CallShape(g)' /\ HeldShape(g)'
  BY <1>1, <1>3, <1>5 DEF CallShape, HeldShape, Admitted, contVars
<1>9. inst[g] = None
  BY <1>1 DEF CallShape
<1>10. Ownership'
  BY <1>1, <1>5, <1>7, <1>8, <1>9, OwnershipKept DEF PoolInv, Nil, ContainerShape, provVars
<1>11. /\ g \notin SlotHolders /\ g \in SlotHolders'
       /\ g \notin PendingCalls /\ g \in PendingCalls'
  BY <1>1, <1>3, <1>5 DEF SlotHolders, PendingCalls, Admitted, CallShape
<1>12. /\ \A h \in Calls : h # g => (h \in SlotHolders' <=> h \in SlotHolders)
       /\ \A h \in SlotHolders : cfg'[h] = cfg[h]
  BY <1>5, <1>11, OthersInTheBooks DEF SlotHolders
<1>13. SlotBooks'
  BY <1>1, <1>3, <1>6, <1>11, <1>12, SlotTaken DEF PoolInv, Nil
<1>14. MemoryBooks'
  BY <1>1, <1>3, <1>5, <1>11, MemoryTaken DEF PoolInv, contVars
<1> QED BY <1>10, <1>13, <1>14 DEF PoolInv

LEMMA StopBeginStep ==
    ASSUME PoolInv, NEW g \in Calls, StopBegin(g)
    PROVE  PoolInv'
<1> USE DEF StopBegin, FreshCall
<1>1. TypeOK /\ ContainerShape /\ CallShape(g) /\ HeldShape(g)
  BY DEF PoolInv, Ownership
<1>2. pc' = Goto(g, "stopWait") /\ "stopWait" \in Labels
  BY DEF Labels
<1>3. kind'[g] = "manage" /\ cfg'[g] = cfg[g]
  BY <1>1 DEF TypeOK
<1>4. \A h \in Calls \ {g} : /\ kind'[h] = kind[h] /\ cfg'[h] = cfg[h]
                             /\ inst'[h] = inst[h] /\ drop'[h] = drop[h] /\ left'[h] = left[h]
  BY <1>1 DEF TypeOK
<1>5. pc' \in [Calls -> Labels] /\ pc'[g] = "stopWait" /\ \A h \in Calls \ {g} : SameCall(h)
  BY <1>1, <1>2, <1>4, OthersSame
<1>6. TypeOK'
  BY <1>1, <1>5 DEF TypeOK, provVars, bookVars, contVars
<1>7. CallShape(g)' /\ HeldShape(g)'
  BY <1>1, <1>3, <1>5 DEF CallShape, HeldShape, Admitted, contVars, bookVars
<1>8. Ownership'
  BY <1>1, <1>3, <1>5, <1>6, <1>7, OwnershipKept DEF PoolInv, Nil, ContainerShape, provVars, bookVars
<1>9. g \notin SlotHolders \cup SlotHolders' \cup PendingCalls \cup PendingCalls'
  BY <1>1, <1>3, <1>5 DEF SlotHolders, PendingCalls, Admitted, CallShape
<1>10. SlotBooks' /\ MemoryBooks'
  BY <1>5, <1>9, BooksKept DEF contVars, Nil
<1> QED BY <1>8, <1>10 DEF PoolInv

\* A goroutine is spawned, h: two calls move, one after the other.
LEMMA ReplenishStep ==
    ASSUME PoolInv, NEW g \in Calls, Replenish(g)
    PROVE  PoolInv'
<1> DEFINE l == AfterRelease(g)
<1>1. TypeOK /\ ContainerShape /\ CallShape(g) /\ HeldShape(g)
  BY DEF PoolInv, Ownership
<1>2. l \in Labels /\ "spawned" \in Labels
  BY DEF AfterRelease, Labels
<1>3. /\ pc[g] = "replenish" /\ drop[g] = {} /\ inst[g] = None /\ cfg[g] \in Configs
      /\ Fn(g) \in Functions
  BY <1>1, PoolAssumption DEF Replenish, At, CallShape, Fn
<1>4. UNCHANGED <<warm, checkedOut, expected, evicted, provisioned, target, provInst,
                  bookVars, stopped, inst, drop, doomed, limit, contVars>>
  BY DEF Replenish
<1>5. ASSUME pc'[g] = l, kind'[g] = kind[g], cfg'[g] = cfg[g]
      PROVE  /\ CallShape(g)' /\ HeldShape(g)'
             /\ g \notin SlotHolders \cup SlotHolders' \cup PendingCalls \cup PendingCalls'
  <2>1. CallShape(g)' /\ HeldShape(g)'
    BY <1>1, <1>3, <1>4, <1>5 DEF CallShape, HeldShape, Admitted, AfterRelease
  <2>2. g \notin SlotHolders \cup SlotHolders' \cup PendingCalls \cup PendingCalls'
    BY <1>3, <1>5 DEF SlotHolders, PendingCalls, AfterRelease
  <2> QED BY <2>1, <2>2
<1>6. CASE pc' = Goto(g, l) /\ UNCHANGED <<provPending, kind, cfg, left, claimed>>
  <2>1. pc'[g] = l => CallShape(g)' /\ HeldShape(g)'
    BY <1>5, <1>6
  <2>2. pc'[g] = l => /\ g \in SlotHolders' <=> g \in SlotHolders
                      /\ g \in PendingCalls' <=> g \in PendingCalls
    BY <1>5, <1>6
  <2>3. provInst' \subseteq prewarmed /\ provPending' \in [Functions -> Int]
    BY <1>1, <1>4, <1>6 DEF TypeOK, ContainerShape
  <2> HIDE DEF l
  <2> QED BY <1>2, <1>4, <1>6, <2>1, <2>2, <2>3, LabelStep
<1>7. ASSUME NEW pin, NEW n, n = Shortfall(Fn(g), pin),
             NEW h \in Calls, NeedsReplenish(Fn(g), n), FreshCall(h),
             provPending' = [provPending EXCEPT ![Fn(g)] = @ + n],
             pc' = [pc EXCEPT ![g] = l, ![h] = "spawned"],
             kind' = [kind EXCEPT ![h] = "replenish"],
             cfg' = [cfg EXCEPT ![h] = provisioned[Fn(g)]],
             left' = [left EXCEPT ![h] = n],
             claimed' = [claimed EXCEPT ![h] = n]
      PROVE  PoolInv'
  <2>1. h # g /\ pc[h] = "unused" /\ CallShape(h) /\ HeldShape(h) /\ inst[h] = None
    BY <1>3, <1>7 DEF FreshCall, PoolInv, Ownership, CallShape
  <2>2. provisioned[Fn(g)] \in Configs
    BY <1>1, <1>3, <1>7 DEF NeedsReplenish, TypeOK
  <2>3. n \in Nat
    <3>1. IsFiniteSet(WarmOf(Fn(g))) /\ IsFiniteSet({i \in provInst : FnOf(i) = Fn(g)})
      BY <1>1, InstancesFinite DEF WarmOf, TypeOK
    <3>2. /\ Cardinality(WarmOf(Fn(g))) \in Nat
          /\ Cardinality({i \in provInst : FnOf(i) = Fn(g)}) \in Nat
      BY <3>1, FS_CardinalityType
    <3>3. /\ checkedOut[Fn(g)] \in Nat /\ provPending[Fn(g)] \in Int
          /\ target[Fn(g)] \in Nat
      BY <1>1, <1>3 DEF TypeOK
    <3>4. n \in Int
      BY <1>7, <3>2, <3>3 DEF Shortfall, Room
    <3> QED BY <1>7, <3>4 DEF NeedsReplenish
  <2>4. /\ pc' \in [Calls -> Labels] /\ pc'[g] = l /\ pc'[h] = "spawned"
        /\ kind'[h] = "replenish" /\ cfg'[h] = provisioned[Fn(g)]
        /\ kind'[g] = kind[g] /\ cfg'[g] = cfg[g]
    <3> HIDE DEF l
    <3> QED BY <1>1, <1>2, <1>7, <2>1 DEF TypeOK
  <2>5. \A x \in Calls \ {g, h} : SameCall(x)
    BY <1>1, <1>4, <1>7 DEF SameCall, TypeOK
  <2>6. TypeOK'
    <3>1. provPending' \in [Functions -> Int]
      BY <1>1, <1>3, <1>7, <2>3 DEF TypeOK
    <3>2. left' \in [Calls -> Nat] /\ claimed' \in [Calls -> Nat]
      BY <1>1, <1>7, <2>3 DEF TypeOK
    <3>3. cfg' \in [Calls -> Configs \cup {None}]
      BY <1>1, <1>7, <2>2 DEF TypeOK
    <3> QED BY <1>1, <1>4, <1>7, <2>4, <3>1, <3>2, <3>3 DEF TypeOK, bookVars, contVars
  <2>7. CallShape(h)' /\ HeldShape(h)'
    BY <1>4, <2>1, <2>2, <2>4 DEF CallShape, HeldShape, Admitted
  <2>8. h \notin SlotHolders \cup SlotHolders' \cup PendingCalls \cup PendingCalls'
    BY <2>1, <2>4 DEF SlotHolders, PendingCalls, Admitted, CallShape
  <2>9. \A x \in Calls : CallShape(x)' /\ HeldShape(x)'
    <3>1. ASSUME NEW x \in Calls \ {g, h} PROVE CallShape(x)' /\ HeldShape(x)'
      BY <1>4, <2>5, Bystander DEF PoolInv, Ownership, HeldShape, SameCall, bookVars, contVars
    <3> QED BY <1>5, <2>4, <2>7, <3>1
  <2>10. Ownership'
    <3>1. ContainerShape'
      BY <1>1, <1>4 DEF ContainerShape, bookVars, contVars
    <3>2. OneOwner'
      <4>1. \A x, i : Owns(x, i)' <=> Owns(x, i)
        BY <1>4 DEF Owns
      <4>2. Live' = Live
        BY <1>4 DEF Live, contVars
      <4> QED BY <1>4, <4>1, <4>2 DEF PoolInv, Ownership, OneOwner
    <3>3. RunsItsOwnConfig'
      BY <1>4, <2>1, <2>4, <2>5 DEF PoolInv, Ownership, RunsItsOwnConfig, SameCall, contVars
    <3>4. NothingWarmIsDeleted'
      BY <1>4 DEF PoolInv, Ownership, NothingWarmIsDeleted, FnOf, contVars, Nil
    <3> QED BY <2>6, <2>9, <3>1, <3>2, <3>3, <3>4 DEF Ownership
  <2>11. \A x \in Calls : /\ x \in SlotHolders' <=> x \in SlotHolders
                          /\ x \in PendingCalls' <=> x \in PendingCalls
    BY <1>5, <2>4, <2>5, <2>8, Bystander
  <2>12. \A x \in SlotHolders \cup PendingCalls : cfg'[x] = cfg[x]
    BY <1>1, <1>7, <2>8 DEF SlotHolders, PendingCalls, TypeOK
  <2>13. SlotBooks'
    BY <1>4, <2>11, <2>12, SlotsSame DEF PoolInv, Nil
  <2>14. MemoryBooks'
    BY <1>1, <1>4, <2>11, <2>12, MemorySame DEF PoolInv, Nil, contVars
  <2> QED BY <2>10, <2>13, <2>14 DEF PoolInv
<1> QED BY <1>6, <1>7 DEF Replenish

-----------------------------------------------------------------------------
(* Steps in which call g moves containers between the warm set and itself. *)

LEMMA OwnershipMoved ==
    ASSUME Ownership, NEW g \in Calls, TypeOK', UNCHANGED contVars,
           booked' \subseteq booked, provInst' \subseteq prewarmed,
           \A h \in Calls \ {g} : SameCall(h), CallShape(g)', HeldShape(g)',
           \A i \in Instances :
               /\ (i \in warm' \/ inst'[g] = i \/ i \in drop'[g])
                     <=> (i \in warm \/ inst[g] = i \/ i \in drop[g])
               /\ i \in warm' => inst'[g] # i /\ i \notin drop'[g]
               /\ i \in drop'[g] => inst'[g] # i,
           inst'[g] # None => made[inst'[g]] = cfg'[g],
           \A i \in warm' : ~Nil' /\ FnOf(i) \notin evicted'
    PROVE  Ownership'
<1> USE DEF Ownership
<1>1. ContainerShape'
  BY DEF ContainerShape, contVars
<1>2. ASSUME NEW h \in Calls PROVE CallShape(h)' /\ HeldShape(h)'
  <2>1. CASE h = g
    BY <2>1
  <2>2. CASE h # g
    <3>1. SameCall(h) /\ CallShape(h) /\ HeldShape(h)
      BY <2>2
    <3>2. CallShape(h)'
      BY <3>1, Bystander
    <3>3. HeldShape(h)'
      BY <3>1 DEF HeldShape, SameCall, contVars
    <3> QED BY <3>2, <3>3
  <2> QED BY <2>1, <2>2
<1>3. \A h \in Calls \ {g} : inst'[h] = inst[h] /\ drop'[h] = drop[h]
  BY DEF SameCall
<1>4. OneOwner'
  <2>1. Live' = Live
    BY DEF Live, contVars
  <2>2. ASSUME NEW i \in Instances
        PROVE  i \in warm' \/ (\E h \in Calls : Owns(h, i)') <=> i \in Live
    BY <1>3 DEF OneOwner, Owns
  <2>3. ASSUME NEW i \in Instances, i \in warm', NEW h \in Calls PROVE ~Owns(h, i)'
    BY <1>3, <2>3 DEF OneOwner, Owns
  <2>4. ASSUME NEW i \in Instances, NEW h \in Calls, NEW k \in Calls,
               Owns(h, i)', Owns(k, i)'
        PROVE  h = k
    <3>1. ASSUME NEW x \in Calls \ {g}, Owns(x, i)' PROVE Owns(x, i) /\ i \notin warm
      BY <1>3, <3>1 DEF OneOwner, Owns
    <3>2. ASSUME NEW x \in Calls \ {g}, Owns(x, i)' PROVE ~Owns(g, i)'
      BY <3>1, <3>2 DEF OneOwner, Owns
    <3> QED BY <2>4, <3>1, <3>2 DEF OneOwner
  <2>5. ASSUME NEW i \in Instances, NEW h \in Calls PROVE ~(inst'[h] = i /\ i \in drop'[h])
    BY <1>3 DEF OneOwner
  <2> QED BY <2>1, <2>2, <2>3, <2>4, <2>5 DEF OneOwner
<1>5. RunsItsOwnConfig'
  BY DEF RunsItsOwnConfig, SameCall, contVars
<1>6. NothingWarmIsDeleted'
  BY DEF NothingWarmIsDeleted, FnOf, contVars
<1> QED BY <1>1, <1>2, <1>4, <1>5, <1>6

\* A container of the warm set has been made, and nobody has it.
LEMMA WarmIsFree ==
    ASSUME Ownership, NEW i \in warm
    PROVE  /\ i \in Instances /\ made[i] \in Configs
           /\ \A g \in Calls : inst[g] # i /\ i \notin drop[g]
<1>1. i \in Instances
  BY DEF Ownership, TypeOK
<1>2. i \in Live /\ \A g \in Calls : ~Owns(g, i)
  BY <1>1 DEF Ownership, OneOwner
<1> QED BY <1>1, <1>2 DEF Ownership, TypeOK, Live, Owns

LEMMA TakeWarmStep ==
    ASSUME PoolInv, NEW g \in Calls, TakeWarm(g)
    PROVE  PoolInv'
<1>1. TypeOK /\ ContainerShape /\ CallShape(g) /\ HeldShape(g) /\ Ownership
  BY DEF PoolInv, Ownership
<1>2. /\ pc[g] = "takeWarm" /\ drop[g] = {} /\ ~Nil
      /\ inst[g] = None /\ kind[g] = "invoke" /\ cfg[g] \in Configs
      /\ NameOf[cfg[g]] \in Functions
  BY <1>1, PoolAssumption DEF TakeWarm, At, CallShape, Admitted
<1>3. UNCHANGED <<checkedOut, provVars, bookVars, stopped, kind, cfg, doomed, left, claimed,
                  limit, contVars>>
  BY DEF TakeWarm
<1>4. expected' \in [Functions -> Configs \cup {None}] /\ evicted' \subseteq evicted
  BY <1>1, <1>2 DEF TakeWarm, NotePresent, TypeOK
<1> DEFINE st == Stale(cfg[g])
<1>5. st \subseteq warm /\ drop' = [drop EXCEPT ![g] = st]
  BY DEF TakeWarm, Stale, WarmOf
<1>6. drop' \in [Calls -> SUBSET Instances] /\ drop'[g] = st
  BY <1>1, <1>5 DEF TypeOK
<1>7. "running" \in Labels /\ "container" \in Labels
  BY DEF Labels
<1>8. ASSUME NEW i \in warm \ st, made[i] = cfg[g], inst' = [inst EXCEPT ![g] = i],
             warm' = warm \ (st \cup {i}), pc' = Goto(g, "running")
      PROVE  /\ Ownership' /\ \A h \in Calls \ {g} : SameCall(h)
             /\ pc'[g] \in {"running", "container"}
  <2>1. i \in Instances /\ inst' \in [Calls -> Instances \cup {None}] /\ inst'[g] = i
    BY <1>1, <1>8 DEF TypeOK
  <2>2. \A h \in Calls \ {g} : /\ kind'[h] = kind[h] /\ cfg'[h] = cfg[h]
                               /\ inst'[h] = inst[h] /\ drop'[h] = drop[h] /\ left'[h] = left[h]
    BY <1>1, <1>3, <1>5, <1>8 DEF TypeOK
  <2>3. /\ pc' \in [Calls -> Labels] /\ pc'[g] = "running"
        /\ \A h \in Calls \ {g} : SameCall(h)
    BY <1>1, <1>7, <1>8, <2>2, OthersSame
  <2>4. TypeOK'
    BY <1>1, <1>3, <1>4, <1>6, <1>8, <2>1, <2>3 DEF TypeOK, provVars, bookVars, contVars
  <2>5. CallShape(g)' /\ HeldShape(g)'
    BY <1>1, <1>2, <1>3, <2>1, <2>3, PoolAssumption DEF CallShape, HeldShape, Admitted
  <2>6. \A j \in Instances :
          /\ (j \in warm' \/ inst'[g] = j \/ j \in drop'[g])
                <=> (j \in warm \/ inst[g] = j \/ j \in drop[g])
          /\ j \in warm' => inst'[g] # j /\ j \notin drop'[g]
          /\ j \in drop'[g] => inst'[g] # j
    BY <1>2, <1>5, <1>6, <1>8, <2>1, PoolAssumption
  <2>7. \A j \in warm' : ~Nil' /\ FnOf(j) \notin evicted'
    BY <1>1, <1>3, <1>4, <1>8 DEF Ownership, NothingWarmIsDeleted, Nil
  <2>8. Ownership'
    BY <1>1, <1>3, <1>8, <2>1, <2>3, <2>4, <2>5, <2>6, <2>7, OwnershipMoved
       DEF ContainerShape, provVars, bookVars
  <2> QED BY <2>3, <2>8
<1>9. ASSUME UNCHANGED inst, warm' = warm \ st, pc' = Goto(g, "container")
      PROVE  /\ Ownership' /\ \A h \in Calls \ {g} : SameCall(h)
             /\ pc'[g] \in {"running", "container"}
  <2>1. \A h \in Calls \ {g} : /\ kind'[h] = kind[h] /\ cfg'[h] = cfg[h]
                               /\ inst'[h] = inst[h] /\ drop'[h] = drop[h] /\ left'[h] = left[h]
    BY <1>1, <1>3, <1>5, <1>9 DEF TypeOK
  <2>2. /\ pc' \in [Calls -> Labels] /\ pc'[g] = "container"
        /\ \A h \in Calls \ {g} : SameCall(h)
    BY <1>1, <1>7, <1>9, <2>1, OthersSame
  <2>3. TypeOK'
    BY <1>1, <1>3, <1>4, <1>6, <1>9, <2>2 DEF TypeOK, provVars, bookVars, contVars
  <2>4. CallShape(g)' /\ HeldShape(g)'
    BY <1>1, <1>2, <1>3, <1>9, <2>2 DEF CallShape, HeldShape, Admitted
  <2>5. \A j \in Instances :
          /\ (j \in warm' \/ inst'[g] = j \/ j \in drop'[g])
                <=> (j \in warm \/ inst[g] = j \/ j \in drop[g])
          /\ j \in warm' => inst'[g] # j /\ j \notin drop'[g]
          /\ j \in drop'[g] => inst'[g] # j
    BY <1>2, <1>5, <1>6, <1>9, PoolAssumption
  <2>6. \A j \in warm' : ~Nil' /\ FnOf(j) \notin evicted'
    BY <1>1, <1>3, <1>4, <1>9 DEF Ownership, NothingWarmIsDeleted, Nil
  <2>7. Ownership'
    BY <1>1, <1>2, <1>3, <1>9, <2>2, <2>3, <2>4, <2>5, <2>6, OwnershipMoved
       DEF ContainerShape, provVars, bookVars
  <2> QED BY <2>2, <2>7
<1>10. /\ Ownership' /\ \A h \in Calls \ {g} : SameCall(h)
       /\ pc'[g] \in {"running", "container"}
  <2>1. \A i \in WarmOf(NameOf[cfg[g]]) \ st : i \in warm \ st /\ made[i] = cfg[g]
    BY DEF Stale, WarmOf
  <2> QED BY <1>8, <1>9, <2>1 DEF TakeWarm
<1>11. g \in SlotHolders /\ g \in SlotHolders' /\ g \notin PendingCalls \cup PendingCalls'
  BY <1>2, <1>3, <1>10 DEF SlotHolders, PendingCalls
<1>12. SlotBooks' /\ MemoryBooks'
  BY <1>3, <1>10, <1>11, BooksKept DEF contVars, Nil
<1> QED BY <1>10, <1>12 DEF PoolInv

LEMMA ReclaimIdleStep ==
    ASSUME PoolInv, NEW g \in Calls, ReclaimIdle(g)
    PROVE  PoolInv'
<1>1. TypeOK /\ ContainerShape /\ CallShape(g) /\ HeldShape(g) /\ Ownership
  BY DEF PoolInv, Ownership
<1>2. pc[g] = "container" /\ drop[g] = {} /\ inst[g] = None /\ kind[g] = "invoke"
  BY <1>1 DEF ReclaimIdle, At, CallShape
<1>3. PICK v \in warm : warm' = warm \ {v} /\ drop' = [drop EXCEPT ![g] = {v}]
  BY DEF ReclaimIdle, Victims, Reclaimable
<1>4. UNCHANGED <<checkedOut, expected, evicted, provVars, bookVars, stopped, kind, cfg, inst,
                  doomed, left, claimed, limit, contVars>>
  BY DEF ReclaimIdle
<1>5. v \in Instances /\ drop' \in [Calls -> SUBSET Instances] /\ drop'[g] = {v}
  BY <1>1, <1>3 DEF TypeOK
<1>6. pc' = Goto(g, "reclaimed") /\ "reclaimed" \in Labels
  BY DEF ReclaimIdle, Labels
<1>7. \A h \in Calls \ {g} : /\ kind'[h] = kind[h] /\ cfg'[h] = cfg[h]
                             /\ inst'[h] = inst[h] /\ drop'[h] = drop[h] /\ left'[h] = left[h]
  BY <1>1, <1>3, <1>4 DEF TypeOK
<1>8. pc' \in [Calls -> Labels] /\ pc'[g] = "reclaimed" /\ \A h \in Calls \ {g} : SameCall(h)
  BY <1>1, <1>6, <1>7, OthersSame
<1>9. TypeOK'
  BY <1>1, <1>3, <1>4, <1>5, <1>8 DEF TypeOK, provVars, bookVars, contVars
<1>10. CallShape(g)' /\ HeldShape(g)'
  BY <1>1, <1>2, <1>4, <1>8 DEF CallShape, HeldShape, Admitted
<1>11. \A j \in Instances :
         /\ (j \in warm' \/ inst'[g] = j \/ j \in drop'[g])
               <=> (j \in warm \/ inst[g] = j \/ j \in drop[g])
         /\ j \in warm' => inst'[g] # j /\ j \notin drop'[g]
         /\ j \in drop'[g] => inst'[g] # j
  BY <1>2, <1>3, <1>4, <1>5, PoolAssumption
<1>12. \A j \in warm' : ~Nil' /\ FnOf(j) \notin evicted'
  BY <1>1, <1>3, <1>4 DEF Ownership, NothingWarmIsDeleted, Nil
<1>13. Ownership'
  BY <1>1, <1>2, <1>4, <1>8, <1>9, <1>10, <1>11, <1>12, OwnershipMoved
     DEF ContainerShape, provVars, bookVars
<1>14. g \in SlotHolders /\ g \in SlotHolders' /\ g \notin PendingCalls \cup PendingCalls'
  BY <1>2, <1>4, <1>8 DEF SlotHolders, PendingCalls
<1>15. SlotBooks' /\ MemoryBooks'
  BY <1>4, <1>8, <1>14, BooksKept DEF contVars, Nil
<1> QED BY <1>13, <1>15 DEF PoolInv

\* A management call takes `out' out of the warm set.
LEMMA ManageStep ==
    ASSUME PoolInv, NEW g \in Calls, NEW c \in Configs \cup {None}, NEW out, out \subseteq warm,
           NEW l \in {"over", "replenish"}, l = "replenish" => c \in Configs,
           Manage(g, c, out, l),
           expected' \in [Functions -> Configs \cup {None}],
           provisioned' \in [Functions -> Configs \cup {None}],
           target' \in [Functions -> Nat], evicted' \subseteq Functions,
           provInst' \subseteq provInst, doomed' \subseteq Calls,
           \A j \in warm \ out : FnOf(j) \notin evicted'
    PROVE  PoolInv'
<1>1. TypeOK /\ ContainerShape /\ CallShape(g) /\ HeldShape(g) /\ Ownership
  BY DEF PoolInv, Ownership
<1>2. /\ pc[g] = "unused" /\ warm' = warm \ out /\ drop' = [drop EXCEPT ![g] = out]
      /\ kind' = [kind EXCEPT ![g] = "manage"] /\ cfg' = [cfg EXCEPT ![g] = c]
      /\ pc' = Goto(g, l)
      /\ UNCHANGED <<checkedOut, provPending, bookVars, stopped, inst, left, claimed, limit, contVars>>
  BY DEF Manage, FreshCall
<1>3. inst[g] = None /\ drop[g] = {} /\ l \in Labels
  BY <1>1, <1>2 DEF CallShape, Labels
<1>4. /\ drop' \in [Calls -> SUBSET Instances] /\ drop'[g] = out
      /\ kind'[g] = "manage" /\ cfg'[g] = c
  BY <1>1, <1>2 DEF TypeOK
<1>5. \A h \in Calls \ {g} : /\ kind'[h] = kind[h] /\ cfg'[h] = cfg[h]
                             /\ inst'[h] = inst[h] /\ drop'[h] = drop[h] /\ left'[h] = left[h]
  BY <1>1, <1>2 DEF TypeOK
<1>6. pc' \in [Calls -> Labels] /\ pc'[g] = l /\ \A h \in Calls \ {g} : SameCall(h)
  BY <1>1, <1>2, <1>3, <1>5, OthersSame
<1>7. TypeOK'
  BY <1>1, <1>2, <1>4, <1>6 DEF TypeOK, bookVars, contVars
<1>8. CallShape(g)' /\ HeldShape(g)'
  BY <1>1, <1>2, <1>3, <1>4, <1>6 DEF CallShape, HeldShape, Admitted
<1>9. \A j \in Instances :
         /\ (j \in warm' \/ inst'[g] = j \/ j \in drop'[g])
               <=> (j \in warm \/ inst[g] = j \/ j \in drop[g])
         /\ j \in warm' => inst'[g] # j /\ j \notin drop'[g]
         /\ j \in drop'[g] => inst'[g] # j
  BY <1>2, <1>3, <1>4, PoolAssumption
<1>10. \A j \in warm' : ~Nil' /\ FnOf(j) \notin evicted'
  BY <1>1, <1>2 DEF Ownership, NothingWarmIsDeleted, Nil
<1>11. Ownership'
  BY <1>1, <1>2, <1>3, <1>6, <1>7, <1>8, <1>9, <1>10, OwnershipMoved DEF ContainerShape, bookVars
<1>12. g \notin SlotHolders \cup SlotHolders' \cup PendingCalls \cup PendingCalls'
  BY <1>1, <1>2, <1>4 DEF SlotHolders, PendingCalls, Admitted, CallShape
<1>13. SlotBooks' /\ MemoryBooks'
  BY <1>2, <1>6, <1>12, BooksKept DEF contVars, Nil
<1> QED BY <1>11, <1>13 DEF PoolInv

LEMMA EvictFunctionStep ==
    ASSUME PoolInv, NEW g \in Calls, NEW f \in Functions, EvictFunction(g, f)
    PROVE  PoolInv'
<1> USE DEF EvictFunction
<1>1. TypeOK
  BY DEF PoolInv, Ownership
<1>2. /\ expected' \in [Functions -> Configs \cup {None}]
      /\ provisioned' \in [Functions -> Configs \cup {None}]
      /\ target' \in [Functions -> Nat] /\ evicted' \subseteq Functions
      /\ provInst' \subseteq provInst /\ doomed' \subseteq Calls
  BY <1>1 DEF TypeOK, Starting
<1>3. WarmOf(f) \subseteq warm /\ \A j \in warm \ WarmOf(f) : FnOf(j) \notin evicted'
  BY DEF PoolInv, Ownership, NothingWarmIsDeleted, WarmOf
<1> QED BY <1>2, <1>3, ManageStep

LEMMA ClearProvisionedConcurrencyStep ==
    ASSUME PoolInv, NEW g \in Calls, NEW f \in Functions, ClearProvisionedConcurrency(g, f)
    PROVE  PoolInv'
<1> USE DEF ClearProvisionedConcurrency
<1>1. TypeOK
  BY DEF PoolInv, Ownership
<1>2. /\ expected' \in [Functions -> Configs \cup {None}]
      /\ provisioned' \in [Functions -> Configs \cup {None}]
      /\ target' \in [Functions -> Nat] /\ evicted' \subseteq Functions
      /\ provInst' \subseteq provInst /\ doomed' \subseteq Calls
  BY <1>1 DEF TypeOK
<1>3. \A j \in warm \ {} : FnOf(j) \notin evicted'
  BY DEF PoolInv, Ownership, NothingWarmIsDeleted
<1> QED BY <1>2, <1>3, ManageStep

LEMMA InvalidateFunctionStep ==
    ASSUME PoolInv, NEW g \in Calls, NEW c \in Configs, InvalidateFunction(g, c)
    PROVE  PoolInv'
<1> USE DEF InvalidateFunction
<1> DEFINE l == IF provisioned[NameOf[c]] = None THEN "over" ELSE "replenish"
<1>1. TypeOK /\ NameOf[c] \in Functions
  BY PoolAssumption DEF PoolInv, Ownership
<1>2. /\ expected' \in [Functions -> Configs \cup {None}]
      /\ provisioned' \in [Functions -> Configs \cup {None}]
      /\ target' \in [Functions -> Nat] /\ evicted' \subseteq evicted
      /\ provInst' \subseteq provInst /\ doomed' \subseteq Calls
  BY <1>1 DEF TypeOK, NotePresent
<1>3. Stale(c) \subseteq warm /\ \A j \in warm \ Stale(c) : FnOf(j) \notin evicted'
  BY <1>2 DEF PoolInv, Ownership, NothingWarmIsDeleted, WarmOf, Stale
<1>4. Manage(g, c, Stale(c), l) /\ l \in {"over", "replenish"} /\ evicted' \subseteq Functions
  BY <1>1, <1>2 DEF TypeOK
<1> HIDE DEF l, InvalidateFunction
<1> QED BY <1>2, <1>3, <1>4, ManageStep

LEMMA SetProvisionedConcurrencyStep ==
    ASSUME PoolInv, NEW g \in Calls, NEW c \in Configs, NEW n \in Targets,
           SetProvisionedConcurrency(g, c, n)
    PROVE  PoolInv'
<1> USE DEF SetProvisionedConcurrency
<1>1. TypeOK /\ NameOf[c] \in Functions /\ n \in Nat
  BY PoolAssumption DEF PoolInv, Ownership
<1>2. /\ expected' \in [Functions -> Configs \cup {None}]
      /\ provisioned' \in [Functions -> Configs \cup {None}]
      /\ target' \in [Functions -> Nat]
      /\ evicted' \subseteq evicted /\ evicted' \subseteq Functions
      /\ provInst' \subseteq provInst /\ doomed' \subseteq Calls
  BY <1>1 DEF TypeOK, NotePresent
<1>3. \A j \in warm \ {} : FnOf(j) \notin evicted'
  BY <1>2 DEF PoolInv, Ownership, NothingWarmIsDeleted
<1> QED BY <1>2, <1>3, ManageStep

LEMMA HandleContainerDiedStep ==
    ASSUME PoolInv, NEW g \in Calls, NEW i \in Instances, HandleContainerDied(g, i)
    PROVE  PoolInv'
<1> USE DEF HandleContainerDied
<1>1. TypeOK /\ made[i] \in Configs /\ {i} \subseteq warm
  BY WarmIsFree DEF PoolInv, Ownership
<1>2. /\ expected' \in [Functions -> Configs \cup {None}]
      /\ provisioned' \in [Functions -> Configs \cup {None}]
      /\ target' \in [Functions -> Nat] /\ evicted' \subseteq Functions
      /\ provInst' \subseteq provInst /\ doomed' \subseteq Calls
  BY <1>1 DEF TypeOK
<1>3. \A j \in warm \ {i} : FnOf(j) \notin evicted'
  BY DEF PoolInv, Ownership, NothingWarmIsDeleted
<1> QED BY <1>1, <1>2, <1>3, ManageStep

LEMMA SweepStep ==
    ASSUME PoolInv, NEW g \in Calls, Sweep(g)
    PROVE  PoolInv'
<1>1. PICK out \in SUBSET Reclaimable : Manage(g, None, out, "over")
  BY DEF Sweep
<1>2. TypeOK /\ UNCHANGED <<expected, evicted, provisioned, target, provInst, doomed>>
  BY DEF PoolInv, Ownership, Sweep
<1>3. /\ expected' \in [Functions -> Configs \cup {None}]
      /\ provisioned' \in [Functions -> Configs \cup {None}]
      /\ target' \in [Functions -> Nat] /\ evicted' \subseteq Functions
      /\ provInst' \subseteq provInst /\ doomed' \subseteq Calls
  BY <1>2 DEF TypeOK
<1>4. out \subseteq warm /\ \A j \in warm \ out : FnOf(j) \notin evicted'
  BY <1>2 DEF PoolInv, Ownership, NothingWarmIsDeleted, Reclaimable
<1> QED BY <1>1, <1>3, <1>4, ManageStep

LEMMA StopStep ==
    ASSUME PoolInv, NEW g \in Calls, Stop(g)
    PROVE  PoolInv'
<1>1. TypeOK /\ ContainerShape /\ CallShape(g) /\ HeldShape(g) /\ Ownership
  BY DEF PoolInv, Ownership
<1>2. /\ pc[g] = "stopWait" /\ drop[g] = {} /\ inst[g] = None /\ kind[g] = "manage"
      /\ warm' = {} /\ drop' = [drop EXCEPT ![g] = warm] /\ booked' = {} /\ provInst' = {}
      /\ Nil' /\ UNCHANGED <<evicted, kind, cfg, inst, doomed, left, claimed, limit, contVars>>
  BY <1>1 DEF Stop, At, CallShape, Nil
<1>3. pc' = Woken(Goto(g, "over")) /\ "over" \in Labels
  BY DEF Stop, Labels
<1>4. drop' \in [Calls -> SUBSET Instances] /\ drop'[g] = warm
  BY <1>1, <1>2 DEF TypeOK
<1>5. \A h \in Calls \ {g} : /\ kind'[h] = kind[h] /\ cfg'[h] = cfg[h]
                             /\ inst'[h] = inst[h] /\ drop'[h] = drop[h] /\ left'[h] = left[h]
  BY <1>1, <1>2 DEF TypeOK
<1>6. pc' \in [Calls -> Labels] /\ pc'[g] = "over" /\ \A h \in Calls \ {g} : SameCall(h)
  BY <1>1, <1>3, <1>5, OthersSame
<1>7. TypeOK'
  BY <1>1, <1>2, <1>4, <1>6 DEF Stop, TypeOK, contVars
<1>8. CallShape(g)' /\ HeldShape(g)'
  BY <1>1, <1>2, <1>6 DEF CallShape, HeldShape, Admitted
<1>9. \A j \in Instances :
         /\ (j \in warm' \/ inst'[g] = j \/ j \in drop'[g])
               <=> (j \in warm \/ inst[g] = j \/ j \in drop[g])
         /\ j \in warm' => inst'[g] # j /\ j \notin drop'[g]
         /\ j \in drop'[g] => inst'[g] # j
  BY <1>2, <1>4, PoolAssumption
<1>10. Ownership'
  BY <1>1, <1>2, <1>6, <1>7, <1>8, <1>9, OwnershipMoved
<1>11. SlotBooks' /\ MemoryBooks'
  BY <1>2 DEF SlotBooks, MemoryBooks
<1> QED BY <1>10, <1>11 DEF PoolInv

-----------------------------------------------------------------------------
(* The ends of a call. *)

LEMMA ReleaseSlotStep ==
    ASSUME PoolInv, NEW g \in Calls, ReleaseSlot(g)
    PROVE  PoolInv'
<1>1. TypeOK /\ ContainerShape /\ CallShape(g) /\ HeldShape(g) /\ Ownership
  BY DEF PoolInv, Ownership
<1>2. /\ pc[g] = "releaseSlot" /\ drop[g] = {} /\ Admitted(g) /\ cfg[g] \in Configs
      /\ drop' = [drop EXCEPT ![g] = {inst[g]} \ {None}]
      /\ inst' = [inst EXCEPT ![g] = None] /\ checkedOut' = Decremented(Fn(g))
      /\ UNCHANGED <<warm, expected, evicted, provVars, bookVars, stopped, kind, cfg, doomed,
                     left, claimed, limit, contVars>>
  BY <1>1 DEF ReleaseSlot, At, CallShape
<1>3. pc' = Woken(Goto(g, "over")) /\ "over" \in Labels
  BY DEF ReleaseSlot, Labels
<1>4. /\ drop' \in [Calls -> SUBSET Instances] /\ drop'[g] = {inst[g]} \ {None}
      /\ inst' \in [Calls -> Instances \cup {None}] /\ inst'[g] = None
      /\ inst[g] \in Instances \cup {None}
  BY <1>1, <1>2 DEF TypeOK
<1>5. \A h \in Calls \ {g} : /\ kind'[h] = kind[h] /\ cfg'[h] = cfg[h]
                             /\ inst'[h] = inst[h] /\ drop'[h] = drop[h] /\ left'[h] = left[h]
  BY <1>1, <1>2 DEF TypeOK
<1>6. pc' \in [Calls -> Labels] /\ pc'[g] = "over" /\ \A h \in Calls \ {g} : SameCall(h)
  BY <1>1, <1>3, <1>5, OthersSame
<1>7. Fn(g) \in Functions /\ checkedOut' \in [Functions -> Nat]
  BY <1>1, <1>2, PoolAssumption DEF TypeOK, Fn, Decremented
<1>8. TypeOK'
  BY <1>1, <1>2, <1>4, <1>6, <1>7 DEF TypeOK, provVars, bookVars, contVars
<1>9. CallShape(g)' /\ HeldShape(g)'
  BY <1>1, <1>2, <1>4, <1>6 DEF CallShape, HeldShape, Admitted
<1>10. \A j \in Instances :
         /\ (j \in warm' \/ inst'[g] = j \/ j \in drop'[g])
               <=> (j \in warm \/ inst[g] = j \/ j \in drop[g])
         /\ j \in warm' => inst'[g] # j /\ j \notin drop'[g]
         /\ j \in drop'[g] => inst'[g] # j
  BY <1>1, <1>2, <1>4, WarmIsFree, PoolAssumption
<1>11. \A j \in warm' : ~Nil' /\ FnOf(j) \notin evicted'
  BY <1>1, <1>2 DEF Ownership, NothingWarmIsDeleted, Nil
<1>12. Ownership'
  BY <1>1, <1>2, <1>4, <1>6, <1>8, <1>9, <1>10, <1>11, OwnershipMoved
     DEF ContainerShape, provVars, bookVars
<1>13. g \in SlotHolders /\ g \notin SlotHolders' /\ g \notin PendingCalls \cup PendingCalls'
  BY <1>2, <1>6 DEF SlotHolders, PendingCalls, Admitted
<1>14. /\ \A h \in Calls : h # g => (h \in SlotHolders' <=> h \in SlotHolders)
       /\ \A h \in Calls : h \in PendingCalls' <=> h \in PendingCalls
  BY <1>6, <1>13, OthersInTheBooks
<1>15. SlotBooks'
  BY <1>1, <1>2, <1>7, <1>13, <1>14, SlotReturned DEF PoolInv
<1>16. MemoryBooks'
  BY <1>1, <1>2, <1>14, MemorySame DEF PoolInv, Nil, contVars
<1> QED BY <1>12, <1>15, <1>16 DEF PoolInv

LEMMA ReleaseStep ==
    ASSUME PoolInv, NEW g \in Calls, NEW usable \in BOOLEAN, Release(g, usable)
    PROVE  PoolInv'
<1>1. TypeOK /\ ContainerShape /\ CallShape(g) /\ HeldShape(g) /\ Ownership
  BY DEF PoolInv, Ownership
<1> DEFINE i == inst[g]
           keep == usable /\ Kept(i)
           again == ~usable \/ (~Nil /\ Retired(i))
           l == IF again THEN "replenish" ELSE AfterRelease(g)
<1>2. /\ pc[g] = "running" /\ drop[g] = {} /\ i \in Instances /\ i # None
      /\ kind[g] \in {"invoke", "proactive", "replenish"} /\ cfg[g] \in Configs
  BY <1>1 DEF Release, At, CallShape, TypeOK, Admitted
<1>3. /\ warm' = (IF keep THEN warm \cup {i} ELSE warm)
      /\ drop' = [drop EXCEPT ![g] = IF keep THEN {} ELSE {i}]
      /\ inst' = [inst EXCEPT ![g] = None] /\ checkedOut' = Decremented(Fn(g))
      /\ UNCHANGED <<expected, evicted, provVars, bookVars, stopped, kind, cfg, doomed,
                     left, claimed, limit, contVars>>
      /\ pc' = Woken(Goto(g, l))
  BY DEF Release
<1>4. l \in {"replenish", "loop", "over"} /\ (l = "loop" => kind[g] = "replenish") /\ l \in Labels
  BY DEF AfterRelease, Labels
<1>5. keep => ~Nil /\ FnOf(i) \notin evicted
  BY DEF Kept, Retired
<1> HIDE DEF keep, l
<1>6. /\ drop' \in [Calls -> SUBSET Instances] /\ drop'[g] = (IF keep THEN {} ELSE {i})
      /\ inst' \in [Calls -> Instances \cup {None}] /\ inst'[g] = None
      /\ warm' \subseteq Instances
  BY <1>1, <1>2, <1>3 DEF TypeOK
<1>7. \A h \in Calls \ {g} : /\ kind'[h] = kind[h] /\ cfg'[h] = cfg[h]
                             /\ inst'[h] = inst[h] /\ drop'[h] = drop[h] /\ left'[h] = left[h]
  BY <1>1, <1>3 DEF TypeOK
<1>8. pc' \in [Calls -> Labels] /\ pc'[g] = l /\ \A h \in Calls \ {g} : SameCall(h)
  BY <1>1, <1>3, <1>4, <1>7, OthersSame
<1>9. Fn(g) \in Functions /\ checkedOut' \in [Functions -> Nat]
  BY <1>1, <1>2, <1>3, PoolAssumption DEF TypeOK, Fn, Decremented
<1>10. TypeOK'
  BY <1>1, <1>3, <1>6, <1>8, <1>9 DEF TypeOK, provVars, bookVars, contVars
<1>11. CallShape(g)' /\ HeldShape(g)'
  BY <1>1, <1>2, <1>3, <1>4, <1>6, <1>8 DEF CallShape, HeldShape, Admitted
<1>12. \A j \in Instances :
         /\ (j \in warm' \/ inst'[g] = j \/ j \in drop'[g])
               <=> (j \in warm \/ inst[g] = j \/ j \in drop[g])
         /\ j \in warm' => inst'[g] # j /\ j \notin drop'[g]
         /\ j \in drop'[g] => inst'[g] # j
  BY <1>1, <1>2, <1>3, <1>6, WarmIsFree, PoolAssumption
<1>13. \A j \in warm' : ~Nil' /\ FnOf(j) \notin evicted'
  BY <1>1, <1>3, <1>5 DEF Ownership, NothingWarmIsDeleted, Nil
<1>14. Ownership'
  BY <1>1, <1>3, <1>6, <1>8, <1>10, <1>11, <1>12, <1>13, OwnershipMoved
     DEF ContainerShape, provVars, bookVars
<1>15. g \in SlotHolders /\ g \notin SlotHolders' /\ g \notin PendingCalls \cup PendingCalls'
  BY <1>2, <1>4, <1>8 DEF SlotHolders, PendingCalls
<1>16. /\ \A h \in Calls : h # g => (h \in SlotHolders' <=> h \in SlotHolders)
       /\ \A h \in Calls : h \in PendingCalls' <=> h \in PendingCalls
  BY <1>8, <1>15, OthersInTheBooks
<1>17. SlotBooks'
  BY <1>1, <1>3, <1>9, <1>15, <1>16, SlotReturned DEF PoolInv
<1>18. MemoryBooks'
  BY <1>1, <1>3, <1>16, MemorySame DEF PoolInv, Nil, contVars
<1> QED BY <1>14, <1>17, <1>18 DEF PoolInv

LEMMA CloseInstanceStep ==
    ASSUME PoolInv, NEW g \in Calls, CloseInstance(g)
    PROVE  PoolInv'
<1>1. TypeOK /\ ContainerShape /\ CallShape(g) /\ HeldShape(g) /\ Ownership /\ OneOwner
  BY DEF PoolInv, Ownership
<1>2. PICK i \in drop[g] : /\ provInst' = provInst \ {i} /\ ReleaseLiveMem(i)
                           /\ closed' = closed \cup {i}
                           /\ drop' = [drop EXCEPT ![g] = @ \ {i}]
  BY DEF CloseInstance
<1>3. UNCHANGED <<warm, checkedOut, expected, evicted, provisioned, target, provPending,
                  pendingMem, stopped, kind, cfg, inst, doomed, left, claimed, limit, made, prewarmed>>
  BY DEF CloseInstance
<1>4. i \in Instances /\ drop' \in [Calls -> SUBSET Instances] /\ drop'[g] = drop[g] \ {i}
  BY <1>1, <1>2 DEF TypeOK
<1>5. /\ i \in Live /\ i \notin warm /\ inst[g] # i
      /\ \A h \in Calls \ {g} : inst[h] # i /\ i \notin drop[h]
  BY <1>1, <1>4 DEF OneOwner, Owns
<1>6. made[i] \in Configs /\ MemoryOf[made[i]] \in Nat
  BY <1>1, <1>4, <1>5, PoolAssumption DEF Live, TypeOK
<1>7. pc' \in {pc, Woken(pc)} /\ booked' = booked \ {i} /\ reservedMem' \in Int
  BY <1>1, <1>2, <1>6 DEF ReleaseLiveMem, TypeOK
<1>8. /\ pc' \in [Calls -> Labels]
      /\ \A h \in Calls : \/ pc'[h] = pc[h]
                          \/ pc[h] = "admitWait" /\ pc'[h] = "admit"
                          \/ pc[h] = "containerWait" /\ pc'[h] = "container"
  BY <1>1, <1>7, WokenFacts DEF TypeOK
<1>9. \A h \in Calls \ {g} : SameCall(h)
  BY <1>1, <1>2, <1>3, <1>8 DEF SameCall, TypeOK
<1>10. TypeOK'
  BY <1>1, <1>2, <1>3, <1>4, <1>7, <1>8 DEF TypeOK
<1>11. CallShape(g)' /\ HeldShape(g)'
  <2>1. pc[g] # "unused"
    BY <1>1, <1>2 DEF CallShape
  <2> QED BY <1>1, <1>3, <1>7, <1>8, <2>1 DEF CallShape, HeldShape, Admitted
<1>12. Ownership'
  <2>1. ContainerShape'
    BY <1>1, <1>2, <1>3, <1>4, <1>6, <1>7, PoolAssumption DEF ContainerShape
  <2>2. ASSUME NEW h \in Calls PROVE CallShape(h)' /\ HeldShape(h)'
    <3>1. CASE h = g
      BY <1>11, <3>1
    <3>2. CASE h # g
      <4>1. SameCall(h) /\ CallShape(h) /\ HeldShape(h)
        BY <1>1, <1>9, <3>2 DEF Ownership
      <4>2. CallShape(h)'
        BY <4>1, Bystander
      <4>3. HeldShape(h)'
        BY <1>3, <1>7, <4>1 DEF HeldShape, SameCall
      <4> QED BY <4>2, <4>3
    <3> QED BY <3>1, <3>2
  <2>3. OneOwner'
    <3>1. \A j \in Instances, h \in Calls : Owns(h, j)' <=> Owns(h, j) /\ j # i
      BY <1>1, <1>2, <1>3, <1>4, <1>5 DEF Owns, TypeOK
    <3>2. Live' = Live \ {i}
      BY <1>2, <1>3 DEF Live
    <3>3. \A j \in Instances, h \in Calls : ~(inst'[h] = j /\ j \in drop'[h])
      BY <1>1, <1>2, <1>3 DEF OneOwner, TypeOK
    <3> QED BY <1>1, <1>3, <1>5, <3>1, <3>2, <3>3 DEF OneOwner
  <2>4. RunsItsOwnConfig'
    BY <1>1, <1>3 DEF Ownership, RunsItsOwnConfig
  <2>5. NothingWarmIsDeleted'
    BY <1>1, <1>3 DEF Ownership, NothingWarmIsDeleted, FnOf, Nil
  <2> QED BY <1>10, <2>1, <2>2, <2>3, <2>4, <2>5 DEF Ownership
<1>13. /\ \A h \in Calls : /\ h \in SlotHolders' <=> h \in SlotHolders
                           /\ h \in PendingCalls' <=> h \in PendingCalls
       /\ \A h \in SlotHolders \cup PendingCalls : cfg'[h] = cfg[h]
  <2>1. g \in SlotHolders' <=> g \in SlotHolders
    BY <1>3, <1>8 DEF SlotHolders
  <2>2. g \in PendingCalls' <=> g \in PendingCalls
    BY <1>3, <1>8 DEF PendingCalls, Admitted
  <2> QED BY <1>3, <1>9, <2>1, <2>2, OthersInTheBooks
<1>14. SlotBooks'
  BY <1>3, <1>13, SlotsSame DEF PoolInv, Nil
<1>15. MemoryBooks'
  <2>1. CASE i \in booked
    <3>1. reservedMem' = reservedMem - MemoryOf[made[i]] /\ booked' = booked \ {i}
      BY <1>2, <2>1 DEF ReleaseLiveMem
    <3> QED BY <1>1, <1>3, <1>6, <1>13, <2>1, <3>1, MemoryReleased DEF PoolInv
  <2>2. CASE i \notin booked
    <3>1. UNCHANGED bookVars
      BY <1>2, <1>3, <2>2 DEF ReleaseLiveMem, bookVars
    <3> QED BY <1>1, <1>3, <1>13, <3>1, MemorySame DEF PoolInv, Nil
  <2> QED BY <2>1, <2>2
<1> QED BY <1>12, <1>14, <1>15 DEF PoolInv

-----------------------------------------------------------------------------
(* A cold start ends. *)

\* A container is made, i, and its maker has it, to use it or to close it.
LEMMA OwnershipCreated ==
    ASSUME Ownership, NEW g \in Calls, NEW i \in Instances, TypeOK', made[i] = None,
           cfg[g] \in Configs, inst[g] = None, drop[g] = {},
           made' = [made EXCEPT ![i] = cfg[g]],
           prewarmed' \in {prewarmed, prewarmed \cup {i}},
           \/ inst'[g] = i /\ drop'[g] = {}
           \/ inst'[g] = None /\ drop'[g] = {i},
           UNCHANGED <<warm, evicted, stopped, booked, provInst, cfg, closed>>,
           \A h \in Calls \ {g} : SameCall(h), CallShape(g)', HeldShape(g)'
    PROVE  Ownership'
<1>1. TypeOK /\ ContainerShape /\ OneOwner
  BY DEF Ownership
<1>2. i \notin Live /\ i \notin booked \cup prewarmed \cup closed
  BY <1>1 DEF Live, ContainerShape
<1>3. i \notin warm /\ \A h \in Calls : inst[h] # i /\ i \notin drop[h]
  BY <1>1, <1>2 DEF OneOwner, Owns
<1>4. made'[i] = cfg[g] /\ \A j \in Instances \ {i} : made'[j] = made[j]
  BY <1>1 DEF TypeOK
<1>5. \A h \in Calls \ {g} : inst'[h] = inst[h] /\ drop'[h] = drop[h]
  BY DEF SameCall
<1>6. ContainerShape'
  BY <1>1, <1>2, <1>4, PoolAssumption DEF ContainerShape
<1>7. ASSUME NEW h \in Calls PROVE CallShape(h)' /\ HeldShape(h)'
  <2>1. CASE h = g
    BY <2>1
  <2>2. CASE h # g
    <3>1. SameCall(h) /\ CallShape(h) /\ HeldShape(h) /\ inst[h] # i
      BY <1>3, <2>2 DEF Ownership
    <3>2. CallShape(h)'
      BY <3>1, Bystander
    <3>3. HeldShape(h)'
      BY <3>1 DEF HeldShape, SameCall
    <3> QED BY <3>2, <3>3
  <2> QED BY <2>1, <2>2
<1>8. OneOwner'
  <2>1. Live' = Live \cup {i}
    BY <1>2, <1>4, PoolAssumption DEF Live
  <2>2. \A j \in Instances, h \in Calls : Owns(h, j)' <=> Owns(h, j) \/ (h = g /\ j = i)
    BY <1>5, PoolAssumption DEF Owns
  <2>3. \A j \in Instances, h \in Calls : ~(inst'[h] = j /\ j \in drop'[h])
    BY <1>1, <1>5, PoolAssumption DEF OneOwner
  <2>4. \A h \in Calls : ~Owns(h, i)
    BY <1>3 DEF Owns
  <2> QED BY <1>1, <1>3, <2>1, <2>2, <2>3, <2>4 DEF OneOwner
<1>9. RunsItsOwnConfig'
  <2>1. \A h \in Calls \ {g} : inst[h] # None => inst[h] \in Instances \ {i}
    BY <1>1, <1>3 DEF TypeOK
  <2> QED BY <1>4, <1>5, <2>1 DEF Ownership, RunsItsOwnConfig
<1>10. NothingWarmIsDeleted'
  <2>1. \A j \in warm : made'[j] = made[j]
    BY <1>1, <1>3, <1>4 DEF TypeOK
  <2> QED BY <2>1 DEF Ownership, NothingWarmIsDeleted, FnOf, Nil
<1> QED BY <1>6, <1>7, <1>8, <1>9, <1>10 DEF Ownership

LEMMA FinishColdStartStep ==
    ASSUME PoolInv, NEW g \in Calls, FinishColdStart(g)
    PROVE  PoolInv'
<1>1. TypeOK /\ ContainerShape /\ CallShape(g) /\ HeldShape(g) /\ Ownership
  BY DEF PoolInv, Ownership
<1>2. /\ pc[g] = "creating" /\ drop[g] = {} /\ inst[g] = None /\ cfg[g] \in Configs
      /\ kind[g] = "replenish" => left[g] - 1 \in Nat
  BY <1>1 DEF FinishColdStart, At, CallShape, TypeOK
<1>3. UNCHANGED <<warm, checkedOut, expected, evicted, provVars, bookVars, stopped, kind, cfg,
                  doomed, claimed, limit, closed>>
  BY DEF FinishColdStart
<1>4. /\ "unreserve" \in Labels /\ "commit" \in Labels
      /\ "loop" \in Labels /\ "mark" \in Labels
  BY DEF Labels
<1>5. ASSUME NEW i \in Instances \cup {None}, NEW m, FinishAdmitted(g, m, i)
      PROVE  /\ pc' = Goto(g, "unreserve") \/ (pc' = Goto(g, "commit") /\ i # None)
             /\ Admitted(g) /\ made' = m
             /\ UNCHANGED <<drop, left, prewarmed>> /\ inst' = [inst EXCEPT ![g] = i]
  <2>1. /\ Admitted(g) /\ made' = m
        /\ UNCHANGED <<drop, left, prewarmed>> /\ inst' = [inst EXCEPT ![g] = i]
    BY <1>5 DEF FinishAdmitted
  <2>2. CASE g \in doomed \/ i = None
    <3>1. pc' = Goto(g, "unreserve")
      BY <1>5, <2>2 DEF FinishAdmitted
    <3> QED BY <2>1, <3>1
  <2>3. CASE ~(g \in doomed \/ i = None)
    <3>1. pc' = Goto(g, "commit") /\ i # None
      BY <1>5, <2>3 DEF FinishAdmitted
    <3> QED BY <2>1, <3>1
  <2> QED BY <2>2, <2>3
<1>6. ASSUME NEW i \in Instances \cup {None}, NEW m, FinishReserved(g, m, i)
      PROVE  /\ kind[g] = "replenish" /\ made' = m
             /\ prewarmed' = prewarmed \cup ({i} \ {None})
             /\ \/ /\ drop' = [drop EXCEPT ![g] = {i} \ {None}]
                   /\ left' = [left EXCEPT ![g] = 0] /\ pc' = Goto(g, "loop")
                   /\ UNCHANGED inst
                \/ /\ i = None /\ pc' = Goto(g, "loop")
                   /\ inst' = [inst EXCEPT ![g] = i]
                   /\ left' = [left EXCEPT ![g] = @ - 1] /\ UNCHANGED drop
                \/ /\ i # None /\ pc' = Goto(g, "mark")
                   /\ inst' = [inst EXCEPT ![g] = i]
                   /\ left' = [left EXCEPT ![g] = @ - 1] /\ UNCHANGED drop
  BY <1>6 DEF FinishReserved
\* The step, whoever takes it: where g goes on with i, which may be None.
<1>7. ASSUME NEW i \in Instances \cup {None}, NEW l \in Labels, pc' = Goto(g, l),
             \/ /\ Admitted(g) /\ UNCHANGED <<drop, left, prewarmed>>
                /\ inst' = [inst EXCEPT ![g] = i]
                /\ l = "unreserve" \/ (l = "commit" /\ i # None)
             \/ /\ kind[g] = "replenish" /\ prewarmed' = prewarmed \cup ({i} \ {None})
                /\ \/ /\ drop' = [drop EXCEPT ![g] = {i} \ {None}]
                      /\ left' = [left EXCEPT ![g] = 0] /\ l = "loop" /\ UNCHANGED inst
                   \/ /\ l = (IF i = None THEN "loop" ELSE "mark")
                      /\ inst' = [inst EXCEPT ![g] = i]
                      /\ left' = [left EXCEPT ![g] = @ - 1] /\ UNCHANGED drop,
             IF i = None THEN made' = made
                         ELSE made[i] = None /\ made' = [made EXCEPT ![i] = cfg[g]]
      PROVE  PoolInv'
  <2>1. \A h \in Calls \ {g} : /\ kind'[h] = kind[h] /\ cfg'[h] = cfg[h]
                               /\ inst'[h] = inst[h] /\ drop'[h] = drop[h] /\ left'[h] = left[h]
    BY <1>1, <1>3, <1>7 DEF TypeOK
  <2>2. pc' \in [Calls -> Labels] /\ pc'[g] = l /\ \A h \in Calls \ {g} : SameCall(h)
    BY <1>1, <1>7, <2>1, OthersSame
  <2>3. /\ inst' \in [Calls -> Instances \cup {None}] /\ drop' \in [Calls -> SUBSET Instances]
        /\ left' \in [Calls -> Nat] /\ made' \in [Instances -> Configs \cup {None}]
        /\ prewarmed' \subseteq Instances
    <3>1. inst' \in [Calls -> Instances \cup {None}]
      BY <1>1, <1>7 DEF TypeOK
    <3>2. drop' \in [Calls -> SUBSET Instances]
      BY <1>1, <1>7 DEF TypeOK
    <3>3. left' \in [Calls -> Nat]
      BY <1>1, <1>2, <1>7 DEF TypeOK
    <3>4. made' \in [Instances -> Configs \cup {None}]
      BY <1>1, <1>2, <1>7 DEF TypeOK
    <3>5. prewarmed' \subseteq Instances
      BY <1>1, <1>7 DEF TypeOK
    <3> QED BY <3>1, <3>2, <3>3, <3>4, <3>5
  <2>4. TypeOK'
    BY <1>1, <1>3, <2>2, <2>3 DEF TypeOK, provVars, bookVars
  <2>5. /\ \/ inst'[g] = i /\ drop'[g] = {} /\ l \in {"unreserve", "commit", "mark", "loop"}
           \/ inst'[g] = None /\ drop'[g] = {i} \ {None} /\ l = "loop"
        /\ l = "commit" \/ l = "mark" => i # None /\ inst'[g] = i
        /\ l = "loop" => inst'[g] = None
    BY <1>1, <1>2, <1>7 DEF TypeOK
  <2>6. CallShape(g)'
    BY <1>1, <1>2, <1>3, <1>7, <2>2, <2>5 DEF CallShape, Admitted
  <2>7. i # None => i \notin booked \cup prewarmed
    BY <1>1, <1>7 DEF ContainerShape
  <2>8. HeldShape(g)'
    BY <1>3, <1>7, <2>2, <2>5, <2>7 DEF HeldShape, Admitted, bookVars
  <2>9. Ownership'
    <3>1. CASE i = None
      <4>1. UNCHANGED <<inst, drop, contVars>>
        <5>1. inst' = inst
          BY <1>1, <1>2, <1>7, <3>1 DEF TypeOK
        <5>2. drop' = drop
          <6>1. {i} \ {None} = {}
            BY <3>1
          <6>2. drop' = drop \/ drop' = [drop EXCEPT ![g] = {}]
            BY <1>7, <6>1
          <6>3. \A h \in Calls : drop'[h] = drop[h]
            BY <1>1, <1>2, <6>2 DEF TypeOK
          <6> QED BY <1>1, <2>3, <6>3 DEF TypeOK
        <5>3. UNCHANGED contVars
          BY <1>3, <1>7, <3>1 DEF contVars
        <5> QED BY <5>1, <5>2, <5>3
      <4> QED BY <1>1, <1>3, <2>2, <2>4, <2>6, <2>8, <4>1, OwnershipKept
              DEF ContainerShape, Nil, provVars, bookVars
    <3>2. CASE i # None
      <4>1. i \in Instances /\ prewarmed' \in {prewarmed, prewarmed \cup {i}}
        BY <1>7, <3>2
      <4>2. \/ inst'[g] = i /\ drop'[g] = {}
            \/ inst'[g] = None /\ drop'[g] = {i}
        BY <2>5, <3>2
      <4> QED BY <1>1, <1>2, <1>3, <1>7, <2>2, <2>4, <2>6, <2>8, <3>2, <4>1, <4>2,
                 OwnershipCreated DEF provVars, bookVars
    <3> QED BY <3>1, <3>2
  <2>10. /\ g \in SlotHolders' <=> g \in SlotHolders
         /\ g \in PendingCalls' <=> g \in PendingCalls
    BY <1>2, <1>3, <1>7, <2>2 DEF SlotHolders, PendingCalls, Admitted
  <2>11. /\ \A h \in Calls : /\ h \in SlotHolders' <=> h \in SlotHolders
                             /\ h \in PendingCalls' <=> h \in PendingCalls
         /\ \A h \in SlotHolders \cup PendingCalls : cfg'[h] = cfg[h]
    BY <1>3, <2>2, <2>10, OthersInTheBooks
  <2>12. SlotBooks'
    BY <1>3, <2>11, SlotsSame DEF PoolInv, Nil
  <2>13. \A j \in booked : made'[j] = made[j]
    BY <1>1, <1>7, <2>7 DEF TypeOK
  <2>14. MemoryBooks'
    BY <1>1, <1>3, <2>11, <2>13, MemorySame DEF PoolInv, Nil
  <2> QED BY <2>9, <2>12, <2>14 DEF PoolInv
<1>8. ASSUME NEW i \in Instances \cup {None}, NEW m,
             FinishAdmitted(g, m, i) \/ FinishReserved(g, m, i),
             IF i = None THEN m = made
                         ELSE made[i] = None /\ m = [made EXCEPT ![i] = cfg[g]]
      PROVE  PoolInv'
  <2>1. CASE FinishAdmitted(g, m, i)
    <3>1. /\ pc' = Goto(g, "unreserve") \/ (pc' = Goto(g, "commit") /\ i # None)
          /\ Admitted(g) /\ made' = m
          /\ UNCHANGED <<drop, left, prewarmed>> /\ inst' = [inst EXCEPT ![g] = i]
      BY <1>5, <2>1
    <3> QED BY <1>4, <1>7, <1>8, <3>1
  <2>2. CASE FinishReserved(g, m, i)
    <3>1. /\ kind[g] = "replenish" /\ made' = m
          /\ prewarmed' = prewarmed \cup ({i} \ {None})
          /\ \/ /\ drop' = [drop EXCEPT ![g] = {i} \ {None}]
                /\ left' = [left EXCEPT ![g] = 0] /\ pc' = Goto(g, "loop")
                /\ UNCHANGED inst
             \/ /\ i = None /\ pc' = Goto(g, "loop")
                /\ inst' = [inst EXCEPT ![g] = i]
                /\ left' = [left EXCEPT ![g] = @ - 1] /\ UNCHANGED drop
             \/ /\ i # None /\ pc' = Goto(g, "mark")
                /\ inst' = [inst EXCEPT ![g] = i]
                /\ left' = [left EXCEPT ![g] = @ - 1] /\ UNCHANGED drop
      BY <1>6, <2>2
    <3> QED BY <1>4, <1>7, <1>8, <3>1
  <2> QED BY <1>8, <2>1, <2>2
<1>9. CASE FinishAdmitted(g, made, None) \/ FinishReserved(g, made, None)
  BY <1>8, <1>9
<1>10. ASSUME NEW i \in Instances, FreshInst(i),
              \/ FinishAdmitted(g, [made EXCEPT ![i] = cfg[g]], i)
              \/ FinishReserved(g, [made EXCEPT ![i] = cfg[g]], i)
       PROVE  PoolInv'
  <2>1. made[i] = None /\ i # None
    BY <1>10, PoolAssumption DEF FreshInst
  <2> QED BY <1>8, <1>10, <2>1
<1> QED BY <1>9, <1>10 DEF FinishColdStart

-----------------------------------------------------------------------------
(* The theorems. *)

LEMMA InitInv == Init => PoolInv
<1> SUFFICES ASSUME Init PROVE PoolInv
  OBVIOUS
<1>1. TypeOK
  BY DEF Init, TypeOK, Labels
<1>2. ContainerShape /\ \A g \in Calls : CallShape(g) /\ HeldShape(g)
  BY DEF Init, ContainerShape, CallShape, HeldShape, Admitted
<1>3. OneOwner
  BY PoolAssumption DEF Init, OneOwner, Owns, Live
<1>4. RunsItsOwnConfig /\ NothingWarmIsDeleted
  BY DEF Init, RunsItsOwnConfig, NothingWarmIsDeleted
<1>5. SlotHolders = {} /\ PendingCalls = {}
  BY DEF Init, SlotHolders, PendingCalls, Admitted
<1>6. SlotBooks
  <2>1. \A f : HoldersOf(f) = {}
    BY <1>5 DEF HoldersOf
  <2> QED BY <2>1, FS_EmptySet DEF SlotBooks, Init
<1>7. MemoryBooks
  <2>1. \A mem : Units({}, mem) = {}
    BY DEF Units
  <2>2. Sum(PendingCalls, CallMem) = 0 /\ Sum(booked, InstMem) = 0
    BY <1>5, <2>1, FS_EmptySet DEF Sum, Init
  <2> QED BY <2>2 DEF MemoryBooks, Init
<1> QED BY <1>1, <1>2, <1>3, <1>4, <1>6, <1>7 DEF PoolInv, Ownership

LEMMA StutterInv == PoolInv /\ UNCHANGED vars => PoolInv'
<1> SUFFICES ASSUME PoolInv, UNCHANGED vars PROVE PoolInv'
  OBVIOUS
<1> USE DEF vars, provVars, bookVars, callVars, contVars
<1>1. SlotHolders' = SlotHolders /\ PendingCalls' = PendingCalls
  BY DEF SlotHolders, PendingCalls, Admitted
<1>2. SlotBooks' /\ MemoryBooks'
  BY <1>1 DEF PoolInv, SlotBooks, MemoryBooks, HoldersOf, Fn, Sum, Units, CallMem, InstMem, Nil
<1>3. TypeOK' /\ ContainerShape' /\ RunsItsOwnConfig' /\ NothingWarmIsDeleted'
  BY DEF PoolInv, Ownership, TypeOK, ContainerShape, RunsItsOwnConfig, NothingWarmIsDeleted,
         FnOf, Nil
<1>4. \A g \in Calls : CallShape(g)' /\ HeldShape(g)'
  BY DEF PoolInv, Ownership, CallShape, HeldShape, Admitted
<1>5. OneOwner'
  BY DEF PoolInv, Ownership, OneOwner, Owns, Live
<1> QED BY <1>2, <1>3, <1>4, <1>5 DEF PoolInv, Ownership

LEMMA NextInv == PoolInv /\ Next => PoolInv'
<1> SUFFICES ASSUME PoolInv, NEW g \in Calls,
                    \/ Acquire(g) \/ ColdStart(g) \/ ReplenishLoop(g) \/ ReleaseAny(g)
                    \/ CloseInstance(g) \/ Management(g)
             PROVE  PoolInv'
  BY DEF Next
<1>1. CASE Acquire(g)
  BY <1>1, TurnedAwayStep, AdmitGrantStep, TakeWarmStep, WaitingSteps, AdmitContainerStep,
     ReclaimIdleStep DEF Acquire
<1>2. CASE ColdStart(g)
  BY <1>2, BeginColdStartStep, FinishColdStartStep, UnreservePendingMemStep, ReleaseSlotStep,
     CommitPendingMemStep DEF ColdStart
<1>3. CASE ReplenishLoop(g)
  BY <1>3, ReplenishStep, SpawnStep, ReplenishStartStep, ReplenishEndStep,
     MarkProvisionedStep, RegisterLiveMemStep, BorrowSlotStep DEF ReplenishLoop
<1>4. CASE ReleaseAny(g)
  BY <1>4, ReleaseStep DEF ReleaseAny
<1>5. CASE CloseInstance(g)
  BY <1>5, CloseInstanceStep
<1>6. CASE Management(g)
  BY <1>6, EvictFunctionStep, ClearProvisionedConcurrencyStep, InvalidateFunctionStep,
     ProactiveInitStep, SetProvisionedConcurrencyStep, HandleContainerDiedStep, SweepStep,
     StopBeginStep, StopStep DEF Management
<1> QED BY <1>1, <1>2, <1>3, <1>4, <1>5, <1>6

\* The invariant of the pool: who has which container, and both books.
THEOREM InvariantHolds == Spec => []PoolInv
<1>1. PoolInv /\ [Next]_vars => PoolInv'
  BY NextInv, StutterInv
<1> QED BY InitInv, <1>1, PTL DEF Spec

\* Every container has exactly one owner, every call runs in an environment
\* built from its own snapshot, and nothing idle belongs to a deleted function.
THEOREM OwnershipHolds == Spec => []Ownership
<1>1. PoolInv => Ownership
  BY DEF PoolInv
<1> QED BY InvariantHolds, <1>1, PTL

\* checkedOut, which admission goes by, counts the calls that hold a slot: every
\* way out of acquire, of a cold start and of Release gives it back once.
THEOREM SlotBooksHold == Spec => []SlotBooks
<1>1. PoolInv => SlotBooks
  BY DEF PoolInv
<1> QED BY InvariantHolds, <1>1, PTL

\* reservedMemMB is the memory of the containers that are booked and of the
\* cold starts in flight, on every path that starts, fails, commits or closes.
THEOREM MemoryBooksHold == Spec => []MemoryBooks
<1>1. PoolInv => MemoryBooks
  BY DEF PoolInv
<1> QED BY InvariantHolds, <1>1, PTL

-----------------------------------------------------------------------------
(* The memory budget, which follows from the books: admission compares with
   reservedMem, and that is at least what on-demand containers take.         *)

\* No memory is taken for a container on demand.
LEMMA BudgetKept ==
    ASSUME TypeOK, WithinBudget, Nil => Nil',
           pendingMem' \in Int, pendingMem' <= pendingMem,
           booked' \ prewarmed' \subseteq booked \ prewarmed,
           \A i \in booked : made'[i] = made[i]
    PROVE  WithinBudget'
<1> SUFFICES ASSUME MaxMemory > 0, ~Nil
             PROVE  (pendingMem + Sum(booked \ prewarmed, InstMem))' <= MaxMemory
  BY DEF WithinBudget, Nil
<1> DEFINE S == booked \ prewarmed
           T == booked' \ prewarmed'
<1>1. S \subseteq Instances /\ T \subseteq S /\ IsFiniteSet(S)
  BY InstancesFinite DEF TypeOK
<1>2. \A i \in S : InstMem[i] \in Nat
  BY <1>1, MemTypes
<1>3. Sum(T, InstMem') = Sum(T, InstMem)
  BY <1>1, BookedSame
<1>4. Sum(booked \ prewarmed, InstMem)' = Sum(T, InstMem')
  BY DEF Sum, Units
<1> HIDE DEF S, T
<1>5. Sum(T, InstMem) <= Sum(S, InstMem) /\ Sum(T, InstMem) \in Nat /\ Sum(S, InstMem) \in Nat
  BY <1>1, <1>2, SumSubset
<1>6. pendingMem + Sum(S, InstMem) <= MaxMemory
  BY DEF WithinBudget, S
<1>7. MaxMemory \in Nat /\ pendingMem \in Int
  BY PoolAssumption DEF TypeOK
<1> QED BY <1>3, <1>4, <1>5, <1>6, <1>7

\* Memory is reserved for a container on demand, after a look at reservedMem.
LEMMA BudgetTaken ==
    ASSUME TypeOK, MemoryBooks, ~Nil, NEW c \in Configs, MemoryFits(MemoryOf[c]),
           pendingMem' = pendingMem + MemoryOf[c], UNCHANGED <<booked, prewarmed, made>>
    PROVE  WithinBudget'
<1> SUFFICES ASSUME MaxMemory > 0
             PROVE  (pendingMem + Sum(booked \ prewarmed, InstMem))' <= MaxMemory
  BY DEF WithinBudget
<1> DEFINE S == booked \ prewarmed
<1>1. S \subseteq booked /\ IsFiniteSet(booked) /\ \A i \in booked : InstMem[i] \in Nat
  BY InstancesFinite, MemTypes DEF TypeOK
<1>2. Sum(booked \ prewarmed, InstMem)' = Sum(S, InstMem)
  BY DEF Sum, Units, InstMem
<1> HIDE DEF S
<1>3. /\ Sum(S, InstMem) <= Sum(booked, InstMem)
      /\ Sum(S, InstMem) \in Nat /\ Sum(booked, InstMem) \in Nat
  BY <1>1, SumSubset
<1>4. reservedMem = pendingMem + Sum(booked, InstMem)
  BY DEF MemoryBooks
<1>5. MaxMemory \in Nat /\ pendingMem \in Int /\ MemoryOf[c] \in Nat
  BY PoolAssumption DEF TypeOK
<1>6. reservedMem + MemoryOf[c] <= MaxMemory
  BY <1>5 DEF MemoryFits
<1> QED BY <1>2, <1>3, <1>4, <1>5, <1>6

\* What was reserved becomes booked.
LEMMA BudgetCommitted ==
    ASSUME TypeOK, WithinBudget, NEW i \in Instances, made[i] \in Configs,
           i \notin booked \cup prewarmed, pendingMem' = pendingMem - MemoryOf[made[i]],
           booked' = booked \cup {i}, UNCHANGED <<prewarmed, made, stopped>>
    PROVE  WithinBudget'
<1> SUFFICES ASSUME MaxMemory > 0, ~Nil
             PROVE  (pendingMem + Sum(booked \ prewarmed, InstMem))' <= MaxMemory
  BY DEF WithinBudget, Nil
<1> DEFINE S == booked \ prewarmed
<1>1. S \subseteq Instances /\ i \notin S
  BY DEF TypeOK
<1>2. booked' \ prewarmed' = S \cup {i}
  OBVIOUS
<1>3. Sum(booked \ prewarmed, InstMem)' = Sum(S \cup {i}, InstMem)
  <2>1. InstMem' = InstMem
    BY DEF InstMem
  <2>2. Sum(booked \ prewarmed, InstMem)' = Sum(booked' \ prewarmed', InstMem')
    BY DEF Sum, Units
  <2> HIDE DEF S
  <2> QED BY <1>2, <2>1, <2>2
<1>4. pendingMem + Sum(S, InstMem) <= MaxMemory
  BY DEF WithinBudget
<1> HIDE DEF S
<1>5. Sum(S \cup {i}, InstMem) = Sum(S, InstMem) + MemoryOf[made[i]] /\ Sum(S, InstMem) \in Nat
  BY <1>1, BookedAdded
<1>6. MaxMemory \in Nat /\ pendingMem \in Int /\ MemoryOf[made[i]] \in Nat
  BY PoolAssumption DEF TypeOK
<1> QED BY <1>3, <1>4, <1>5, <1>6

LEMMA BudgetStep ==
    ASSUME PoolInv, WithinBudget, NEW g \in Calls,
           \/ Acquire(g) \/ ColdStart(g) \/ ReplenishLoop(g) \/ ReleaseAny(g)
           \/ CloseInstance(g) \/ Management(g)
    PROVE  WithinBudget'
<1>1. TypeOK /\ ContainerShape /\ CallShape(g) /\ HeldShape(g) /\ RunsItsOwnConfig /\ pendingMem \in Int
  BY DEF PoolInv, Ownership, TypeOK
<1> DEFINE Quiet == UNCHANGED <<pendingMem, booked, prewarmed, made, stopped>>
<1>2. Quiet => WithinBudget'
  BY <1>1, BudgetKept DEF Nil
<1>3. CASE Acquire(g)
  <2>1. CASE AdmitContainer(g)
    <3>1. cfg[g] \in Configs
      BY <1>1, <2>1 DEF AdmitContainer, At, CallShape, Admitted
    <3> QED BY <1>1, <2>1, <3>1, BudgetTaken DEF AdmitContainer, Fits, PoolInv, contVars
  <2>2. CASE \E c \in Configs : AdmitThrottle(g, c) \/ AdmitGrant(g, c) \/ AdmitQueue(g, c)
    BY <1>2, <2>2 DEF AdmitThrottle, AdmitGrant, AdmitQueue, bookVars, contVars
  <2>3. CASE TakeWarm(g) \/ AcquireStopped(g)
    BY <1>2, <2>3 DEF TakeWarm, AcquireStopped, bookVars, contVars
  <2>4. CASE ReclaimIdle(g) \/ Reclaimed(g) \/ ContainerQueue(g) \/ WaitTimeout(g)
    BY <1>2, <2>4 DEF ReclaimIdle, Reclaimed, ContainerQueue, WaitTimeout, bookVars, contVars
  <2> QED BY <1>3, <2>1, <2>2, <2>3, <2>4 DEF Acquire
<1>4. CASE ColdStart(g)
  <2>1. CASE BeginColdStart(g) \/ ReleaseSlot(g)
    BY <1>2, <2>1 DEF BeginColdStart, ReleaseSlot, bookVars, contVars
  <2>2. CASE FinishColdStart(g)
    <3>1. UNCHANGED <<pendingMem, booked, stopped>> /\ prewarmed \subseteq prewarmed'
      BY <2>2 DEF FinishColdStart, FinishAdmitted, FinishReserved, bookVars
    <3>2. \A i \in booked : made'[i] = made[i]
      <4>1. \/ made' = made
            \/ \E i \in Instances : made[i] = None /\ made' = [made EXCEPT ![i] = cfg[g]]
        BY <2>2 DEF FinishColdStart, FinishAdmitted, FinishReserved, FreshInst
      <4>2. \A i \in booked : i \in Instances /\ made[i] # None
        BY <1>1 DEF ContainerShape
      <4> QED BY <1>1, <4>1, <4>2 DEF TypeOK
    <3> QED BY <1>1, <3>1, <3>2, BudgetKept DEF Nil
  <2>3. CASE UnreservePendingMem(g)
    <3>1. MemoryOf[cfg[g]] \in Nat
      BY <1>1, <2>3, PoolAssumption DEF UnreservePendingMem, At, CallShape
    <3>2. pendingMem' \in Int /\ pendingMem' <= pendingMem
      BY <1>1, <2>3, <3>1 DEF UnreservePendingMem
    <3>3. UNCHANGED <<booked, prewarmed, made, stopped>>
      BY <2>3 DEF UnreservePendingMem, contVars
    <3> QED BY <1>1, <3>2, <3>3, BudgetKept DEF Nil
  <2>4. CASE CommitPendingMem(g)
    <3>1. CASE Nil
      BY <1>2, <2>4, <3>1 DEF CommitPendingMem, bookVars, contVars
    <3>2. CASE ~Nil
      <4>1. /\ inst[g] \in Instances /\ inst[g] \notin booked \cup prewarmed
            /\ made[inst[g]] = cfg[g] /\ cfg[g] \in Configs
        BY <1>1, <2>4 DEF CommitPendingMem, At, CallShape, HeldShape, RunsItsOwnConfig, TypeOK
      <4>2. /\ pendingMem' = pendingMem - MemoryOf[made[inst[g]]]
            /\ booked' = booked \cup {inst[g]} /\ UNCHANGED <<prewarmed, made, stopped>>
        BY <2>4, <3>2, <4>1 DEF CommitPendingMem, contVars
      <4> QED BY <1>1, <4>1, <4>2, BudgetCommitted
    <3> QED BY <3>1, <3>2
  <2> QED BY <1>4, <2>1, <2>2, <2>3, <2>4 DEF ColdStart
<1>5. CASE ReplenishLoop(g)
  <2>1. CASE RegisterLiveMem(g)
    <3>1. inst[g] \in prewarmed
      BY <1>1, <2>1 DEF RegisterLiveMem, At, HeldShape
    <3>2. /\ UNCHANGED <<pendingMem, prewarmed, made, stopped>>
          /\ booked' \subseteq booked \cup {inst[g]}
      BY <2>1 DEF RegisterLiveMem, contVars
    <3> QED BY <1>1, <3>1, <3>2, BudgetKept DEF Nil
  <2>2. CASE Replenish(g) \/ Spawn(g) \/ ReplenishStart(g) \/ ReplenishEnd(g)
    BY <1>2, <2>2 DEF Replenish, Spawn, ReplenishStart, ReplenishEnd, bookVars, contVars
  <2>3. CASE MarkProvisioned(g) \/ BorrowSlot(g)
    BY <1>2, <2>3 DEF MarkProvisioned, BorrowSlot, bookVars, contVars
  <2> QED BY <1>5, <2>1, <2>2, <2>3 DEF ReplenishLoop
<1>6. CASE ReleaseAny(g)
  BY <1>2, <1>6 DEF ReleaseAny, Release, bookVars, contVars
<1>7. CASE CloseInstance(g)
  <2>1. UNCHANGED <<pendingMem, prewarmed, made, stopped>> /\ booked' \subseteq booked
    BY <1>7 DEF CloseInstance, ReleaseLiveMem
  <2> QED BY <1>1, <2>1, BudgetKept DEF Nil
<1>8. CASE Management(g)
  <2>1. CASE \E c \in Configs : ProactiveInit(g, c)
    <3>1. PICK c \in Configs : ProactiveInit(g, c)
      BY <2>1
    <3> QED BY <1>1, <3>1, BudgetTaken DEF ProactiveInit, PoolInv, contVars
  <2>2. CASE Stop(g)
    BY <2>2 DEF Stop, WithinBudget, Nil
  <2>3. CASE StopBegin(g)
    <3>1. UNCHANGED <<pendingMem, booked, prewarmed, made>> /\ (Nil => Nil')
      BY <2>3 DEF StopBegin, bookVars, contVars, Nil
    <3> QED BY <1>1, <3>1, BudgetKept
  <2>4. ASSUME NEW c, NEW out, NEW l, Manage(g, c, out, l) PROVE WithinBudget'
    BY <1>2, <2>4 DEF Manage, bookVars, contVars
  <2>5. CASE \E f \in Functions : EvictFunction(g, f) \/ ClearProvisionedConcurrency(g, f)
    BY <2>4, <2>5 DEF EvictFunction, ClearProvisionedConcurrency
  <2>6. CASE \E c \in Configs : InvalidateFunction(g, c)
    BY <2>4, <2>6 DEF InvalidateFunction
  <2>7. CASE \E c \in Configs, n \in Targets : SetProvisionedConcurrency(g, c, n)
    BY <2>4, <2>7 DEF SetProvisionedConcurrency
  <2>8. CASE (\E i \in Instances : HandleContainerDied(g, i)) \/ Sweep(g)
    BY <2>4, <2>8 DEF HandleContainerDied, Sweep
  <2> QED BY <1>8, <2>1, <2>2, <2>3, <2>5, <2>6, <2>7, <2>8 DEF Management
<1> QED BY <1>3, <1>4, <1>5, <1>6, <1>7, <1>8

\* Steps that book what they put to work and close nothing that works.
LEMMA UsedKept ==
    ASSUME UsedIsBooked, Nil => Nil', booked \subseteq booked', warm' \subseteq warm,
           \A h \in Calls : pc'[h] \in {"borrow", "running"} =>
               \/ pc[h] \in {"borrow", "running"} /\ inst'[h] = inst[h]
               \/ Nil' \/ inst'[h] \in booked'
    PROVE  UsedIsBooked'
BY DEF UsedIsBooked

LEMMA UsedStep ==
    ASSUME PoolInv, UsedIsBooked, NEW g \in Calls,
           \/ Acquire(g) \/ ColdStart(g) \/ ReplenishLoop(g) \/ ReleaseAny(g)
           \/ CloseInstance(g) \/ Management(g)
    PROVE  UsedIsBooked'
<1>1. TypeOK /\ CallShape(g) /\ Ownership
  BY DEF PoolInv, Ownership
<1> DEFINE Quiet(l) == /\ l \in Labels \ {"borrow", "running"}
                       /\ \/ pc' = Goto(g, l)
                          \/ pc' = Woken(Goto(g, l)) /\ l \notin {"admitWait", "containerWait"}
<1>2. ASSUME NEW l, Quiet(l), \A h \in Calls \ {g} : inst'[h] = inst[h], warm' \subseteq warm,
             booked \subseteq booked', Nil => Nil'
      PROVE  UsedIsBooked'
  <2>1. ASSUME NEW h \in Calls, pc'[h] \in {"borrow", "running"} PROVE h # g /\ pc[h] = pc'[h]
    <3>1. CASE pc' = Goto(g, l)
      <4>1. Goto(g, l)[g] = l /\ (h # g => Goto(g, l)[h] = pc[h])
        BY <1>1, <1>2, GotoWaitFacts
      <4> QED BY <1>2, <2>1, <3>1, <4>1
    <3>2. CASE pc' = Woken(Goto(g, l)) /\ l \notin {"admitWait", "containerWait"}
      <4>1. /\ Woken(Goto(g, l))[g] = l
            /\ h # g => \/ Woken(Goto(g, l))[h] = pc[h]
                        \/ Woken(Goto(g, l))[h] \in {"admit", "container"}
        BY <1>1, <1>2, <3>2, GotoFacts
      <4> QED BY <1>2, <2>1, <3>2, <4>1
    <3> QED BY <1>2, <3>1, <3>2
  <2>2. \A h \in Calls : pc'[h] \in {"borrow", "running"} =>
            pc[h] \in {"borrow", "running"} /\ inst'[h] = inst[h]
    BY <1>2, <2>1
  <2> HIDE DEF Quiet
  <2> QED BY <1>2, <2>2, UsedKept
<1>6. CASE Acquire(g)
  <2>1. ASSUME NEW c \in Configs, AdmitThrottle(g, c) \/ AdmitGrant(g, c) \/ AdmitQueue(g, c)
        PROVE  UsedIsBooked'
    <3>1. UNCHANGED <<warm, inst, booked, stopped>>
      BY <2>1 DEF AdmitThrottle, AdmitGrant, AdmitQueue, bookVars
    <3>2. Quiet("over") \/ Quiet("takeWarm") \/ Quiet("admitWait")
      BY <2>1 DEF AdmitThrottle, AdmitGrant, AdmitQueue, Labels
    <3> QED BY <1>2, <3>1, <3>2 DEF Nil
  <2>2. CASE TakeWarm(g)
    <3>1. UNCHANGED <<booked, stopped>> /\ ~Nil /\ warm' \subseteq warm
      BY <2>2 DEF TakeWarm, bookVars
    <3>2. ASSUME NEW i \in warm, inst' = [inst EXCEPT ![g] = i], pc' = Goto(g, "running")
          PROVE  UsedIsBooked'
      <4>1. inst'[g] \in booked /\ \A h \in Calls \ {g} : inst'[h] = inst[h] /\ pc'[h] = pc[h]
        BY <1>1, <3>1, <3>2 DEF UsedIsBooked, TypeOK, Goto
      <4> QED BY <3>1, <4>1, UsedKept DEF Nil
    <3>3. CASE pc' = Goto(g, "container") /\ UNCHANGED inst
      <4>1. Quiet("container")
        BY <3>3 DEF Labels
      <4> QED BY <1>2, <3>1, <3>3, <4>1 DEF Nil
    <3> QED BY <2>2, <3>2, <3>3 DEF TakeWarm, WarmOf
  <2>3. CASE AcquireStopped(g) \/ AdmitContainer(g) \/ ReclaimIdle(g) \/ Reclaimed(g)
               \/ ContainerQueue(g) \/ WaitTimeout(g)
    <3>1. UNCHANGED <<inst, booked, stopped>> /\ warm' \subseteq warm
      BY <2>3 DEF AcquireStopped, AdmitContainer, ReclaimIdle, Reclaimed, ContainerQueue,
                  WaitTimeout, bookVars
    <3>2. Quiet("container") \/ Quiet("releaseSlot") \/ Quiet("start") \/ Quiet("reclaimed")
             \/ Quiet("containerWait") \/ Quiet("over")
      BY <2>3 DEF AcquireStopped, AdmitContainer, ReclaimIdle, Reclaimed, ContainerQueue,
                  WaitTimeout, Labels
    <3> QED BY <1>2, <3>1, <3>2 DEF Nil
  <2> QED BY <1>6, <2>1, <2>2, <2>3 DEF Acquire
<1>7. CASE ColdStart(g)
  <2>1. CASE BeginColdStart(g) \/ FinishColdStart(g) \/ UnreservePendingMem(g) \/ ReleaseSlot(g)
    <3>1. UNCHANGED <<warm, booked, stopped>> /\ \A h \in Calls \ {g} : inst'[h] = inst[h]
      BY <1>1, <2>1 DEF BeginColdStart, FinishColdStart, FinishAdmitted, FinishReserved,
                        UnreservePendingMem, ReleaseSlot, bookVars, TypeOK
    <3>2. Quiet("creating") \/ Quiet("unreserve") \/ Quiet("commit") \/ Quiet("loop")
             \/ Quiet("mark") \/ Quiet("releaseSlot") \/ Quiet("over")
      BY <2>1 DEF BeginColdStart, FinishColdStart, FinishAdmitted, FinishReserved,
                  UnreservePendingMem, ReleaseSlot, Labels
    <3> QED BY <1>2, <3>1, <3>2 DEF Nil
  <2>2. CASE CommitPendingMem(g)
    <3>1. UNCHANGED <<warm, inst, stopped>> /\ booked \subseteq booked' /\ pc' = Goto(g, "running")
          /\ (Nil \/ inst[g] \in booked')
      BY <2>2 DEF CommitPendingMem, bookVars
    <3>2. \A h \in Calls \ {g} : pc'[h] = pc[h]
      BY <1>1, <3>1 DEF TypeOK, Goto
    <3> QED BY <3>1, <3>2, UsedKept DEF Nil
  <2> QED BY <1>7, <2>1, <2>2 DEF ColdStart
<1>8. CASE ReplenishLoop(g)
  <2>1. CASE Replenish(g)
    <3>1. UNCHANGED <<warm, inst, booked, stopped>>
      BY <2>1 DEF Replenish, bookVars
    <3>2. \A h \in Calls : pc'[h] \in {"borrow", "running"} => pc[h] = pc'[h]
      BY <1>1, <2>1 DEF Replenish, AfterRelease, Goto, TypeOK
    <3> QED BY <3>1, <3>2, UsedKept DEF Nil
  <2>2. CASE Spawn(g) \/ ReplenishStart(g) \/ ReplenishEnd(g) \/ MarkProvisioned(g)
    <3>1. UNCHANGED <<warm, inst, booked, stopped>>
      BY <2>2 DEF Spawn, ReplenishStart, ReplenishEnd, MarkProvisioned, bookVars
    <3>2. Quiet("loop") \/ Quiet("start") \/ Quiet("creating") \/ Quiet("over") \/ Quiet("register")
      BY <2>2 DEF Spawn, ReplenishStart, ReplenishEnd, MarkProvisioned, Labels
    <3> QED BY <1>2, <3>1, <3>2 DEF Nil
  <2>3. CASE RegisterLiveMem(g) \/ BorrowSlot(g)
    <3>1. /\ UNCHANGED <<warm, inst, stopped>> /\ booked \subseteq booked'
          /\ pc' = Goto(g, "borrow") \/ pc' = Goto(g, "running")
          /\ pc[g] = "borrow" \/ Nil \/ inst[g] \in booked'
      BY <2>3 DEF RegisterLiveMem, BorrowSlot, At, bookVars
    <3>2. \A h \in Calls \ {g} : pc'[h] = pc[h]
      BY <1>1, <3>1 DEF TypeOK, Goto
    <3> QED BY <3>1, <3>2, UsedKept DEF Nil
  <2> QED BY <1>8, <2>1, <2>2, <2>3 DEF ReplenishLoop
<1>9. CASE ReleaseAny(g)
  <2>1. PICK usable \in BOOLEAN : Release(g, usable)
    BY <1>9 DEF ReleaseAny
  <2>2. /\ pc[g] = "running" /\ warm' \subseteq warm \cup {inst[g]}
        /\ inst' = [inst EXCEPT ![g] = None] /\ UNCHANGED <<booked, stopped>>
        /\ \E l \in {"replenish", "loop", "over"} : pc' = Woken(Goto(g, l))
    BY <2>1 DEF Release, AfterRelease, At, bookVars
  <2>3. ASSUME NEW h \in Calls, pc'[h] \in {"borrow", "running"}
        PROVE  pc[h] = pc'[h] /\ inst'[h] = inst[h]
    <3>1. PICK l \in {"replenish", "loop", "over"} : pc' = Woken(Goto(g, l))
      BY <2>2
    <3>2. l \in Labels /\ l \notin {"admitWait", "containerWait"}
      BY DEF Labels
    <3>3. /\ Woken(Goto(g, l))[g] = l
          /\ h # g => \/ Woken(Goto(g, l))[h] = pc[h]
                      \/ Woken(Goto(g, l))[h] \in {"admit", "container"}
      BY <1>1, <3>2, GotoFacts
    <3>4. h # g /\ pc[h] = pc'[h]
      BY <2>3, <3>1, <3>3
    <3> QED BY <1>1, <2>2, <3>4 DEF TypeOK
  <2> QED BY <2>2, <2>3 DEF UsedIsBooked, Nil
<1>10. CASE CloseInstance(g)
  <2>1. PICK i \in drop[g] : ReleaseLiveMem(i)
    BY <1>10 DEF CloseInstance
  <2>2. UNCHANGED <<warm, inst, stopped>> /\ booked \ {i} \subseteq booked' /\ pc' \in {pc, Woken(pc)}
    BY <1>10, <2>1 DEF CloseInstance, ReleaseLiveMem
  <2>3. i \in Instances /\ i \notin warm /\ \A h \in Calls : inst[h] # i
    BY <1>1 DEF Ownership, OneOwner, Owns, TypeOK
  <2>4. \A h \in Calls : pc'[h] \in {"borrow", "running"} => pc[h] = pc'[h]
    BY <1>1, <2>2, WokenFacts
  <2> QED BY <2>2, <2>3, <2>4 DEF UsedIsBooked, Nil
<1>11. CASE Management(g)
  <2>1. ASSUME NEW c, NEW out, NEW l \in {"over", "replenish"}, Manage(g, c, out, l)
        PROVE  UsedIsBooked'
    <3>1. UNCHANGED <<inst, booked, stopped>> /\ warm' \subseteq warm
      BY <2>1 DEF Manage, bookVars
    <3>2. Quiet(l)
      BY <2>1 DEF Manage, Labels
    <3> QED BY <1>2, <3>1, <3>2 DEF Nil
  <2>2. CASE \E f \in Functions : EvictFunction(g, f) \/ ClearProvisionedConcurrency(g, f)
    BY <2>1, <2>2 DEF EvictFunction, ClearProvisionedConcurrency
  <2>3. CASE \E c \in Configs : InvalidateFunction(g, c)
    <3>1. PICK c \in Configs : InvalidateFunction(g, c)
      BY <2>3
    <3>2. \E l \in {"over", "replenish"} : Manage(g, c, Stale(c), l)
      BY <3>1 DEF InvalidateFunction
    <3> QED BY <2>1, <3>2
  <2>4. CASE \E c \in Configs, n \in Targets : SetProvisionedConcurrency(g, c, n)
    BY <2>1, <2>4 DEF SetProvisionedConcurrency
  <2>5. CASE (\E i \in Instances : HandleContainerDied(g, i)) \/ Sweep(g)
    BY <2>1, <2>5 DEF HandleContainerDied, Sweep
  <2>6. CASE (\E c \in Configs : ProactiveInit(g, c)) \/ StopBegin(g)
    <3>1. UNCHANGED <<warm, inst, booked>> /\ (Nil => Nil')
      BY <2>6 DEF ProactiveInit, StopBegin, bookVars, Nil
    <3>2. Quiet("spawned") \/ Quiet("stopWait")
      BY <2>6 DEF ProactiveInit, StopBegin, Labels
    <3> QED BY <1>2, <3>1, <3>2
  <2>7. CASE Stop(g)
    BY <2>7 DEF Stop, UsedIsBooked, Nil
  <2> QED BY <1>11, <2>2, <2>3, <2>4, <2>5, <2>6, <2>7 DEF Management
<1> QED BY <1>6, <1>7, <1>8, <1>9, <1>10, <1>11

\* Containers on demand never take more than LAMBDA_MAX_MEMORY_MB, whatever
\* reservations add to the books and however cold starts end.
THEOREM BudgetHolds == Spec => []OnDemandWithinBudget
<1>1. Init => OnDemandWithinBudget
  <2> SUFFICES ASSUME Init PROVE OnDemandWithinBudget
    OBVIOUS
  <2>1. Units(booked \ prewarmed, InstMem) = {}
    BY DEF Init, Units
  <2>2. Sum(booked \ prewarmed, InstMem) = 0
    BY <2>1, FS_EmptySet DEF Sum
  <2>3. WithinBudget
    BY <2>2, PoolAssumption DEF Init, WithinBudget
  <2>4. UsedIsBooked
    BY DEF Init, UsedIsBooked
  <2> QED BY <2>3, <2>4 DEF OnDemandWithinBudget
<1>2. PoolInv /\ OnDemandWithinBudget /\ [Next]_vars => OnDemandWithinBudget'
  <2>1. ASSUME PoolInv, OnDemandWithinBudget, Next PROVE OnDemandWithinBudget'
    BY <2>1, BudgetStep, UsedStep DEF Next, OnDemandWithinBudget
  <2>2. ASSUME PoolInv, OnDemandWithinBudget, UNCHANGED vars PROVE OnDemandWithinBudget'
    <3>1. TypeOK /\ pendingMem \in Int
      BY <2>2 DEF PoolInv, Ownership, TypeOK
    <3>2. WithinBudget'
      BY <2>2, <3>1, BudgetKept DEF vars, bookVars, contVars, Nil, OnDemandWithinBudget
    <3>3. UsedIsBooked'
      BY <2>2 DEF OnDemandWithinBudget, UsedIsBooked, vars, callVars, bookVars, Nil
    <3> QED BY <3>2, <3>3 DEF OnDemandWithinBudget
  <2> QED BY <2>1, <2>2
<1> QED BY InvariantHolds, <1>1, <1>2, PTL DEF Spec

-----------------------------------------------------------------------------
(* Queues: nobody waits for what is there. *)

Queued == {"admitWait", "containerWait"}

Looked == \A h \in Calls : NothingToTake(h)

\* The limit of a queued call is a number.
LEMMA QueuedCalls ==
    ASSUME Ownership, NEW h \in Calls, pc[h] \in Queued
    PROVE  /\ cfg[h] \in Configs /\ Fn(h) \in Functions /\ checkedOut[Fn(h)] \in Int
           /\ limit[h] \in Int
<1>1. cfg[h] \in Configs
  BY DEF Ownership, CallShape, Admitted, Queued
<1>2. Fn(h) \in Functions /\ checkedOut[Fn(h)] \in Int
  BY <1>1, PoolAssumption DEF Ownership, TypeOK, Fn
<1>3. limit[h] \in Int
  BY DEF Ownership, TypeOK
<1> QED BY <1>1, <1>2, <1>3

\* Nobody joins a queue, no slot is given back and nothing becomes idle.
LEMMA QueuesKept ==
    ASSUME Ownership, Looked, NEW g \in Calls, NEW l \in Labels, l \notin Queued,
           pc' = Goto(g, l), limit' = limit,
           \A h \in Calls \ {g} : cfg'[h] = cfg[h],
           warm' \subseteq warm, prewarmed \subseteq prewarmed', Nil' <=> Nil,
           \A f \in Functions : checkedOut'[f] \in Int /\ checkedOut'[f] >= checkedOut[f]
    PROVE  Looked'
<1> SUFFICES ASSUME NEW h \in Calls, pc'[h] \in Queued
             PROVE  /\ pc'[h] = "admitWait" =>
                          ~Nil' /\ checkedOut'[Fn(h)'] >= limit'[h]
                    /\ pc'[h] = "containerWait" => ~Nil' /\ Reclaimable' \subseteq prewarmed'
  BY DEF Looked, NothingToTake, Queued
<1>1. h # g /\ pc[h] = pc'[h] /\ cfg'[h] = cfg[h]
  <2>1. Goto(g, l)[g] = l /\ \A k \in Calls : k # g => Goto(g, l)[k] = pc[k]
    BY GotoWaitFacts DEF Ownership
  <2> QED BY <2>1
<1>2. Fn(h)' = Fn(h) /\ Fn(h) \in Functions /\ checkedOut[Fn(h)] \in Int
      /\ limit[h] \in Int
  BY <1>1, QueuedCalls DEF Fn
<1>3. pc[h] = "admitWait" => checkedOut[Fn(h)] >= limit[h] /\ ~Nil
  BY DEF Looked, NothingToTake
<1>4. pc[h] = "containerWait" => ~Nil /\ Reclaimable \subseteq prewarmed
  BY DEF Looked, NothingToTake
<1>5. Reclaimable' \subseteq Reclaimable \cup prewarmed'
  BY DEF Reclaimable, Ownership, ContainerShape
<1>6. pc'[h] = "admitWait" => ~Nil' /\ checkedOut'[Fn(h)'] >= limit'[h]
  <2>1. checkedOut'[Fn(h)] >= checkedOut[Fn(h)] /\ checkedOut'[Fn(h)] \in Int
    BY <1>2
  <2> QED BY <1>1, <1>2, <1>3, <2>1
<1> QED BY <1>1, <1>4, <1>5, <1>6

\* signalSlotFreedLocked: everybody looks again.
LEMMA QueuesWoken ==
    ASSUME TypeOK, \A h \in Calls : pc'[h] \notin Queued
    PROVE  Looked'
BY DEF Looked, NothingToTake, Queued

LEMMA WokenAtAll ==
    ASSUME TypeOK, NEW g \in Calls, NEW l \in Labels, l \notin Queued, pc' = Woken(Goto(g, l))
    PROVE  \A h \in Calls : pc'[h] \notin Queued
<1>1. /\ Woken(Goto(g, l))[g] = l
      /\ \A h \in Calls : h # g => Woken(Goto(g, l))[h] \notin {"admitWait", "containerWait"}
  BY GotoFacts DEF Queued
<1> QED BY <1>1 DEF Queued

\* A call joins a queue: it has looked.
LEMMA QueuesJoined ==
    ASSUME Ownership, Looked, NEW g \in Calls, NEW l \in Queued, ~Nil, pc' = Goto(g, l),
           \A h \in Calls \ {g} : cfg'[h] = cfg[h] /\ limit'[h] = limit[h],
           UNCHANGED <<warm, checkedOut, provInst, prewarmed, stopped>>,
           l = "admitWait" => checkedOut[NameOf[cfg'[g]]] >= limit'[g],
           l = "containerWait" => Reclaimable = {}
    PROVE  Looked'
<1>1. Goto(g, l)[g] = l /\ \A k \in Calls : k # g => Goto(g, l)[k] = pc[k]
  BY GotoWaitFacts DEF Ownership, Queued, Labels
<1>2. Reclaimable' = Reclaimable /\ Nil' = Nil
  BY DEF Reclaimable, Nil
<1>3. ASSUME NEW h \in Calls, h # g
      PROVE  /\ pc'[h] = "admitWait" =>
                   ~Nil' /\ checkedOut'[NameOf[cfg'[h]]] >= limit'[h]
             /\ pc'[h] = "containerWait" => ~Nil' /\ Reclaimable' \subseteq prewarmed'
  <2>1. pc'[h] = pc[h] /\ cfg'[h] = cfg[h] /\ limit'[h] = limit[h]
    BY <1>1, <1>3
  <2> QED BY <1>2, <2>1 DEF Looked, NothingToTake, Fn
<1>4. pc'[g] = "admitWait" => ~Nil' /\ checkedOut'[NameOf[cfg'[g]]] >= limit'[g]
  BY <1>1, <1>2
<1>5. pc'[g] = "containerWait" => ~Nil' /\ Reclaimable' \subseteq prewarmed'
  BY <1>1, <1>2
<1> QED BY <1>3, <1>4, <1>5 DEF Looked, NothingToTake, Fn

LEMMA QueuesStep ==
    ASSUME PoolInv, Looked, NEW g \in Calls,
           \/ Acquire(g) \/ ColdStart(g) \/ ReplenishLoop(g) \/ ReleaseAny(g)
           \/ CloseInstance(g) \/ Management(g)
    PROVE  Looked'
<1>1. TypeOK /\ ContainerShape /\ CallShape(g) /\ HeldShape(g) /\ Ownership
  BY DEF PoolInv, Ownership
<1>l. /\ Labels \ Queued = Labels \ {"admitWait", "containerWait"}
      /\ \A f \in Functions : checkedOut[f] \in Int
  BY <1>1 DEF Queued, TypeOK
\* A step of the quiet kind.
<1>2. ASSUME NEW l \in Labels \ Queued, pc' = Goto(g, l), \A h \in Calls \ {g} : cfg'[h] = cfg[h],
             limit' = limit, warm' \subseteq warm, prewarmed \subseteq prewarmed', Nil' <=> Nil,
             checkedOut' = checkedOut
      PROVE  Looked'
  BY <1>1, <1>2, <1>l, QueuesKept
\* One that takes a slot.
<1>3. ASSUME NEW l \in Labels \ Queued, pc' = Goto(g, l), \A h \in Calls \ {g} : cfg'[h] = cfg[h],
             limit' = limit, warm' = warm, prewarmed' = prewarmed, Nil' <=> Nil,
             NEW f \in Functions, checkedOut' = [checkedOut EXCEPT ![f] = @ + 1]
      PROVE  Looked'
  <2>1. \A e \in Functions : checkedOut'[e] \in Int /\ checkedOut'[e] >= checkedOut[e]
    BY <1>1, <1>3, <1>l DEF TypeOK
  <2> QED BY <1>1, <1>3, <2>1, QueuesKept
\* One that wakes everybody.
<1>4. ASSUME NEW l \in Labels \ Queued, pc' = Woken(Goto(g, l)) PROVE Looked'
  BY <1>1, <1>4, WokenAtAll, QueuesWoken
<1>5. /\ "over" \in Labels \ Queued /\ "takeWarm" \in Labels \ Queued /\ "running" \in Labels \ Queued
      /\ "container" \in Labels \ Queued /\ "releaseSlot" \in Labels \ Queued
      /\ "start" \in Labels \ Queued /\ "reclaimed" \in Labels \ Queued
      /\ "creating" \in Labels \ Queued /\ "loop" \in Labels \ Queued /\ "mark" \in Labels \ Queued
      /\ "register" \in Labels \ Queued /\ "borrow" \in Labels \ Queued
      /\ "unreserve" \in Labels \ Queued /\ "commit" \in Labels \ Queued
      /\ "replenish" \in Labels \ Queued /\ "spawned" \in Labels \ Queued
      /\ "stopWait" \in Labels \ Queued
  BY DEF Labels, Queued
<1>6. CASE Acquire(g)
  <2>1. ASSUME NEW c \in Configs, AdmitThrottle(g, c) PROVE Looked'
    BY <1>1, <1>2, <1>5, <2>1 DEF AdmitThrottle, Invocation, contVars, TypeOK, Nil
  <2>2. ASSUME NEW c \in Configs, AdmitGrant(g, c) PROVE Looked'
    <3>1. NameOf[c] \in Functions
      BY PoolAssumption
    <3>2. /\ pc' = Goto(g, "takeWarm") /\ \A h \in Calls \ {g} : cfg'[h] = cfg[h]
          /\ limit' = limit /\ warm' = warm /\ prewarmed' = prewarmed /\ Nil' = Nil
          /\ checkedOut' = [checkedOut EXCEPT ![NameOf[c]] = @ + 1]
      BY <1>1, <2>2 DEF AdmitGrant, Invocation, contVars, TypeOK, Nil
    <3> QED BY <1>3, <1>5, <3>1, <3>2
  <2>3. ASSUME NEW c \in Configs, AdmitQueue(g, c) PROVE Looked'
    <3>1. /\ pc' = Goto(g, "admitWait") /\ \A h \in Calls \ {g} : cfg'[h] = cfg[h]
          /\ UNCHANGED <<warm, checkedOut, provInst, prewarmed, stopped>> /\ ~Nil
          /\ cfg'[g] = c /\ ~OverReserved(c)
      BY <1>1, <2>3 DEF AdmitQueue, Invocation, contVars, provVars, TypeOK
    <3>l. PICK n \in Limits(g, c) : ~SlotFree(c, n) /\ limit' = [limit EXCEPT ![g] = n]
      BY <2>3 DEF AdmitQueue
    <3>n. n \in Nat /\ limit'[g] = n /\ \A h \in Calls \ {g} : limit'[h] = limit[h]
      BY <1>1, <3>l, LimitsType DEF TypeOK
    <3>2. checkedOut[NameOf[c]] >= limit'[g]
      <4>1. ~(checkedOut[NameOf[c]] < n)
        BY <3>1, <3>l DEF SlotFree
      <4>2. checkedOut[NameOf[c]] \in Int
        BY <1>l, PoolAssumption
      <4> QED BY <3>n, <4>1, <4>2
    <3>3. "admitWait" \in Queued /\ "admitWait" # "containerWait"
      BY DEF Queued
    <3> QED BY <1>1, <3>1, <3>2, <3>3, <3>n, QueuesJoined
  <2>4. CASE TakeWarm(g)
    <3>1. /\ pc' = Goto(g, "running") \/ pc' = Goto(g, "container")
          /\ warm' \subseteq warm
          /\ UNCHANGED <<checkedOut, cfg, limit, prewarmed, stopped>>
      BY <2>4 DEF TakeWarm, contVars
    <3> QED BY <1>2, <1>5, <3>1 DEF Nil
  <2>5. CASE AcquireStopped(g)
    <3>1. /\ pc' = Goto(g, "container") \/ pc' = Goto(g, "releaseSlot")
          /\ UNCHANGED <<warm, checkedOut, cfg, limit, prewarmed, stopped>>
      BY <2>5 DEF AcquireStopped, contVars
    <3> QED BY <1>2, <1>5, <3>1 DEF Nil
  <2>6. CASE AdmitContainer(g)
    BY <1>2, <1>5, <2>6 DEF AdmitContainer, contVars, Nil
  <2>7. CASE ReclaimIdle(g)
    <3>1. pc' = Goto(g, "reclaimed") /\ warm' \subseteq warm
          /\ UNCHANGED <<checkedOut, cfg, limit, prewarmed, stopped>>
      BY <2>7 DEF ReclaimIdle, contVars
    <3> QED BY <1>2, <1>5, <3>1 DEF Nil
  <2>8. CASE Reclaimed(g)
    BY <1>4, <1>5, <2>8 DEF Reclaimed
  <2>9. CASE ContainerQueue(g)
    <3>1. /\ pc' = Goto(g, "containerWait") /\ ~Nil
          /\ UNCHANGED <<warm, checkedOut, provInst, prewarmed, stopped, cfg, limit>>
      BY <2>9 DEF ContainerQueue, contVars, provVars
    <3>2. Reclaimable = {}
      <4>1. Victims(Fn(g)) = {}
        BY <2>9 DEF ContainerQueue
      <4> QED BY <4>1 DEF Victims
    <3>3. "containerWait" \in Queued /\ "admitWait" # "containerWait"
      BY DEF Queued
    <3> QED BY <1>1, <3>1, <3>2, <3>3, QueuesJoined
  <2>10. CASE WaitTimeout(g)
    <3>1. /\ pc' = Goto(g, "over") \/ pc' = Goto(g, "releaseSlot")
          /\ UNCHANGED <<warm, checkedOut, cfg, limit, prewarmed, stopped>>
      BY <2>10 DEF WaitTimeout, contVars
    <3> QED BY <1>2, <1>5, <3>1 DEF Nil
  <2> QED BY <1>6, <2>1, <2>2, <2>3, <2>4, <2>5, <2>6, <2>7, <2>8, <2>9, <2>10 DEF Acquire
<1>7. CASE ColdStart(g)
  <2>1. CASE BeginColdStart(g)
    BY <1>2, <1>5, <2>1 DEF BeginColdStart, contVars, Nil
  <2>2. CASE FinishColdStart(g)
    <3>1. \E l \in {"unreserve", "commit", "loop", "mark"} : pc' = Goto(g, l)
      BY <2>2 DEF FinishColdStart, FinishAdmitted, FinishReserved
    <3>2. UNCHANGED <<warm, checkedOut, cfg, limit, stopped>> /\ prewarmed \subseteq prewarmed'
      BY <2>2 DEF FinishColdStart, FinishAdmitted, FinishReserved
    <3> QED BY <1>2, <1>5, <3>1, <3>2 DEF Nil
  <2>3. CASE UnreservePendingMem(g)
    <3>1. CASE Nil
      BY <1>2, <1>5, <2>3, <3>1 DEF UnreservePendingMem, contVars, Nil
    <3>2. CASE ~Nil
      BY <1>4, <1>5, <2>3, <3>2 DEF UnreservePendingMem
    <3> QED BY <3>1, <3>2
  <2>4. CASE ReleaseSlot(g)
    BY <1>4, <1>5, <2>4 DEF ReleaseSlot
  <2>5. CASE CommitPendingMem(g)
    BY <1>2, <1>5, <2>5 DEF CommitPendingMem, contVars, Nil
  <2> QED BY <1>7, <2>1, <2>2, <2>3, <2>4, <2>5 DEF ColdStart
<1>8. CASE ReplenishLoop(g)
  <2>1. CASE Replenish(g)
    <3>1. UNCHANGED <<warm, checkedOut, stopped, prewarmed, provInst, limit>>
      BY <2>1 DEF Replenish, contVars, provVars
    <3>2. \A h \in Calls : pc'[h] \in Queued => pc'[h] = pc[h] /\ cfg'[h] = cfg[h]
      <4>1. AfterRelease(g) \in {"loop", "over"}
        BY DEF AfterRelease
      <4>2. CASE pc' = Goto(g, AfterRelease(g)) /\ UNCHANGED cfg
        <5>1. \A h \in Calls : h # g => pc'[h] = pc[h]
          BY <1>1, <4>2 DEF Goto, TypeOK
        <5>2. pc'[g] \notin Queued
          BY <1>1, <4>1, <4>2 DEF Goto, TypeOK, Queued
        <5> QED BY <4>2, <5>1, <5>2
      <4>3. CASE \E h \in Calls : /\ pc' = [pc EXCEPT ![g] = AfterRelease(g), ![h] = "spawned"]
                                  /\ cfg' = [cfg EXCEPT ![h] = provisioned[Fn(g)]]
        <5>1. PICK h \in Calls : /\ pc' = [pc EXCEPT ![g] = AfterRelease(g), ![h] = "spawned"]
                                 /\ cfg' = [cfg EXCEPT ![h] = provisioned[Fn(g)]]
          BY <4>3
        <5>2. \A k \in Calls : k # g /\ k # h => pc'[k] = pc[k] /\ cfg'[k] = cfg[k]
          BY <1>1, <5>1 DEF TypeOK
        <5>3. pc'[g] \notin Queued /\ pc'[h] \notin Queued
          BY <1>1, <4>1, <5>1 DEF TypeOK, Queued
        <5> QED BY <5>2, <5>3
      <4> QED BY <2>1, <4>2, <4>3 DEF Replenish
    <3>3. Reclaimable' = Reclaimable /\ Nil' = Nil
      BY <3>1 DEF Reclaimable, Nil
    <3> QED BY <3>1, <3>2, <3>3 DEF Looked, NothingToTake, Queued, Fn
  <2>2. CASE Spawn(g)
    <3>1. pc' = Goto(g, "loop") \/ pc' = Goto(g, "start")
      BY <2>2 DEF Spawn
    <3> QED BY <1>2, <1>5, <2>2, <3>1 DEF Spawn, contVars, Nil
  <2>3. CASE ReplenishStart(g) \/ ReplenishEnd(g)
    BY <1>2, <1>5, <2>3 DEF ReplenishStart, ReplenishEnd, contVars, Nil
  <2>4. CASE MarkProvisioned(g) \/ RegisterLiveMem(g)
    BY <1>2, <1>5, <2>4 DEF MarkProvisioned, RegisterLiveMem, contVars, Nil
  <2>5. CASE BorrowSlot(g)
    <3>1. Fn(g) \in Functions
      BY <1>1, <2>5, PoolAssumption DEF BorrowSlot, At, CallShape, Fn
    <3>2. CASE Nil
      BY <1>2, <1>5, <2>5, <3>2 DEF BorrowSlot, contVars, Nil
    <3>3. CASE ~Nil
      BY <1>3, <1>5, <2>5, <3>1, <3>3 DEF BorrowSlot, contVars, Nil
    <3> QED BY <3>2, <3>3
  <2> QED BY <1>8, <2>1, <2>2, <2>3, <2>4, <2>5 DEF ReplenishLoop
<1>9. CASE ReleaseAny(g)
  <2>1. PICK usable \in BOOLEAN : Release(g, usable)
    BY <1>9 DEF ReleaseAny
  <2>2. \E l \in {"replenish", "loop", "over"} : pc' = Woken(Goto(g, l))
    BY <2>1 DEF Release, AfterRelease
  <2> QED BY <1>4, <1>5, <2>2
<1>10. CASE CloseInstance(g)
  <2>1. CASE pc' = Woken(pc)
    <3>1. \A h \in Calls : Woken(pc)[h] \notin Queued
      BY <1>1, WokenFacts DEF Queued
    <3> QED BY <1>1, <2>1, <3>1, QueuesWoken
  <2>2. CASE UNCHANGED pc
    <3>1. UNCHANGED <<warm, checkedOut, stopped, cfg, limit, prewarmed>> /\ provInst' \subseteq provInst
      BY <1>10 DEF CloseInstance
    <3>2. Reclaimable' \subseteq Reclaimable \cup prewarmed' /\ Nil' = Nil
      BY <1>1, <3>1 DEF Reclaimable, Nil, ContainerShape
    <3> QED BY <2>2, <3>1, <3>2 DEF Looked, NothingToTake, Fn
  <2> QED BY <1>10, <2>1, <2>2 DEF CloseInstance, ReleaseLiveMem
<1>11. CASE Management(g)
  <2>1. ASSUME NEW c, NEW out, NEW l \in Labels \ Queued, Manage(g, c, out, l)
        PROVE  Looked'
    <3>1. /\ pc' = Goto(g, l) /\ \A h \in Calls \ {g} : cfg'[h] = cfg[h]
          /\ warm' \subseteq warm /\ UNCHANGED <<prewarmed, checkedOut, limit, stopped>>
      BY <1>1, <2>1 DEF Manage, contVars, TypeOK
    <3> QED BY <1>2, <3>1 DEF Nil
  <2>2. CASE \E c \in Configs : ProactiveInit(g, c)
    <3>1. PICK c \in Configs : ProactiveInit(g, c)
      BY <2>2
    <3>2. NameOf[c] \in Functions
      BY PoolAssumption
    <3>3. /\ pc' = Goto(g, "spawned") /\ \A h \in Calls \ {g} : cfg'[h] = cfg[h]
          /\ limit' = limit /\ warm' = warm /\ prewarmed' = prewarmed /\ Nil' = Nil
          /\ checkedOut' = [checkedOut EXCEPT ![NameOf[c]] = @ + 1]
      BY <1>1, <3>1 DEF ProactiveInit, contVars, TypeOK, Nil
    <3> QED BY <1>3, <1>5, <3>2, <3>3
  <2>3. CASE Stop(g)
    BY <1>4, <1>5, <2>3 DEF Stop
  <2>4. CASE StopBegin(g)
    <3>1. Nil' <=> Nil
      BY <2>4 DEF StopBegin, Nil
    <3> QED BY <1>2, <1>5, <2>4, <3>1 DEF StopBegin, contVars
  <2>5. CASE \E f \in Functions : EvictFunction(g, f) \/ ClearProvisionedConcurrency(g, f)
    BY <1>5, <2>1, <2>5 DEF EvictFunction, ClearProvisionedConcurrency
  <2>6. CASE \E c \in Configs : InvalidateFunction(g, c)
    <3>1. PICK c \in Configs : InvalidateFunction(g, c)
      BY <2>6
    <3>2. \E l \in {"over", "replenish"} : Manage(g, c, Stale(c), l)
      BY <3>1 DEF InvalidateFunction
    <3> QED BY <1>5, <2>1, <3>2
  <2>7. CASE \E c \in Configs, n \in Targets : SetProvisionedConcurrency(g, c, n)
    BY <1>5, <2>1, <2>7 DEF SetProvisionedConcurrency
  <2>8. CASE (\E i \in Instances : HandleContainerDied(g, i)) \/ Sweep(g)
    BY <1>5, <2>1, <2>8 DEF HandleContainerDied, Sweep
  <2> QED BY <1>11, <2>2, <2>3, <2>4, <2>5, <2>6, <2>7, <2>8 DEF Management
<1> QED BY <1>6, <1>7, <1>8, <1>9, <1>10, <1>11

\* The same for memory and places: whoever queues for a container does not fit,
\* or a signal is due.
RoomJustified ==
    \A h \in Calls : pc[h] = "containerWait" => ~Fits(cfg[h]) \/ SignalDue

\* A step that gives back neither memory nor a place.
FreesNothing ==
    /\ warm \subseteq warm' /\ reservedMem <= reservedMem'
    /\ \A f \in Functions : checkedOut[f] <= checkedOut'[f]

\* A step that works with call g only.
OthersKept(g) ==
    \A h \in Calls \ {g} : /\ kind'[h] = kind[h] /\ cfg'[h] = cfg[h]
                           /\ inst'[h] = inst[h] /\ drop'[h] = drop[h]

\* What fits after such a step did fit before.
LEMMA FitsLess ==
    ASSUME TypeOK, TypeOK', FreesNothing, NEW c \in Configs, Fits(c)'
    PROVE  Fits(c)
<1>1. /\ Cardinality(warm) <= Cardinality(warm')
      /\ Cardinality(warm) \in Nat /\ Cardinality(warm') \in Nat
  <2>1. IsFiniteSet(warm') /\ warm \in SUBSET warm'
    BY InstancesFinite, FS_Subset DEF TypeOK, FreesNothing
  <2>2. IsFiniteSet(warm) /\ Cardinality(warm) <= Cardinality(warm')
    BY <2>1, FS_Subset
  <2> QED BY <2>1, <2>2, FS_CardinalityType
<1>2. /\ Sum(Functions, checkedOut) <= Sum(Functions, checkedOut')
      /\ Sum(Functions, checkedOut) \in Nat /\ Sum(Functions, checkedOut') \in Nat
  <2>1. IsFiniteSet(Functions)
    BY PoolAssumption
  <2>2. \A f \in Functions : checkedOut[f] \in Nat /\ checkedOut'[f] \in Nat
    BY DEF TypeOK
  <2>3. IsFiniteSet(Units(Functions, checkedOut')) /\ Sum(Functions, checkedOut') \in Nat
    BY <2>1, <2>2, UnitsFinite
  <2>4. Sum(Functions, checkedOut) \in Nat
    BY <2>1, <2>2, UnitsFinite
  <2>5. ASSUME NEW f \in Functions PROVE 1..checkedOut[f] \subseteq 1..checkedOut'[f]
    <3>1. checkedOut[f] <= checkedOut'[f] /\ checkedOut[f] \in Nat /\ checkedOut'[f] \in Nat
      BY <2>2 DEF FreesNothing
    <3> QED BY <3>1
  <2>6. Units(Functions, checkedOut) \in SUBSET Units(Functions, checkedOut')
    BY <2>5 DEF Units
  <2>7. Cardinality(Units(Functions, checkedOut)) <= Cardinality(Units(Functions, checkedOut'))
    BY <2>3, <2>6, FS_Subset
  <2> QED BY <2>3, <2>4, <2>7 DEF Sum
<1>3. /\ TotalLive = Cardinality(warm) + Sum(Functions, checkedOut)
      /\ TotalLive' = Cardinality(warm') + Sum(Functions, checkedOut')
  BY DEF TotalLive, Sum, Units
<1>4. TotalLive' <= MaxInstances /\ MemoryFits(MemoryOf[c])'
  BY DEF Fits
<1>5. TotalLive <= MaxInstances
  <2>1. MaxInstances \in Nat
    BY PoolAssumption
  <2> QED BY <1>1, <1>2, <1>3, <1>4, <2>1
<1>6. MemoryFits(MemoryOf[c])
  <2>1. reservedMem \in Int /\ reservedMem' \in Int /\ reservedMem <= reservedMem'
    BY DEF TypeOK, FreesNothing
  <2>2. MemoryOf[c] \in Nat /\ MaxMemory \in Nat
    BY PoolAssumption
  <2> QED BY <1>4, <2>1, <2>2 DEF MemoryFits
<1> QED BY <1>5, <1>6 DEF Fits

LEMMA RoomKept ==
    ASSUME TypeOK, TypeOK', RoomJustified, FreesNothing, SignalDue => SignalDue',
           \A h \in Calls : pc'[h] = "containerWait" =>
               /\ cfg'[h] = cfg[h] /\ cfg[h] \in Configs
               /\ pc[h] = "containerWait" \/ ~Fits(cfg[h])
    PROVE  RoomJustified'
<1> SUFFICES ASSUME NEW h \in Calls, pc'[h] = "containerWait"
             PROVE  (~Fits(cfg[h]) \/ SignalDue)'
  BY DEF RoomJustified
<1>1. ~Fits(cfg[h]) \/ SignalDue
  BY DEF RoomJustified
<1>2. CASE SignalDue
  BY <1>2
<1>3. CASE ~Fits(cfg[h])
  <2>1. PICK d \in Configs : d = cfg[h] /\ d = cfg'[h]
    OBVIOUS
  <2>2. Fits(d)' => Fits(d)
    BY FitsLess
  <2>3. ~Fits(d)'
    BY <1>3, <2>1, <2>2
  <2>4. Fits(cfg[h])' <=> Fits(d)'
    BY <2>1 DEF Fits, MemoryFits
  <2> QED BY <2>3, <2>4
<1> QED BY <1>1, <1>2, <1>3

\* Only an invocation that ends takes its signal with it.
LEMMA SignalStays ==
    ASSUME Ownership, NEW g \in Calls, drop[g] = {}, pc[g] # "running", OthersKept(g),
           booked \subseteq booked', prewarmed \subseteq prewarmed', SignalDue
    PROVE  SignalDue'
<1>1. PICK h \in Calls : \/ drop[h] \cap booked # {}
                         \/ kind[h] = "invoke" /\ inst[h] \in prewarmed
  BY DEF SignalDue
<1>2. h # g
  <2>1. CallShape(g) /\ HeldShape(g) /\ prewarmed \subseteq Instances
    BY DEF Ownership, TypeOK
  <2>2. ~(kind[g] = "invoke" /\ inst[g] \in prewarmed)
    BY <2>1, PoolAssumption DEF CallShape, HeldShape
  <2> QED BY <1>1, <2>2
<1>3. kind'[h] = kind[h] /\ inst'[h] = inst[h] /\ drop'[h] = drop[h]
  BY <1>2 DEF OthersKept
<1> QED BY <1>1, <1>3 DEF SignalDue

\* A step of a call that frees nothing and queues only if it does not fit.
LEMMA RoomGoto ==
    ASSUME Ownership, TypeOK', RoomJustified, NEW g \in Calls, NEW l \in Labels, pc' = Goto(g, l),
           drop[g] = {}, pc[g] # "running", OthersKept(g), FreesNothing,
           booked \subseteq booked', prewarmed \subseteq prewarmed',
           l = "containerWait" => cfg'[g] = cfg[g] /\ cfg[g] \in Configs /\ ~Fits(cfg[g])
    PROVE  RoomJustified'
<1>1. TypeOK
  BY DEF Ownership
<1>2. Goto(g, l)[g] = l /\ \A h \in Calls : h # g => Goto(g, l)[h] = pc[h]
  BY <1>1, GotoWaitFacts
<1>3. ASSUME NEW h \in Calls, pc'[h] = "containerWait"
      PROVE  /\ cfg'[h] = cfg[h] /\ cfg[h] \in Configs
             /\ pc[h] = "containerWait" \/ ~Fits(cfg[h])
  <2>1. CASE h = g
    BY <1>2, <1>3, <2>1
  <2>2. CASE h # g
    <3>1. pc[h] = "containerWait" /\ cfg'[h] = cfg[h]
      BY <1>2, <1>3, <2>2 DEF OthersKept
    <3>2. cfg[h] \in Configs
      BY <3>1, QueuedCalls DEF Queued
    <3> QED BY <3>1, <3>2
  <2> QED BY <2>1, <2>2
<1>4. SignalDue => SignalDue'
  BY SignalStays
<1> QED BY <1>1, <1>3, <1>4, RoomKept

\* A call takes containers out of the warm set, to close them.
LEMMA RoomSignalled ==
    ASSUME Ownership, UsedIsBooked, NEW g \in Calls, booked \subseteq booked',
           drop'[g] \cap warm # {}
    PROVE  RoomJustified'
<1>1. PICK i \in warm : i \in drop'[g]
  OBVIOUS
<1>2. i \in booked
  BY <1>1 DEF Ownership, NothingWarmIsDeleted, UsedIsBooked
<1>3. SignalDue'
  BY <1>1, <1>2 DEF SignalDue
<1> QED BY <1>3 DEF RoomJustified

LEMMA RoomStep ==
    ASSUME PoolInv, PoolInv', Looked, RoomJustified, UsedIsBooked, NEW g \in Calls,
           \/ Acquire(g) \/ ColdStart(g) \/ ReplenishLoop(g) \/ ReleaseAny(g)
           \/ CloseInstance(g) \/ Management(g)
    PROVE  RoomJustified'
<1>1. TypeOK /\ TypeOK' /\ CallShape(g) /\ Ownership
  BY DEF PoolInv, Ownership
<1>n. reservedMem \in Int /\ reservedMem' \in Int /\ \A f \in Functions : checkedOut[f] \in Int
  BY <1>1 DEF TypeOK
<1> DEFINE Free == drop[g] = {} /\ pc[g] # "running" /\ OthersKept(g)
           Plain == UNCHANGED <<warm, checkedOut, reservedMem>>
           More == booked \subseteq booked' /\ prewarmed \subseteq prewarmed'
           Ahead(l) == l \in Labels \ {"containerWait"} /\ pc' = Goto(g, l)
\* A step of the quiet kind.
<1>2. ASSUME NEW l, Ahead(l), Free, Plain, More PROVE RoomJustified'
  <2>1. FreesNothing
    BY <1>2, <1>n DEF FreesNothing
  <2>2. l \in Labels /\ l # "containerWait" /\ pc' = Goto(g, l)
    BY <1>2
  <2>3. drop[g] = {} /\ pc[g] # "running" /\ OthersKept(g)
    BY <1>2
  <2>4. booked \subseteq booked' /\ prewarmed \subseteq prewarmed'
    BY <1>2
  <2> HIDE DEF Ahead, Free, Plain, More
  <2> QED BY <1>1, <2>1, <2>2, <2>3, <2>4, RoomGoto
\* One that wakes everybody.
<1>3. ASSUME NEW l \in Labels \ Queued, pc' = Woken(Goto(g, l)) PROVE RoomJustified'
  <2>1. \A h \in Calls : pc'[h] \notin Queued
    BY <1>1, <1>3, WokenAtAll DEF Queued
  <2> QED BY <2>1 DEF RoomJustified, Queued
\* One that takes memory or a slot.
<1>4. ASSUME NEW l, Ahead(l), Free, More, UNCHANGED warm,
             NEW m \in Nat, reservedMem' = reservedMem + m,
             \/ checkedOut' = checkedOut
             \/ \E f \in Functions : checkedOut' = [checkedOut EXCEPT ![f] = @ + 1]
      PROVE  RoomJustified'
  <2>1. \A f \in Functions : checkedOut[f] <= checkedOut'[f]
    BY <1>1, <1>4, <1>n DEF TypeOK
  <2>2. FreesNothing
    BY <1>4, <1>n, <2>1 DEF FreesNothing
  <2>3. l \in Labels /\ l # "containerWait" /\ pc' = Goto(g, l)
    BY <1>4
  <2>4. drop[g] = {} /\ pc[g] # "running" /\ OthersKept(g)
    BY <1>4
  <2>5. booked \subseteq booked' /\ prewarmed \subseteq prewarmed'
    BY <1>4
  <2> HIDE DEF Ahead, Free, Plain, More
  <2> QED BY <1>1, <2>2, <2>3, <2>4, <2>5, RoomGoto
<1>6. CASE Acquire(g)
  <2>1. ASSUME NEW c \in Configs, AdmitThrottle(g, c) \/ AdmitQueue(g, c) PROVE RoomJustified'
    <3>1. Plain /\ More
      BY <2>1 DEF AdmitThrottle, AdmitQueue, bookVars, contVars
    <3>2. Free
      BY <1>1, <2>1 DEF AdmitThrottle, AdmitQueue, Admitting, FreshCall, At, Invocation, OthersKept,
                        CallShape, TypeOK
    <3>3. Ahead("over") \/ Ahead("admitWait")
      BY <2>1 DEF AdmitThrottle, AdmitQueue, Labels
    <3> HIDE DEF Plain, More, Free, Ahead
    <3> QED BY <1>2, <3>1, <3>2, <3>3
  <2>2. ASSUME NEW c \in Configs, AdmitGrant(g, c) PROVE RoomJustified'
    <3>1. More /\ UNCHANGED <<warm, reservedMem>>
          /\ checkedOut' = [checkedOut EXCEPT ![NameOf[c]] = @ + 1]
      BY <2>2 DEF AdmitGrant, bookVars, contVars
    <3>2. Free
      BY <1>1, <2>2 DEF AdmitGrant, Admitting, FreshCall, At, Invocation, OthersKept, CallShape, TypeOK
    <3>3. Ahead("takeWarm")
      BY <2>2 DEF AdmitGrant, Labels
    <3>4. NameOf[c] \in Functions /\ reservedMem' = reservedMem + 0
      BY <1>n, <3>1, PoolAssumption
    <3> HIDE DEF Plain, More, Free, Ahead
    <3> QED BY <1>4, <3>1, <3>2, <3>3, <3>4
  <2>3. CASE TakeWarm(g)
    <3>1. /\ pc[g] = "takeWarm" /\ drop[g] = {} /\ ~Nil /\ OthersKept(g)
          /\ drop'[g] = Stale(cfg[g]) /\ UNCHANGED <<checkedOut, bookVars, contVars, kind>>
      BY <1>1, <2>3 DEF TakeWarm, At, OthersKept, TypeOK
    <3>2. CASE Stale(cfg[g]) # {}
      <4>1. Stale(cfg[g]) \subseteq warm
        BY DEF Stale, WarmOf
      <4> QED BY <1>1, <3>1, <3>2, <4>1, RoomSignalled DEF bookVars
    <3>3. ASSUME NEW i \in warm, inst'[g] = i, pc' = Goto(g, "running") PROVE RoomJustified'
      <4>1. i \in prewarmed => SignalDue'
        BY <1>1, <3>1, <3>3 DEF SignalDue, CallShape, contVars
      <4>2. ASSUME NEW h \in Calls, pc'[h] = "containerWait" PROVE i \in prewarmed
        <5>1. pc[h] = "containerWait"
          BY <1>1, <3>3, <4>2 DEF TypeOK, Goto
        <5>2. Reclaimable \subseteq prewarmed
          BY <5>1 DEF Looked, NothingToTake
        <5> QED BY <1>1, <5>2 DEF Reclaimable, Ownership, ContainerShape
      <4> QED BY <4>1, <4>2 DEF RoomJustified
    <3>4. CASE Stale(cfg[g]) = {} /\ warm' = warm \ Stale(cfg[g]) /\ pc' = Goto(g, "container")
      <4>1. Plain /\ More /\ Free
        BY <3>1, <3>4 DEF bookVars, contVars
      <4>2. Ahead("container")
        BY <3>4 DEF Labels
      <4> HIDE DEF Plain, More, Free, Ahead
      <4> QED BY <1>2, <4>1, <4>2
    <3> QED BY <1>1, <2>3, <3>2, <3>3, <3>4 DEF TakeWarm, WarmOf, TypeOK
  <2>4. CASE AcquireStopped(g) \/ WaitTimeout(g)
    <3>1. Plain /\ More
      BY <2>4 DEF AcquireStopped, WaitTimeout, bookVars, contVars
    <3>2. Free
      BY <2>4 DEF AcquireStopped, WaitTimeout, At, OthersKept
    <3>3. Ahead("container") \/ Ahead("releaseSlot") \/ Ahead("over")
      BY <2>4 DEF AcquireStopped, WaitTimeout, Labels
    <3> HIDE DEF Plain, More, Free, Ahead
    <3> QED BY <1>2, <3>1, <3>2, <3>3
  <2>5. CASE AdmitContainer(g)
    <3>1. More /\ UNCHANGED <<warm, checkedOut>> /\ reservedMem' = reservedMem + MemoryOf[cfg[g]]
      BY <2>5 DEF AdmitContainer, contVars
    <3>2. Free /\ MemoryOf[cfg[g]] \in Nat
      BY <1>1, <2>5, PoolAssumption DEF AdmitContainer, At, OthersKept, CallShape, Admitted
    <3>3. Ahead("start")
      BY <2>5 DEF AdmitContainer, Labels
    <3> HIDE DEF Plain, More, Free, Ahead
    <3> QED BY <1>4, <3>1, <3>2, <3>3
  <2>6. CASE ReclaimIdle(g)
    <3>1. PICK i \in Victims(Fn(g)) : drop' = [drop EXCEPT ![g] = {i}]
      BY <2>6 DEF ReclaimIdle
    <3>2. i \in warm /\ drop'[g] = {i} /\ booked' = booked
      BY <1>1, <2>6, <3>1 DEF ReclaimIdle, Victims, Reclaimable, bookVars, TypeOK
    <3> QED BY <1>1, <3>2, RoomSignalled
  <2>7. CASE Reclaimed(g)
    <3>1. pc' = Woken(Goto(g, "container")) /\ "container" \in Labels \ Queued
      BY <2>7 DEF Reclaimed, Labels, Queued
    <3> QED BY <1>3, <3>1
  <2>8. CASE ContainerQueue(g)
    <3>1. Plain /\ More
      BY <2>8 DEF ContainerQueue, bookVars, contVars
    <3>2. Free /\ cfg'[g] = cfg[g] /\ cfg[g] \in Configs
      BY <1>1, <2>8 DEF ContainerQueue, At, OthersKept, CallShape, Admitted
    <3>3. "containerWait" \in Labels /\ pc' = Goto(g, "containerWait") /\ ~Fits(cfg[g])
      BY <2>8 DEF ContainerQueue, Labels
    <3>4. FreesNothing
      BY <1>n, <3>1 DEF FreesNothing
    <3> QED BY <1>1, <3>1, <3>2, <3>3, <3>4, RoomGoto
  <2> QED BY <1>6, <2>1, <2>2, <2>3, <2>4, <2>5, <2>6, <2>7, <2>8 DEF Acquire
<1>7. CASE ColdStart(g)
  <2>1. CASE BeginColdStart(g) \/ FinishColdStart(g) \/ CommitPendingMem(g)
    <3>1. Plain /\ More
      BY <2>1 DEF BeginColdStart, FinishColdStart, FinishAdmitted, FinishReserved, CommitPendingMem,
                  bookVars, contVars
    <3>2. Free
      BY <1>1, <2>1 DEF BeginColdStart, FinishColdStart, FinishAdmitted, FinishReserved,
                        CommitPendingMem, At, OthersKept, TypeOK
    <3>3. Ahead("creating") \/ Ahead("unreserve") \/ Ahead("commit") \/ Ahead("loop")
             \/ Ahead("mark") \/ Ahead("running")
      BY <2>1 DEF BeginColdStart, FinishColdStart, FinishAdmitted, FinishReserved, CommitPendingMem,
                  Labels
    <3> HIDE DEF Plain, More, Free, Ahead
    <3> QED BY <1>2, <3>1, <3>2, <3>3
  <2>2. CASE UnreservePendingMem(g)
    <3>1. "releaseSlot" \in Labels \ Queued
      BY DEF Labels, Queued
    <3>2. CASE ~Nil
      BY <1>3, <2>2, <3>1, <3>2 DEF UnreservePendingMem
    <3>3. CASE Nil
      <4>1. Plain /\ More
        BY <2>2, <3>3 DEF UnreservePendingMem, contVars
      <4>2. Free
        BY <2>2 DEF UnreservePendingMem, At, OthersKept
      <4>3. Ahead("releaseSlot")
        BY <2>2, <3>3 DEF UnreservePendingMem, Labels
      <4> HIDE DEF Plain, More, Free, Ahead
      <4> QED BY <1>2, <4>1, <4>2, <4>3
    <3> QED BY <3>2, <3>3
  <2>3. CASE ReleaseSlot(g)
    <3>1. pc' = Woken(Goto(g, "over")) /\ "over" \in Labels \ Queued
      BY <2>3 DEF ReleaseSlot, Labels, Queued
    <3> QED BY <1>3, <3>1
  <2> QED BY <1>7, <2>1, <2>2, <2>3 DEF ColdStart
<1>8. CASE ReplenishLoop(g)
  <2>1. CASE Replenish(g)
    <3>1. UNCHANGED <<warm, checkedOut, reservedMem, booked, prewarmed, inst, drop>>
      BY <2>1 DEF Replenish, bookVars, contVars
    <3>2. AfterRelease(g) \in {"loop", "over"}
      BY DEF AfterRelease
    <3>3. ASSUME NEW h \in Calls
          PROVE  /\ pc'[h] = "containerWait" => pc[h] = "containerWait" /\ cfg'[h] = cfg[h]
                 /\ kind[h] = "invoke" => kind'[h] = "invoke"
      <4>1. CASE pc' = Goto(g, AfterRelease(g)) /\ UNCHANGED <<kind, cfg>>
        BY <1>1, <3>2, <4>1 DEF Goto, TypeOK
      <4>2. ASSUME NEW k \in Calls, FreshCall(k),
                   pc' = [pc EXCEPT ![g] = AfterRelease(g), ![k] = "spawned"],
                   kind' = [kind EXCEPT ![k] = "replenish"],
                   cfg' = [cfg EXCEPT ![k] = provisioned[Fn(g)]]
            PROVE  /\ pc'[h] = "containerWait" => pc[h] = "containerWait" /\ cfg'[h] = cfg[h]
                   /\ kind[h] = "invoke" => kind'[h] = "invoke"
        <5>1. kind[k] = "none"
          BY <1>1, <4>2 DEF FreshCall, Ownership, CallShape
        <5> QED BY <1>1, <3>2, <4>2, <5>1 DEF TypeOK
      <4> QED BY <2>1, <4>1, <4>2 DEF Replenish
    <3>4. SignalDue => SignalDue'
      BY <3>1, <3>3 DEF SignalDue
    <3>5. FreesNothing
      BY <1>n, <3>1 DEF FreesNothing
    <3>6. \A h \in Calls : pc[h] = "containerWait" => cfg[h] \in Configs
      BY <1>1, QueuedCalls DEF Queued
    <3> QED BY <1>1, <3>3, <3>4, <3>5, <3>6, RoomKept
  <2>2. CASE Spawn(g) \/ ReplenishStart(g) \/ ReplenishEnd(g) \/ MarkProvisioned(g)
    <3>1. Plain /\ More
      BY <2>2 DEF Spawn, ReplenishStart, ReplenishEnd, MarkProvisioned, bookVars, contVars
    <3>2. Free
      BY <2>2 DEF Spawn, ReplenishStart, ReplenishEnd, MarkProvisioned, At, OthersKept
    <3>3. Ahead("loop") \/ Ahead("start") \/ Ahead("creating") \/ Ahead("over") \/ Ahead("register")
      BY <2>2 DEF Spawn, ReplenishStart, ReplenishEnd, MarkProvisioned, Labels
    <3> HIDE DEF Plain, More, Free, Ahead
    <3> QED BY <1>2, <3>1, <3>2, <3>3
  <2>3. CASE RegisterLiveMem(g)
    <3>1. /\ More /\ UNCHANGED <<warm, checkedOut>>
          /\ reservedMem' = reservedMem \/ reservedMem' = reservedMem + MemoryOf[cfg[g]]
      BY <2>3 DEF RegisterLiveMem, contVars
    <3>2. Free /\ MemoryOf[cfg[g]] \in Nat
      BY <1>1, <2>3, PoolAssumption DEF RegisterLiveMem, At, OthersKept, CallShape
    <3>3. Ahead("borrow")
      BY <2>3 DEF RegisterLiveMem, Labels
    <3>4. \E m \in Nat : reservedMem' = reservedMem + m
      <4>1. reservedMem = reservedMem + 0 /\ 0 \in Nat
        BY <1>n
      <4>2. reservedMem' = reservedMem \/ reservedMem' = reservedMem + MemoryOf[cfg[g]]
        BY <3>1
      <4>3. MemoryOf[cfg[g]] \in Nat
        BY <3>2
      <4> HIDE DEF Plain, More, Free, Ahead
      <4> QED BY <4>1, <4>2, <4>3
    <3> HIDE DEF Plain, More, Free, Ahead
    <3> QED BY <1>4, <3>1, <3>2, <3>3, <3>4
  <2>4. CASE BorrowSlot(g)
    <3>1. /\ More /\ UNCHANGED <<warm, reservedMem>>
          /\ checkedOut' = checkedOut \/ checkedOut' = [checkedOut EXCEPT ![Fn(g)] = @ + 1]
      BY <2>4 DEF BorrowSlot, bookVars, contVars
    <3>2. Free /\ Fn(g) \in Functions /\ reservedMem' = reservedMem + 0
      BY <1>1, <1>n, <2>4, PoolAssumption DEF BorrowSlot, bookVars, At, OthersKept, CallShape, Fn
    <3>3. Ahead("running")
      BY <2>4 DEF BorrowSlot, Labels
    <3> HIDE DEF Plain, More, Free, Ahead
    <3> QED BY <1>4, <3>1, <3>2, <3>3
  <2> QED BY <1>8, <2>1, <2>2, <2>3, <2>4 DEF ReplenishLoop
<1>9. CASE ReleaseAny(g)
  <2>1. \E l \in {"replenish", "loop", "over"} : pc' = Woken(Goto(g, l))
    BY <1>9 DEF ReleaseAny, Release, AfterRelease
  <2>2. {"replenish", "loop", "over"} \subseteq Labels \ Queued
    BY DEF Labels, Queued
  <2> QED BY <1>3, <2>1, <2>2
<1>10. CASE CloseInstance(g)
  <2>1. PICK i \in drop[g] : ReleaseLiveMem(i) /\ drop' = [drop EXCEPT ![g] = @ \ {i}]
    BY <1>10 DEF CloseInstance
  <2>2. CASE i \in booked
    <3>1. \A h \in Calls : pc'[h] \notin Queued
      BY <1>1, <2>1, <2>2, WokenFacts DEF ReleaseLiveMem, Queued
    <3> QED BY <3>1 DEF RoomJustified, Queued
  <2>3. CASE i \notin booked
    <3>1. UNCHANGED <<booked, reservedMem, pc, warm, checkedOut, cfg, kind, inst, prewarmed>>
      BY <1>10, <2>1, <2>3 DEF CloseInstance, ReleaseLiveMem
    <3>2. \A h \in Calls : drop'[h] \cap booked = drop[h] \cap booked
      BY <1>1, <2>1, <2>3 DEF TypeOK
    <3>3. SignalDue => SignalDue'
      BY <3>1, <3>2 DEF SignalDue
    <3>4. FreesNothing
      BY <1>n, <3>1 DEF FreesNothing
    <3>5. \A h \in Calls : pc[h] = "containerWait" => cfg[h] \in Configs
      BY <1>1, QueuedCalls DEF Queued
    <3> QED BY <1>1, <3>1, <3>3, <3>4, <3>5, RoomKept
  <2> QED BY <2>2, <2>3
<1>11. CASE Management(g)
  <2>1. ASSUME NEW c, NEW out, out \subseteq warm, NEW l \in {"over", "replenish"},
               Manage(g, c, out, l)
        PROVE  RoomJustified'
    <3>1. /\ pc[g] = "unused" /\ drop[g] = {} /\ OthersKept(g) /\ drop'[g] = out
          /\ warm' = warm \ out /\ UNCHANGED <<checkedOut, bookVars, contVars>>
      BY <1>1, <2>1 DEF Manage, FreshCall, OthersKept, CallShape, TypeOK
    <3>2. CASE out = {}
      <4>1. Plain /\ More /\ Free
        BY <3>1, <3>2 DEF bookVars, contVars
      <4>2. Ahead(l)
        BY <2>1 DEF Manage, Labels
      <4> HIDE DEF Plain, More, Free, Ahead
      <4> QED BY <1>2, <4>1, <4>2
    <3>3. CASE out # {}
      BY <1>1, <2>1, <3>1, <3>3, RoomSignalled DEF bookVars
    <3> QED BY <3>2, <3>3
  <2>2. CASE \E f \in Functions : EvictFunction(g, f) \/ ClearProvisionedConcurrency(g, f)
    <3>1. \A f \in Functions : WarmOf(f) \subseteq warm
      BY DEF WarmOf
    <3> QED BY <2>1, <2>2, <3>1 DEF EvictFunction, ClearProvisionedConcurrency
  <2>3. CASE \E c \in Configs : InvalidateFunction(g, c)
    <3>1. PICK c \in Configs : InvalidateFunction(g, c)
      BY <2>3
    <3>2. \E l \in {"over", "replenish"} : Manage(g, c, Stale(c), l)
      BY <3>1 DEF InvalidateFunction
    <3>3. Stale(c) \subseteq warm
      BY DEF Stale, WarmOf
    <3> QED BY <2>1, <3>2, <3>3
  <2>4. CASE \E c \in Configs, n \in Targets : SetProvisionedConcurrency(g, c, n)
    BY <2>1, <2>4 DEF SetProvisionedConcurrency
  <2>5. CASE \E i \in Instances : HandleContainerDied(g, i)
    BY <2>1, <2>5 DEF HandleContainerDied
  <2>6. CASE Sweep(g)
    BY <2>1, <2>6 DEF Sweep, Reclaimable
  <2>7. CASE \E c \in Configs : ProactiveInit(g, c)
    <3>1. PICK c \in Configs : ProactiveInit(g, c)
      BY <2>7
    <3>2. /\ More /\ UNCHANGED warm /\ reservedMem' = reservedMem + MemoryOf[c]
          /\ checkedOut' = [checkedOut EXCEPT ![NameOf[c]] = @ + 1]
      BY <3>1 DEF ProactiveInit, contVars
    <3>3. Free
      BY <1>1, <3>1 DEF ProactiveInit, FreshCall, OthersKept, CallShape, TypeOK
    <3>4. Ahead("spawned") /\ NameOf[c] \in Functions /\ MemoryOf[c] \in Nat
      BY <3>1, PoolAssumption DEF ProactiveInit, Labels
    <3> HIDE DEF Plain, More, Free, Ahead
    <3> QED BY <1>4, <3>2, <3>3, <3>4
  <2>8. CASE StopBegin(g)
    <3>1. Plain /\ More
      BY <2>8 DEF StopBegin, bookVars, contVars
    <3>2. Free
      BY <1>1, <2>8 DEF StopBegin, FreshCall, OthersKept, CallShape, TypeOK
    <3>3. Ahead("stopWait")
      BY <2>8 DEF StopBegin, Labels
    <3> HIDE DEF Plain, More, Free, Ahead
    <3> QED BY <1>2, <3>1, <3>2, <3>3
  <2>9. CASE Stop(g)
    <3>1. pc' = Woken(Goto(g, "over")) /\ "over" \in Labels \ Queued
      BY <2>9 DEF Stop, Labels, Queued
    <3> QED BY <1>3, <3>1
  <2> QED BY <1>11, <2>2, <2>3, <2>4, <2>5, <2>6, <2>7, <2>8, <2>9 DEF Management
<1> QED BY <1>6, <1>7, <1>8, <1>9, <1>10, <1>11

\* A call queued in waitForSlot has nothing it could take: every step that gives
\* back a slot, a place or memory, or lets an instance be reclaimed, wakes the
\* queue in the same critical section, or somebody is about to: a call with a
\* container to close, or an invocation in a container of a reservation.
THEOREM NoWakeupIsLost == Spec => []QueuesJustified
<1> DEFINE Inv == Looked /\ RoomJustified /\ UsedIsBooked
<1>1. Init => Inv
  BY DEF Init, Looked, NothingToTake, RoomJustified, UsedIsBooked
<1>2. PoolInv /\ PoolInv' /\ Inv /\ [Next]_vars => Inv'
  <2>1. ASSUME PoolInv, PoolInv', Inv, Next PROVE Inv'
    <3>1. PICK g \in Calls : \/ Acquire(g) \/ ColdStart(g) \/ ReplenishLoop(g) \/ ReleaseAny(g)
                             \/ CloseInstance(g) \/ Management(g)
      BY <2>1 DEF Next
    <3>2. Looked'
      BY <2>1, <3>1, QueuesStep
    <3>3. RoomJustified'
      BY <2>1, <3>1, RoomStep
    <3>4. UsedIsBooked'
      BY <2>1, <3>1, UsedStep
    <3> QED BY <3>2, <3>3, <3>4
  <2>2. ASSUME Inv, UNCHANGED vars PROVE Inv'
    <3>1. Looked'
      BY <2>2 DEF Looked, NothingToTake, vars, provVars, callVars, contVars, Nil, Reclaimable, Fn
    <3>2. RoomJustified'
      BY <2>2 DEF RoomJustified, SignalDue, Fits, TotalLive, MemoryFits, vars, bookVars, callVars,
                  contVars
    <3>3. UsedIsBooked'
      BY <2>2 DEF UsedIsBooked, vars, callVars, bookVars, Nil
    <3> QED BY <3>1, <3>2, <3>3
  <2> QED BY <2>1, <2>2
<1>3. Inv => QueuesJustified
  BY DEF Looked, RoomJustified, QueuesJustified
<1> QED BY InvariantHolds, <1>1, <1>2, <1>3, PTL DEF Spec

-----------------------------------------------------------------------------
(* The limits on slots and on containers.  Most steps take neither. *)

SlotLabels == {"takeWarm", "container", "reclaimed", "containerWait", "spawned", "start",
               "creating", "unreserve", "releaseSlot", "commit", "running"}
StartLabels == {"spawned", "start", "creating"}

\* Call h has no slot of an admitted call that it did not have before, and no
\* start.
KeepsSlot(h) ==
    h \in SlotHolders' /\ Admitted(h)' => h \in SlotHolders /\ Admitted(h) /\ cfg'[h] = cfg[h]
KeepsStart(h) ==
    h \in PendingCalls' /\ inst'[h] = None => h \in PendingCalls /\ inst[h] = None

NoSlotTaken == \A h \in Calls : KeepsSlot(h)
NothingStarted ==
    /\ \A h \in Calls : KeepsStart(h)
    /\ OnDemand' \subseteq OnDemand /\ (Nil => Nil')

\* What shows it of a step of call g to label l.
TakesNoSlot(g, l) ==
    \/ l \notin SlotLabels
    \/ kind'[g] = "replenish"
    \/ pc[g] \in SlotLabels /\ kind'[g] = kind[g] /\ cfg'[g] = cfg[g]
StartsNothing(g, l) ==
    \/ l \notin StartLabels \cup {"unreserve", "commit"}
    \/ kind'[g] = "replenish"
    \/ pc[g] \in StartLabels /\ kind'[g] = kind[g]

LEMMA BystanderKeeps ==
    ASSUME NEW h \in Calls, SameCall(h)
    PROVE  KeepsSlot(h) /\ KeepsStart(h)
BY Bystander DEF SameCall, KeepsSlot, KeepsStart, Admitted

\* Nothing comes up, and at most the container of call g changes hands.
LEMMA OnDemandKept ==
    ASSUME TypeOK, NEW g \in Calls, UNCHANGED <<made, prewarmed>>, closed \subseteq closed',
           warm' \subseteq warm \cup ({inst[g]} \ {None}),
           \A h \in Calls \ {g} : inst'[h] = inst[h],
           inst'[g] \in warm \cup {None, inst[g]}
    PROVE  OnDemand' \subseteq OnDemand
<1> SUFFICES ASSUME NEW i \in OnDemand' PROVE i \in OnDemand
  OBVIOUS
<1>1. i \in Instances /\ i # None
  BY PoolAssumption DEF OnDemand, Live
<1>2. i \in Live \ prewarmed
  BY DEF OnDemand, Live
<1>3. i \in warm' \/ \E h \in Calls : inst'[h] = i
  BY DEF OnDemand
<1>4. i \in warm \/ \E h \in Calls : inst[h] = i
  BY <1>1, <1>3
<1> QED BY <1>2, <1>4 DEF OnDemand

\* And it does.
LEMMA SteadyStep ==
    ASSUME PoolInv, PoolInv', NEW g \in Calls, NEW l \in Labels,
           \/ pc' = Goto(g, l)
           \/ pc' = Woken(Goto(g, l)) /\ l \notin {"admitWait", "containerWait"},
           \A h \in Calls \ {g} : /\ kind'[h] = kind[h] /\ cfg'[h] = cfg[h]
                                  /\ inst'[h] = inst[h] /\ drop'[h] = drop[h] /\ left'[h] = left[h]
    PROVE  /\ TakesNoSlot(g, l) => NoSlotTaken
           /\ StartsNothing(g, l) => \A h \in Calls : KeepsStart(h)
<1>1. TypeOK /\ CallShape(g) /\ CallShape(g)'
  BY DEF PoolInv, Ownership
<1>2. pc'[g] = l /\ \A h \in Calls \ {g} : SameCall(h)
  BY <1>1, OthersSame
<1>3. \A h \in Calls \ {g} : KeepsSlot(h) /\ KeepsStart(h)
  BY <1>2, BystanderKeeps
<1>4. ASSUME TakesNoSlot(g, l) PROVE KeepsSlot(g)
  <2>1. CASE l \notin SlotLabels
    BY <1>2, <2>1 DEF KeepsSlot, SlotHolders, SlotLabels
  <2>2. CASE kind'[g] = "replenish"
    BY <2>2 DEF KeepsSlot, Admitted
  <2>3. CASE pc[g] \in SlotLabels /\ kind'[g] = kind[g] /\ cfg'[g] = cfg[g]
    BY <1>1, <2>3 DEF KeepsSlot, SlotHolders, SlotLabels, Admitted, CallShape
  <2> QED BY <1>4, <2>1, <2>2, <2>3 DEF TakesNoSlot
<1>5. ASSUME StartsNothing(g, l) PROVE KeepsStart(g)
  <2>1. CASE l \notin StartLabels \cup {"unreserve", "commit"}
    BY <1>2, <2>1 DEF KeepsStart, PendingCalls, StartLabels
  <2>2. CASE kind'[g] = "replenish"
    BY <2>2 DEF KeepsStart, PendingCalls, Admitted
  <2>3. CASE pc[g] \in StartLabels /\ kind'[g] = kind[g]
    BY <1>1, <2>3 DEF KeepsStart, PendingCalls, StartLabels, Admitted, CallShape
  <2> QED BY <1>5, <2>1, <2>2, <2>3 DEF StartsNothing
<1> QED BY <1>3, <1>4, <1>5 DEF NoSlotTaken

\* The steps that do neither, and those that do only one of the two.
LEMMA SteadySteps ==
    ASSUME PoolInv, PoolInv', NEW g \in Calls,
           \/ Acquire(g) \/ ColdStart(g) \/ ReplenishLoop(g) \/ ReleaseAny(g)
           \/ CloseInstance(g) \/ Management(g)
    PROVE  /\ \/ NoSlotTaken
              \/ \E c \in Configs : AdmitGrant(g, c) \/ ProactiveInit(g, c)
           /\ \/ NothingStarted
              \/ AdmitContainer(g) \/ FinishColdStart(g)
              \/ \E c \in Configs : ProactiveInit(g, c)
<1>1. TypeOK /\ ContainerShape /\ CallShape(g) /\ HeldShape(g)
  BY DEF PoolInv, Ownership
\* A step of call g, at most of its own container and its own snapshot.
<1>2. ASSUME NEW l \in Labels,
             \/ pc' = Goto(g, l)
             \/ pc' = Woken(Goto(g, l)) /\ l \notin {"admitWait", "containerWait"},
             \A h \in Calls \ {g} : /\ kind'[h] = kind[h] /\ cfg'[h] = cfg[h]
                                    /\ inst'[h] = inst[h] /\ drop'[h] = drop[h] /\ left'[h] = left[h],
             UNCHANGED <<made, prewarmed>>, closed \subseteq closed', Nil => Nil',
             warm' \subseteq warm \cup ({inst[g]} \ {None}),
             inst'[g] \in warm \cup {None, inst[g]}
      PROVE  /\ TakesNoSlot(g, l) => NoSlotTaken
             /\ StartsNothing(g, l) => NothingStarted
  <2>1. OnDemand' \subseteq OnDemand
    BY <1>1, <1>2, OnDemandKept
  <2>2. /\ TakesNoSlot(g, l) => NoSlotTaken
        /\ StartsNothing(g, l) => \A h \in Calls : KeepsStart(h)
    BY <1>2, SteadyStep
  <2> QED BY <1>2, <2>1, <2>2 DEF NothingStarted
\* One that leaves the containers alone.
<1>3. ASSUME NEW l \in Labels, pc' = Goto(g, l),
             \A h \in Calls \ {g} : /\ kind'[h] = kind[h] /\ cfg'[h] = cfg[h]
                                    /\ inst'[h] = inst[h] /\ drop'[h] = drop[h] /\ left'[h] = left[h],
             UNCHANGED <<made, prewarmed, closed, warm, inst>>, Nil => Nil'
      PROVE  /\ TakesNoSlot(g, l) => NoSlotTaken
             /\ StartsNothing(g, l) => NothingStarted
  BY <1>2, <1>3
<1>l. /\ "over" \in Labels /\ "admitWait" \in Labels /\ "takeWarm" \in Labels
      /\ "container" \in Labels /\ "containerWait" \in Labels /\ "reclaimed" \in Labels
      /\ "start" \in Labels /\ "creating" \in Labels /\ "unreserve" \in Labels
      /\ "releaseSlot" \in Labels /\ "commit" \in Labels /\ "running" \in Labels
      /\ "replenish" \in Labels /\ "spawned" \in Labels /\ "loop" \in Labels
      /\ "mark" \in Labels /\ "register" \in Labels /\ "borrow" \in Labels /\ "stopWait" \in Labels
  BY DEF Labels
<1> USE DEF contVars
<1> DEFINE Both == NoSlotTaken /\ NothingStarted
<1>6. CASE Acquire(g)
  <2>1. ASSUME NEW c \in Configs, AdmitThrottle(g, c) \/ AdmitQueue(g, c) PROVE Both
    <3>1. /\ \A h \in Calls \ {g} : kind'[h] = kind[h] /\ cfg'[h] = cfg[h]
          /\ UNCHANGED <<inst, drop, left, contVars, warm, stopped>>
      BY <1>1, <2>1 DEF AdmitThrottle, AdmitQueue, Invocation, TypeOK
    <3>2. ASSUME NEW l \in {"over", "admitWait"}, pc' = Goto(g, l) PROVE Both
      <4>1. TakesNoSlot(g, l) /\ StartsNothing(g, l) /\ l \in Labels
        BY <3>2 DEF TakesNoSlot, StartsNothing, SlotLabels, StartLabels, Labels
      <4> QED BY <1>3, <3>1, <3>2, <4>1 DEF Nil
    <3> QED BY <2>1, <3>2 DEF AdmitThrottle, AdmitQueue
  <2>2. ASSUME NEW c \in Configs, AdmitGrant(g, c) PROVE NothingStarted
    <3>1. /\ \A h \in Calls \ {g} : kind'[h] = kind[h] /\ cfg'[h] = cfg[h]
          /\ UNCHANGED <<inst, drop, left, contVars, warm, stopped>> /\ pc' = Goto(g, "takeWarm")
      BY <1>1, <2>2 DEF AdmitGrant, Invocation, TypeOK
    <3>2. StartsNothing(g, "takeWarm")
      BY DEF StartsNothing, StartLabels
    <3> QED BY <1>3, <1>l, <3>1, <3>2 DEF Nil
  <2>3. CASE AdmitContainer(g)
    <3>1. UNCHANGED <<kind, cfg, inst, drop, left, contVars, warm, stopped>> /\ pc' = Goto(g, "start")
      BY <2>3 DEF AdmitContainer
    <3>2. TakesNoSlot(g, "start")
      BY <2>3, <3>1 DEF TakesNoSlot, SlotLabels, AdmitContainer, At
    <3> QED BY <1>3, <1>l, <2>3, <3>1, <3>2 DEF Nil
  <2>4. ASSUME NEW l \in {"container", "containerWait", "releaseSlot", "running", "reclaimed", "over"},
               UNCHANGED <<kind, cfg>>, pc[g] \in SlotLabels \/ l = "over"
        PROVE  TakesNoSlot(g, l) /\ StartsNothing(g, l) /\ l \in Labels
    BY <2>4 DEF TakesNoSlot, StartsNothing, SlotLabels, StartLabels, Labels
  <2>5. CASE TakeWarm(g)
    <3>1. /\ pc' = Goto(g, "running") \/ pc' = Goto(g, "container")
          /\ pc[g] \in SlotLabels /\ warm' \subseteq warm
          /\ UNCHANGED <<kind, cfg, left, contVars, stopped>>
      BY <2>5 DEF TakeWarm, At, SlotLabels
    <3>2. /\ \A h \in Calls \ {g} : inst'[h] = inst[h] /\ drop'[h] = drop[h]
          /\ inst'[g] \in warm \cup {inst[g]}
      BY <1>1, <2>5 DEF TakeWarm, TypeOK, WarmOf
    <3> QED BY <1>2, <2>4, <3>1, <3>2 DEF Nil
  <2>6. CASE AcquireStopped(g) \/ ContainerQueue(g) \/ WaitTimeout(g)
    <3>1. /\ \E l \in {"container", "containerWait", "releaseSlot", "over"} :
                pc' = Goto(g, l) /\ (pc[g] \in SlotLabels \/ l = "over")
          /\ UNCHANGED <<kind, cfg, inst, drop, left, contVars, warm, stopped>>
      BY <2>6 DEF AcquireStopped, ContainerQueue, WaitTimeout, At, SlotLabels
    <3> QED BY <1>3, <2>4, <3>1 DEF Nil
  <2>7. CASE ReclaimIdle(g)
    <3>1. /\ pc' = Goto(g, "reclaimed") /\ pc[g] \in SlotLabels /\ warm' \subseteq warm
          /\ UNCHANGED <<kind, cfg, inst, left, contVars, stopped>>
          /\ \A h \in Calls \ {g} : drop'[h] = drop[h]
      BY <1>1, <2>7 DEF ReclaimIdle, At, SlotLabels, TypeOK
    <3> QED BY <1>2, <2>4, <3>1 DEF Nil
  <2>8. CASE Reclaimed(g)
    <3>1. /\ pc' = Woken(Goto(g, "container")) /\ pc[g] \in SlotLabels
          /\ UNCHANGED <<kind, cfg, inst, drop, left, contVars, warm, stopped>>
      BY <2>8 DEF Reclaimed, At, SlotLabels
    <3> QED BY <1>2, <2>4, <3>1 DEF Nil
  <2> QED BY <1>6, <2>1, <2>2, <2>3, <2>5, <2>6, <2>7, <2>8 DEF Acquire
<1>7. CASE ColdStart(g)
  <2>1. CASE BeginColdStart(g)
    <3>1. /\ pc' = Goto(g, "creating") /\ pc[g] = "start"
          /\ UNCHANGED <<kind, cfg, inst, drop, left, contVars, warm, stopped>>
      BY <2>1 DEF BeginColdStart, At
    <3>2. TakesNoSlot(g, "creating") /\ StartsNothing(g, "creating")
      BY <3>1 DEF TakesNoSlot, StartsNothing, SlotLabels, StartLabels
    <3> QED BY <1>3, <1>l, <3>1, <3>2 DEF Nil
  <2>2. CASE FinishColdStart(g)
    <3>1. UNCHANGED <<kind, cfg>> /\ pc[g] = "creating"
      BY <2>2 DEF FinishColdStart, At
    <3>2. \A h \in Calls \ {g} : inst'[h] = inst[h] /\ drop'[h] = drop[h] /\ left'[h] = left[h]
      BY <1>1, <2>2 DEF FinishColdStart, FinishAdmitted, FinishReserved, TypeOK
    <3>3. \E l \in {"unreserve", "commit", "loop", "mark"} : pc' = Goto(g, l)
      BY <2>2 DEF FinishColdStart, FinishAdmitted, FinishReserved
    <3>4. ASSUME NEW l \in {"unreserve", "commit", "loop", "mark"} PROVE TakesNoSlot(g, l)
      BY <3>1, <3>4 DEF TakesNoSlot, SlotLabels
    <3> QED BY <1>l, <2>2, <3>1, <3>2, <3>3, <3>4, SteadyStep
  <2>3. ASSUME NEW l \in {"releaseSlot", "running"}, kind'[g] = kind[g], cfg'[g] = cfg[g],
               pc[g] \in {"unreserve", "commit"}
        PROVE  TakesNoSlot(g, l) /\ StartsNothing(g, l)
    BY <2>3 DEF TakesNoSlot, StartsNothing, SlotLabels, StartLabels
  <2>4. CASE UnreservePendingMem(g)
    <3>1. /\ pc' = Goto(g, "releaseSlot") \/ pc' = Woken(Goto(g, "releaseSlot"))
          /\ pc[g] = "unreserve"
          /\ UNCHANGED <<kind, cfg, inst, drop, left, contVars, warm, stopped>>
      BY <2>4 DEF UnreservePendingMem, At
    <3> QED BY <1>2, <1>l, <2>3, <3>1 DEF Nil
  <2>5. CASE ReleaseSlot(g)
    <3>1. /\ pc' = Woken(Goto(g, "over")) /\ inst'[g] = None
          /\ UNCHANGED <<kind, cfg, left, contVars, warm, stopped>>
          /\ \A h \in Calls \ {g} : inst'[h] = inst[h] /\ drop'[h] = drop[h]
      BY <1>1, <2>5 DEF ReleaseSlot, TypeOK
    <3>2. TakesNoSlot(g, "over") /\ StartsNothing(g, "over")
      BY DEF TakesNoSlot, StartsNothing, SlotLabels, StartLabels
    <3> QED BY <1>2, <1>l, <3>1, <3>2 DEF Nil
  <2>6. CASE CommitPendingMem(g)
    <3>1. /\ pc' = Goto(g, "running") /\ pc[g] = "commit"
          /\ UNCHANGED <<kind, cfg, inst, drop, left, contVars, warm, stopped>>
      BY <2>6 DEF CommitPendingMem, At
    <3> QED BY <1>3, <1>l, <2>3, <3>1 DEF Nil
  <2> QED BY <1>7, <2>1, <2>2, <2>4, <2>5, <2>6 DEF ColdStart
<1>8. CASE ReplenishLoop(g)
  <2>1. CASE Replenish(g)
    <3>1. UNCHANGED <<inst, contVars, warm, stopped>>
      BY <2>1 DEF Replenish
    <3>2. AfterRelease(g) \notin SlotLabels
      BY DEF AfterRelease, SlotLabels
    <3>3. ASSUME NEW h \in Calls PROVE KeepsSlot(h) /\ KeepsStart(h)
      <4>1. \/ pc'[h] = pc[h] /\ kind'[h] = kind[h] /\ cfg'[h] = cfg[h]
            \/ pc'[h] \notin SlotLabels
            \/ kind'[h] = "replenish"
        <5>1. CASE pc' = Goto(g, AfterRelease(g)) /\ UNCHANGED <<kind, cfg>>
          BY <1>1, <3>2, <5>1 DEF Goto, TypeOK
        <5>2. CASE \E k \in Calls :
                     /\ pc' = [pc EXCEPT ![g] = AfterRelease(g), ![k] = "spawned"]
                     /\ kind' = [kind EXCEPT ![k] = "replenish"]
                     /\ cfg' = [cfg EXCEPT ![k] = provisioned[Fn(g)]]
          BY <1>1, <3>2, <5>2 DEF TypeOK
        <5> QED BY <2>1, <5>1, <5>2 DEF Replenish
      <4> QED BY <3>1, <4>1
              DEF KeepsSlot, KeepsStart, SlotHolders, PendingCalls, Admitted, SlotLabels
    <3> QED BY <3>1, <3>3 DEF NoSlotTaken, NothingStarted, OnDemand, Live, Nil
  <2>2. CASE Spawn(g)
    <3>1. /\ \E l \in {"loop", "start"} : pc' = Goto(g, l)
          /\ pc[g] = "spawned"
          /\ UNCHANGED <<kind, cfg, inst, drop, left, contVars, warm, stopped>>
      BY <2>2 DEF Spawn, At
    <3>2. ASSUME NEW l \in {"loop", "start"} PROVE TakesNoSlot(g, l) /\ StartsNothing(g, l)
      BY <3>1, <3>2 DEF TakesNoSlot, StartsNothing, SlotLabels, StartLabels
    <3> QED BY <1>3, <1>l, <3>1, <3>2 DEF Nil
  <2>3. ASSUME NEW l \in Labels, pc' = Goto(g, l),
               pc[g] \in {"loop", "mark", "register", "borrow"},
               UNCHANGED <<kind, cfg, inst, drop, left, contVars, warm, stopped>>
        PROVE  Both
    <3>1. kind'[g] = "replenish"
      BY <1>1, <2>3 DEF CallShape
    <3>2. TakesNoSlot(g, l) /\ StartsNothing(g, l)
      BY <3>1 DEF TakesNoSlot, StartsNothing
    <3> QED BY <1>3, <2>3, <3>2 DEF Nil
  <2>4. CASE ReplenishStart(g) \/ ReplenishEnd(g)
    BY <1>l, <2>3, <2>4 DEF ReplenishStart, ReplenishEnd, At
  <2>5. CASE MarkProvisioned(g) \/ RegisterLiveMem(g) \/ BorrowSlot(g)
    BY <1>l, <2>3, <2>5 DEF MarkProvisioned, RegisterLiveMem, BorrowSlot, At
  <2> QED BY <1>8, <2>1, <2>2, <2>4, <2>5 DEF ReplenishLoop
<1>9. CASE ReleaseAny(g)
  <2>1. PICK usable \in BOOLEAN : Release(g, usable)
    BY <1>9 DEF ReleaseAny
  <2>2. \E l \in {"replenish", "loop", "over"} : pc' = Woken(Goto(g, l))
    BY <2>1 DEF Release, AfterRelease
  <2>3. /\ \A h \in Calls \ {g} : inst'[h] = inst[h] /\ drop'[h] = drop[h]
        /\ UNCHANGED <<kind, cfg, left, contVars, stopped>>
        /\ warm' \subseteq warm \cup {inst[g]} /\ inst'[g] = None /\ inst[g] # None
    BY <1>1, <2>1 DEF Release, TypeOK, At, CallShape
  <2>4. ASSUME NEW l \in {"replenish", "loop", "over"} PROVE TakesNoSlot(g, l) /\ StartsNothing(g, l)
    BY <2>4 DEF TakesNoSlot, StartsNothing, SlotLabels, StartLabels
  <2> QED BY <1>2, <1>l, <2>2, <2>3, <2>4 DEF Nil
<1>10. CASE CloseInstance(g)
  <2>1. /\ UNCHANGED <<kind, cfg, inst, left, made, prewarmed, warm, stopped>>
        /\ closed \subseteq closed' /\ (pc' = pc \/ pc' = Woken(pc))
    BY <1>10 DEF CloseInstance, ReleaseLiveMem
  <2>2. ASSUME NEW h \in Calls PROVE KeepsSlot(h) /\ KeepsStart(h)
    <3>1. \/ pc'[h] = pc[h]
          \/ pc[h] = "admitWait" /\ pc'[h] = "admit"
          \/ pc[h] = "containerWait" /\ pc'[h] = "container"
      BY <1>1, <2>1, WokenFacts
    <3> QED BY <2>1, <3>1 DEF KeepsSlot, KeepsStart, SlotHolders, PendingCalls, Admitted
  <2> QED BY <2>1, <2>2 DEF NoSlotTaken, NothingStarted, OnDemand, Live, Nil
<1>11. CASE Management(g)
  <2>1. ASSUME NEW l \in {"over", "replenish", "stopWait"}
        PROVE  TakesNoSlot(g, l) /\ StartsNothing(g, l) /\ l \in Labels
    BY <2>1 DEF TakesNoSlot, StartsNothing, SlotLabels, StartLabels, Labels
  <2>2. ASSUME NEW c, NEW out, NEW l \in {"over", "replenish"}, Manage(g, c, out, l)
        PROVE  Both
    <3>1. /\ \A h \in Calls \ {g} : kind'[h] = kind[h] /\ cfg'[h] = cfg[h] /\ drop'[h] = drop[h]
          /\ pc' = Goto(g, l) /\ warm' \subseteq warm /\ UNCHANGED <<inst, left, contVars, stopped>>
      BY <1>1, <2>2 DEF Manage, TypeOK
    <3> QED BY <1>2, <2>1, <3>1 DEF Nil
  <2>3. CASE Stop(g)
    <3>1. /\ UNCHANGED <<kind, cfg, inst, left, contVars>> /\ warm' \subseteq warm /\ Nil'
          /\ pc' = Woken(Goto(g, "over"))
          /\ \A h \in Calls \ {g} : drop'[h] = drop[h]
      BY <1>1, <2>3 DEF Stop, Nil, TypeOK
    <3> QED BY <1>2, <2>1, <3>1
  <2>4. CASE StopBegin(g)
    <3>1. /\ UNCHANGED <<cfg, inst, drop, left, contVars, warm>> /\ (Nil => Nil')
          /\ pc' = Goto(g, "stopWait")
          /\ \A h \in Calls \ {g} : kind'[h] = kind[h]
      BY <1>1, <2>4 DEF StopBegin, Nil, TypeOK
    <3> QED BY <1>3, <2>1, <3>1
  <2>5. CASE \E f \in Functions : EvictFunction(g, f) \/ ClearProvisionedConcurrency(g, f)
    BY <2>2, <2>5 DEF EvictFunction, ClearProvisionedConcurrency
  <2>6. CASE \E c \in Configs : InvalidateFunction(g, c)
    <3>1. PICK c \in Configs : InvalidateFunction(g, c)
      BY <2>6
    <3>2. \E l \in {"over", "replenish"} : Manage(g, c, Stale(c), l)
      BY <3>1 DEF InvalidateFunction
    <3> QED BY <2>2, <3>2
  <2>7. CASE \E c \in Configs, n \in Targets : SetProvisionedConcurrency(g, c, n)
    BY <2>2, <2>7 DEF SetProvisionedConcurrency
  <2>8. CASE (\E i \in Instances : HandleContainerDied(g, i)) \/ Sweep(g)
    BY <2>2, <2>8 DEF HandleContainerDied, Sweep
  <2> QED BY <1>11, <2>3, <2>4, <2>5, <2>6, <2>7, <2>8 DEF Management
<1> QED BY <1>6, <1>7, <1>8, <1>9, <1>10, <1>11

Held(f) == {h \in HoldersOf(f) : Admitted(h)}

\* Who holds a slot of f on behalf of an invocation held it before.
LEMMA SlotLimitOf ==
    ASSUME SlotLimit, NEW f \in Functions, Held(f)' \subseteq Held(f), Held(f)' # {}
    PROVE  \E c \in Configs, pin \in PinsOf[f] :
               NameOf[c] = f /\ Cardinality(Held(f)') <= PerFunction(c, pin)
<1> DEFINE S == Held(f)
           T == Held(f)'
<1>1. PICK c \in Configs, pin \in PinsOf[f] :
               NameOf[c] = f /\ Cardinality(Held(f)) <= PerFunction(c, pin)
  BY DEF SlotLimit, Held
<1>2. S \in SUBSET HoldersOf(f) /\ T \in SUBSET S
  BY DEF Held
<1>3. IsFiniteSet(S)
  BY <1>2, HoldersFinite, FS_Subset
<1> HIDE DEF S, T
<1>4. IsFiniteSet(T) /\ Cardinality(T) <= Cardinality(S)
  BY <1>2, <1>3, FS_Subset
<1>5. Cardinality(T) \in Nat /\ Cardinality(S) \in Nat
  BY <1>3, <1>4, FS_CardinalityType
<1>6. PerFunction(c, pin) \in Int
  BY PerFunctionType
<1> QED BY <1>1, <1>4, <1>5, <1>6 DEF S, T

LEMMA SlotLimitKept ==
    ASSUME SlotLimit, NoSlotTaken
    PROVE  SlotLimit'
<1>1. ASSUME NEW f \in Functions PROVE Held(f)' \subseteq Held(f)
  BY DEF NoSlotTaken, KeepsSlot, Held, HoldersOf, SlotHolders, Fn
<1>2. \A f \in Functions : Held(f)' # {} =>
         \E c \in Configs, pin \in PinsOf[f] :
             NameOf[c] = f /\ Cardinality(Held(f)') <= PerFunction(c, pin)
  BY <1>1, SlotLimitOf
<1> QED BY <1>2 DEF SlotLimit, Held, PerFunction

\* Call g takes a slot after a look at the count.
LEMMA SlotLimitTaken ==
    ASSUME SlotLimit, SlotBooks, ~Nil, NEW g \in Calls, NEW c \in Configs, cfg'[g] = c,
           NEW p \in PinsOf[NameOf[c]], checkedOut[NameOf[c]] < PerFunction(c, p),
           \A h \in Calls \ {g} : KeepsSlot(h)
    PROVE  SlotLimit'
<1> DEFINE k == NameOf[c]
           S == HoldersOf(k)
           T == Held(k)'
<1>1. k \in Functions /\ PerFunction(c, p) \in Int
  BY PoolAssumption, PerFunctionType
<1>2. Cardinality(S) = checkedOut[k] /\ IsFiniteSet(S) /\ Cardinality(S) \in Nat
  BY <1>1, HoldersFinite DEF SlotBooks
<1>3. T \subseteq S \cup {g}
  BY DEF KeepsSlot, Held, HoldersOf, SlotHolders, Fn
<1>4. ASSUME NEW f \in Functions, f # k PROVE Held(f)' \subseteq Held(f)
  BY <1>4 DEF KeepsSlot, Held, HoldersOf, SlotHolders, Fn
<1>5. Cardinality(T) <= PerFunction(c, p)
  <2> HIDE DEF k, S, T
  <2>1. /\ IsFiniteSet(S \cup {g}) /\ Cardinality(S \cup {g}) \in Nat
        /\ Cardinality(S \cup {g}) <= Cardinality(S) + 1
    <3>1. CASE g \in S
      <4>1. S \cup {g} = S
        BY <3>1
      <4> QED BY <1>2, <4>1
    <3>2. CASE g \notin S
      <4>1. IsFiniteSet(S \cup {g}) /\ Cardinality(S \cup {g}) = Cardinality(S) + 1
        BY <1>2, <3>2, FS_AddElement
      <4> QED BY <1>2, <4>1
    <3> QED BY <3>1, <3>2
  <2>2. T \in SUBSET (S \cup {g})
    BY <1>3
  <2>3. IsFiniteSet(T) /\ Cardinality(T) <= Cardinality(S \cup {g})
    BY <2>1, <2>2, FS_Subset
  <2>4. Cardinality(T) \in Nat
    BY <2>3, FS_CardinalityType
  <2>5. Cardinality(S) < PerFunction(c, p)
    BY <1>2 DEF k
  <2> QED BY <1>1, <1>2, <2>1, <2>3, <2>4, <2>5
<1>6. \A f \in Functions : Held(f)' # {} =>
         \E d \in Configs, pin \in PinsOf[f] :
             NameOf[d] = f /\ Cardinality(Held(f)') <= PerFunction(d, pin)
  <2> HIDE DEF S
  <2>1. ASSUME NEW f \in Functions, Held(f)' # {}
        PROVE  \E d \in Configs, pin \in PinsOf[f] :
                   NameOf[d] = f /\ Cardinality(Held(f)') <= PerFunction(d, pin)
    <3>1. CASE f = k
      BY <1>5, <3>1
    <3>2. CASE f # k
      BY <1>4, <2>1, <3>2, SlotLimitOf
    <3> QED BY <3>1, <3>2
  <2> QED BY <2>1
<1> QED BY <1>6 DEF SlotLimit, Held, PerFunction

\* Calls that are in admit's loop.
Looping == {"admit", "admitWait"}

\* A limit is what some answer about the debug target makes of its snapshot.
LimitsKnown ==
    \A h \in Calls : pc[h] \in Looping =>
        \E pin \in PinsOf[Fn(h)] : limit[h] = PerFunction(cfg[h], pin)

LEMMA LimitOfAdmitting ==
    ASSUME LimitsKnown, NEW g \in Calls, NEW c \in Configs, Admitting(g, c), NEW n \in Limits(g, c)
    PROVE  \E pin \in PinsOf[NameOf[c]] : n = PerFunction(c, pin)
BY DEF LimitsKnown, Looping, Limits, Admitting, FreshCall, At, Fn

\* A step that sends no other call into the loop.
LEMMA LimitsKept ==
    ASSUME LimitsKnown,
           \A h \in Calls : pc'[h] \in Looping =>
               pc[h] \in Looping /\ cfg'[h] = cfg[h] /\ limit'[h] = limit[h]
    PROVE  LimitsKnown'
<1>1. ASSUME NEW h \in Calls, pc'[h] \in Looping
      PROVE  \E pin \in PinsOf[NameOf[cfg'[h]]] : limit'[h] = PerFunction(cfg'[h], pin)
  BY <1>1 DEF LimitsKnown, Fn
<1> QED BY <1>1 DEF LimitsKnown, Fn, PerFunction

LEMMA LimitsStep ==
    ASSUME PoolInv, LimitsKnown, NEW g \in Calls,
           \/ Acquire(g) \/ ColdStart(g) \/ ReplenishLoop(g) \/ ReleaseAny(g)
           \/ CloseInstance(g) \/ Management(g)
    PROVE  LimitsKnown'
<1>1. TypeOK
  BY DEF PoolInv, Ownership
<1> DEFINE Moves(l) == /\ l \in Labels \ Looping
                       /\ \/ pc' = Goto(g, l)
                          \/ pc' = Woken(Goto(g, l)) /\ l # "containerWait"
<1>2. ASSUME NEW l, Moves(l), \A h \in Calls \ {g} : cfg'[h] = cfg[h], limit' = limit
      PROVE  LimitsKnown'
  <2>1. \A h \in Calls : pc'[h] \in Looping => h # g /\ pc[h] \in Looping
    <3>1. CASE pc' = Goto(g, l)
      BY <1>1, <1>2, <3>1, GotoWaitFacts
    <3>2. CASE pc' = Woken(Goto(g, l)) /\ l # "containerWait"
      <4>1. /\ Woken(Goto(g, l))[g] = l
            /\ \A h \in Calls : h # g => \/ Woken(Goto(g, l))[h] = pc[h]
                                         \/ pc[h] = "admitWait"
                                         \/ Woken(Goto(g, l))[h] = "container"
        BY <1>1, <1>2, <3>2, GotoFacts DEF Looping
      <4> QED BY <1>2, <3>2, <4>1 DEF Looping
    <3> QED BY <1>2, <3>1, <3>2
  <2> QED BY <1>2, <2>1, LimitsKept
<1>6. CASE Acquire(g)
  <2>1. ASSUME NEW c \in Configs, AdmitThrottle(g, c) \/ AdmitGrant(g, c) PROVE LimitsKnown'
    <3>1. limit' = limit /\ \A h \in Calls \ {g} : cfg'[h] = cfg[h]
      BY <1>1, <2>1 DEF AdmitThrottle, AdmitGrant, Invocation, TypeOK
    <3>2. Moves("over") \/ Moves("takeWarm")
      BY <2>1 DEF AdmitThrottle, AdmitGrant, Labels, Looping
    <3> QED BY <1>2, <3>1, <3>2
  <2>2. ASSUME NEW c \in Configs, AdmitQueue(g, c) PROVE LimitsKnown'
    <3>1. PICK n \in Limits(g, c) : limit' = [limit EXCEPT ![g] = n]
      BY <2>2 DEF AdmitQueue
    <3>2. PICK pin \in PinsOf[NameOf[c]] : n = PerFunction(c, pin)
      BY <2>2, LimitOfAdmitting DEF AdmitQueue
    <3>3. /\ limit'[g] = n /\ cfg'[g] = c
          /\ \A h \in Calls \ {g} : limit'[h] = limit[h] /\ cfg'[h] = cfg[h] /\ pc'[h] = pc[h]
      BY <1>1, <2>2, <3>1 DEF AdmitQueue, Invocation, TypeOK, Goto
    <3>4. ASSUME NEW h \in Calls, pc'[h] \in Looping
          PROVE  \E q \in PinsOf[NameOf[cfg'[h]]] : limit'[h] = PerFunction(cfg'[h], q)
      <4>1. CASE h = g
        BY <3>2, <3>3, <4>1
      <4>2. CASE h # g
        BY <3>3, <3>4, <4>2 DEF LimitsKnown, Fn
      <4> QED BY <4>1, <4>2
    <3> QED BY <3>4 DEF LimitsKnown, Fn, PerFunction
  <2>3. CASE \/ TakeWarm(g) \/ AcquireStopped(g) \/ AdmitContainer(g) \/ ReclaimIdle(g)
             \/ Reclaimed(g) \/ ContainerQueue(g) \/ WaitTimeout(g)
    <3>1. UNCHANGED <<cfg, limit>>
      BY <2>3 DEF TakeWarm, AcquireStopped, AdmitContainer, ReclaimIdle, Reclaimed,
                  ContainerQueue, WaitTimeout
    <3>2. Moves("running") \/ Moves("container") \/ Moves("releaseSlot") \/ Moves("start")
             \/ Moves("reclaimed") \/ Moves("containerWait") \/ Moves("over")
      BY <2>3 DEF TakeWarm, AcquireStopped, AdmitContainer, ReclaimIdle, Reclaimed,
                  ContainerQueue, WaitTimeout, Labels, Looping
    <3> QED BY <1>2, <3>1, <3>2
  <2> QED BY <1>6, <2>1, <2>2, <2>3 DEF Acquire
<1>7. CASE ColdStart(g)
  <2>1. UNCHANGED <<cfg, limit>>
    BY <1>7 DEF ColdStart, BeginColdStart, FinishColdStart, UnreservePendingMem, ReleaseSlot,
                CommitPendingMem
  <2>2. Moves("creating") \/ Moves("unreserve") \/ Moves("commit") \/ Moves("loop")
           \/ Moves("mark") \/ Moves("releaseSlot") \/ Moves("over") \/ Moves("running")
    BY <1>7 DEF ColdStart, BeginColdStart, FinishColdStart, FinishAdmitted, FinishReserved,
                UnreservePendingMem, ReleaseSlot, CommitPendingMem, Labels, Looping
  <2> QED BY <1>2, <2>1, <2>2
<1>8. CASE ReplenishLoop(g)
  <2>1. CASE Replenish(g)
    <3>1. limit' = limit
      BY <2>1 DEF Replenish
    <3>2. \A h \in Calls : pc'[h] \in Looping => pc[h] = pc'[h] /\ cfg'[h] = cfg[h]
      BY <1>1, <2>1 DEF Replenish, AfterRelease, Goto, TypeOK, Looping
    <3> QED BY <3>1, <3>2, LimitsKept
  <2>2. CASE \/ Spawn(g) \/ ReplenishStart(g) \/ ReplenishEnd(g) \/ MarkProvisioned(g)
             \/ RegisterLiveMem(g) \/ BorrowSlot(g)
    <3>1. UNCHANGED <<cfg, limit>>
      BY <2>2 DEF Spawn, ReplenishStart, ReplenishEnd, MarkProvisioned, RegisterLiveMem, BorrowSlot
    <3>2. Moves("loop") \/ Moves("start") \/ Moves("creating") \/ Moves("over")
             \/ Moves("register") \/ Moves("borrow") \/ Moves("running")
      BY <2>2 DEF Spawn, ReplenishStart, ReplenishEnd, MarkProvisioned, RegisterLiveMem, BorrowSlot,
                  Labels, Looping
    <3> QED BY <1>2, <3>1, <3>2
  <2> QED BY <1>8, <2>1, <2>2 DEF ReplenishLoop
<1>9. CASE ReleaseAny(g)
  <2>1. UNCHANGED <<cfg, limit>>
    BY <1>9 DEF ReleaseAny, Release
  <2>2. Moves("replenish") \/ Moves("loop") \/ Moves("over")
    BY <1>9 DEF ReleaseAny, Release, AfterRelease, Labels, Looping
  <2> QED BY <1>2, <2>1, <2>2
<1>10. CASE CloseInstance(g)
  <2>1. UNCHANGED <<cfg, limit>> /\ pc' \in {pc, Woken(pc)}
    BY <1>10 DEF CloseInstance, ReleaseLiveMem
  <2>2. \A h \in Calls : pc'[h] \in Looping => pc[h] \in Looping
    BY <1>1, <2>1, WokenFacts DEF Looping
  <2> QED BY <2>1, <2>2, LimitsKept
<1>11. CASE Management(g)
  <2>1. ASSUME NEW c, NEW out, NEW l \in {"over", "replenish"}, Manage(g, c, out, l)
        PROVE  LimitsKnown'
    <3>1. limit' = limit /\ \A h \in Calls \ {g} : cfg'[h] = cfg[h]
      BY <1>1, <2>1 DEF Manage, TypeOK
    <3>2. Moves(l)
      BY <2>1 DEF Manage, Labels, Looping
    <3> QED BY <1>2, <3>1, <3>2
  <2>2. CASE \E f \in Functions : EvictFunction(g, f) \/ ClearProvisionedConcurrency(g, f)
    BY <2>1, <2>2 DEF EvictFunction, ClearProvisionedConcurrency
  <2>3. CASE \E c \in Configs : InvalidateFunction(g, c)
    <3>1. PICK c \in Configs : InvalidateFunction(g, c)
      BY <2>3
    <3>2. \E l \in {"over", "replenish"} : Manage(g, c, Stale(c), l)
      BY <3>1 DEF InvalidateFunction
    <3> QED BY <2>1, <3>2
  <2>4. CASE \E c \in Configs, n \in Targets : SetProvisionedConcurrency(g, c, n)
    BY <2>1, <2>4 DEF SetProvisionedConcurrency
  <2>5. CASE (\E i \in Instances : HandleContainerDied(g, i)) \/ Sweep(g)
    BY <2>1, <2>5 DEF HandleContainerDied, Sweep
  <2>6. CASE (\E c \in Configs : ProactiveInit(g, c)) \/ StopBegin(g) \/ Stop(g)
    <3>1. limit' = limit /\ \A h \in Calls \ {g} : cfg'[h] = cfg[h]
      BY <1>1, <2>6 DEF ProactiveInit, StopBegin, Stop, TypeOK
    <3>2. Moves("spawned") \/ Moves("stopWait") \/ Moves("over")
      BY <2>6 DEF ProactiveInit, StopBegin, Stop, Labels, Looping
    <3> QED BY <1>2, <3>1, <3>2
  <2> QED BY <1>11, <2>2, <2>3, <2>4, <2>5, <2>6 DEF Management
<1> QED BY <1>6, <1>7, <1>8, <1>9, <1>10, <1>11

LEMMA SlotLimitStep ==
    ASSUME PoolInv, PoolInv', SlotLimit, LimitsKnown, NEW g \in Calls,
           \/ Acquire(g) \/ ColdStart(g) \/ ReplenishLoop(g) \/ ReleaseAny(g)
           \/ CloseInstance(g) \/ Management(g)
    PROVE  SlotLimit'
<1>1. TypeOK /\ SlotBooks
  BY DEF PoolInv, Ownership
<1>2. CASE NoSlotTaken
  BY <1>2, SlotLimitKept
<1>3. ASSUME NEW c \in Configs, AdmitGrant(g, c) \/ ProactiveInit(g, c) PROVE SlotLimit'
  <2>1. /\ \E l \in {"takeWarm", "spawned"} : pc' = Goto(g, l)
        /\ \A h \in Calls \ {g} : kind'[h] = kind[h] /\ cfg'[h] = cfg[h]
        /\ cfg'[g] = c /\ UNCHANGED <<inst, drop, left>> /\ ~Nil
    BY <1>1, <1>3 DEF AdmitGrant, Invocation, ProactiveInit, TypeOK
  <2>2. "takeWarm" \in Labels /\ "spawned" \in Labels
    BY DEF Labels
  <2>3. \A h \in Calls \ {g} : KeepsSlot(h)
    BY <1>1, <2>1, <2>2, OthersSame, BystanderKeeps
  <2>4. \E pin \in PinsOf[NameOf[c]] : checkedOut[NameOf[c]] < PerFunction(c, pin)
    <3>1. CASE AdmitGrant(g, c)
      BY <3>1, LimitOfAdmitting DEF AdmitGrant, SlotFree
    <3>2. CASE ProactiveInit(g, c)
      <4>1. checkedOut[NameOf[c]] = 0 /\ ReservedOf[c] # 0
        BY <3>2 DEF ProactiveInit
      <4>2. \A pin : PerFunction(c, pin) > 0
        BY <4>1, PoolAssumption DEF PerFunction
      <4>3. PinsOf[NameOf[c]] # {}
        <5>1. NameOf[c] \in Functions
          BY PoolAssumption
        <5>2. \A f \in Functions : PinsOf[f] \in (SUBSET BOOLEAN) \ {{}}
          BY PoolAssumption
        <5> QED BY <5>1, <5>2
      <4> QED BY <4>1, <4>2, <4>3
    <3> QED BY <1>3, <3>1, <3>2
  <2> QED BY <1>1, <2>1, <2>3, <2>4, SlotLimitTaken
<1> QED BY <1>2, <1>3, SteadySteps

\* Invocations of a function, and its starts ahead of traffic, never hold more
\* slots than its reserved concurrency or the limit per function admits.
THEOREM SlotLimitHolds == Spec => []SlotLimit
<1>1. Init => SlotLimit /\ LimitsKnown
  BY DEF Init, SlotLimit, HoldersOf, SlotHolders, LimitsKnown, Looping
<1>2. PoolInv /\ PoolInv' /\ SlotLimit /\ LimitsKnown /\ [Next]_vars => (SlotLimit /\ LimitsKnown)'
  <2>1. ASSUME PoolInv, PoolInv', SlotLimit, LimitsKnown, Next PROVE SlotLimit' /\ LimitsKnown'
    BY <2>1, SlotLimitStep, LimitsStep DEF Next
  <2>2. ASSUME SlotLimit, LimitsKnown, UNCHANGED vars PROVE SlotLimit' /\ LimitsKnown'
    BY <2>2 DEF SlotLimit, HoldersOf, SlotHolders, Admitted, Fn, PerFunction, LimitsKnown, vars, callVars
  <2> QED BY <2>1, <2>2
<1> QED BY InvariantHolds, <1>1, <1>2, PTL DEF Spec

-----------------------------------------------------------------------------
(* The limit on containers: totalLiveLocked counts a slot for each call that
   has been admitted, whether its container exists or not.                    *)

Starts == {h \in PendingCalls : inst[h] = None}
EmptyHanded == {h \in SlotHolders : inst[h] = None}

LEMMA LimitFinite ==
    /\ IsFiniteSet(OnDemand) /\ IsFiniteSet(Starts) /\ IsFiniteSet(SlotHolders)
    /\ Cardinality(OnDemand) \in Nat /\ Cardinality(Starts) \in Nat
<1>1. OnDemand \in SUBSET Instances /\ Starts \in SUBSET Calls /\ SlotHolders \in SUBSET Calls
  BY DEF OnDemand, Live, Starts, PendingCalls, SlotHolders
<1>2. IsFiniteSet(OnDemand) /\ IsFiniteSet(Starts) /\ IsFiniteSet(SlotHolders)
  BY <1>1, PoolAssumption, FS_Subset
<1> QED BY <1>2, FS_CardinalityType

\* The slots granted are at least the calls that hold one.
LEMMA SlotsCounted ==
    ASSUME PoolInv, ~Nil
    PROVE  /\ Cardinality(SlotHolders) <= Sum(Functions, checkedOut)
           /\ Cardinality(SlotHolders) \in Nat /\ Sum(Functions, checkedOut) \in Nat
<1> DEFINE U == Units(Functions, checkedOut)
           b == [f \in Functions |->
                   CHOOSE e : e \in Bijection(1..checkedOut[f], HoldersOf(f))]
           m == [u \in U |-> b[u[1]][u[2]]]
<1>1. IsFiniteSet(U) /\ Sum(Functions, checkedOut) \in Nat
  BY UnitsFinite, PoolAssumption DEF PoolInv, Ownership, TypeOK
<1>2. ASSUME NEW f \in Functions PROVE b[f] \in Bijection(1..checkedOut[f], HoldersOf(f))
  <2>1. ExistsBijection(1..Cardinality(HoldersOf(f)), HoldersOf(f))
    BY HoldersFinite, FS_CardinalityType
  <2>2. checkedOut[f] = Cardinality(HoldersOf(f))
    BY DEF PoolInv, SlotBooks
  <2>3. \E e : e \in Bijection(1..checkedOut[f], HoldersOf(f))
    BY <2>1, <2>2 DEF ExistsBijection
  <2> QED BY <2>3
<1> HIDE DEF b
<1>3. ASSUME NEW u \in U PROVE b[u[1]][u[2]] \in SlotHolders
  <2>1. PICK f \in Functions : u \in {f} \X (1..checkedOut[f])
    BY DEF Units
  <2>2. u[1] = f /\ u[2] \in 1..checkedOut[f]
    BY <2>1
  <2>3. b[f][u[2]] \in HoldersOf(f)
    BY <1>2, <2>2 DEF Bijection, Injection
  <2> QED BY <2>2, <2>3 DEF HoldersOf
<1>4. ASSUME NEW h \in SlotHolders PROVE \E u \in U : b[u[1]][u[2]] = h
  <2>1. h \in HoldersOf(Fn(h))
    BY DEF HoldersOf
  <2>2. Fn(h) \in Functions
    <3>1. cfg[h] \in Configs
      BY DEF SlotHolders, PoolInv, Ownership, CallShape, Admitted
    <3> QED BY <3>1, PoolAssumption DEF Fn
  <2>3. PICK n \in 1..checkedOut[Fn(h)] : b[Fn(h)][n] = h
    BY <1>2, <2>1, <2>2 DEF Bijection, Surjection
  <2>4. <<Fn(h), n>> \in U
    BY <2>2, <2>3 DEF Units
  <2> QED BY <2>3, <2>4
<1>5. m \in Surjection(U, SlotHolders)
  BY <1>3, <1>4 DEF Surjection
<1> HIDE DEF U, m
<1>6. Cardinality(SlotHolders) <= Cardinality(U)
  BY <1>1, <1>5, FS_Surjection
<1> QED BY <1>1, <1>6, LimitFinite, FS_CardinalityType DEF Sum, U

\* A container on demand is idle or in the hands of a call that holds a slot.
LEMMA HeldOnDemand ==
    ASSUME PoolInv, NEW i \in OnDemand, i \notin warm
    PROVE  \E h \in SlotHolders : inst[h] = i
<1>1. PICK h \in Calls : inst[h] = i
  BY DEF OnDemand
<1>2. i # None /\ i \notin prewarmed /\ CallShape(h) /\ HeldShape(h)
  BY PoolAssumption DEF OnDemand, Live, PoolInv, Ownership
<1>3. pc[h] \in {"unreserve", "releaseSlot", "commit", "running"}
  BY <1>1, <1>2 DEF CallShape, HeldShape
<1>4. h \in SlotHolders
  BY <1>2, <1>3 DEF CallShape, SlotHolders, Admitted
<1> QED BY <1>1, <1>4

\* So the containers on demand and the calls that still wait for theirs are at
\* most what totalLiveLocked counts.
LEMMA LiveBound ==
    ASSUME PoolInv, ~Nil
    PROVE  /\ Cardinality(OnDemand) + Cardinality(EmptyHanded) <= TotalLive
           /\ IsFiniteSet(EmptyHanded) /\ Cardinality(EmptyHanded) \in Nat /\ TotalLive \in Nat
<1> DEFINE H == SlotHolders
           S == EmptyHanded
           A == {h \in SlotHolders : inst[h] # None}
           C == {inst[h] : h \in A}
           D == OnDemand
<1>1. IsFiniteSet(H) /\ S \in SUBSET H /\ A \in SUBSET H /\ S \cup A = H /\ S \cap A = {}
  BY LimitFinite DEF EmptyHanded
<1>2. D \in SUBSET (warm \cup C)
  <2>1. ASSUME NEW i \in D, i \notin warm PROVE i \in C
    <3>1. PICK h \in SlotHolders : inst[h] = i
      BY <2>1, HeldOnDemand
    <3>2. i # None
      BY PoolAssumption DEF OnDemand, Live
    <3> QED BY <3>1, <3>2
  <2> QED BY <2>1
<1>3. IsFiniteSet(warm) /\ Cardinality(warm) \in Nat
  BY InstancesFinite, FS_CardinalityType DEF PoolInv, Ownership, TypeOK
<1>4. IsFiniteSet(S) /\ IsFiniteSet(A) /\ Cardinality(S) \in Nat /\ Cardinality(A) \in Nat
  <2> HIDE DEF S, A, H
  <2> QED BY <1>1, FS_Subset, FS_CardinalityType
<1>5. Cardinality(H) = Cardinality(S) + Cardinality(A)
  <2> HIDE DEF S, A, H
  <2>1. Cardinality(S \cup A) = Cardinality(S) + Cardinality(A) - Cardinality(S \cap A)
    BY <1>4, FS_Union
  <2>2. Cardinality(S \cap A) = 0
    BY <1>1, FS_EmptySet
  <2>3. Cardinality(H) = Cardinality(S) + Cardinality(A) - Cardinality(S \cap A)
    BY <1>1, <2>1
  <2> QED BY <1>4, <2>2, <2>3
<1>6. IsFiniteSet(C) /\ Cardinality(C) <= Cardinality(A) /\ Cardinality(C) \in Nat
  <2> DEFINE m == [h \in A |-> inst[h]]
  <2>1. m \in Surjection(A, C)
    BY DEF Surjection
  <2> HIDE DEF m, A, C
  <2>2. IsFiniteSet(C) /\ Cardinality(C) <= Cardinality(A)
    BY <1>4, <2>1, FS_Surjection
  <2> QED BY <2>2, FS_CardinalityType
<1> HIDE DEF C, D, A, S, H
<1>7. /\ IsFiniteSet(warm \cup C)
      /\ Cardinality(warm \cup C) = Cardinality(warm) + Cardinality(C) - Cardinality(warm \cap C)
  BY <1>3, <1>6, FS_Union
<1>8. warm \cap C \in SUBSET warm
  OBVIOUS
<1>9. Cardinality(warm \cap C) \in Nat
  BY <1>3, <1>8, FS_Subset, FS_CardinalityType
<1>10. Cardinality(D) <= Cardinality(warm \cup C) /\ Cardinality(D) \in Nat
  BY <1>2, <1>7, FS_Subset, FS_CardinalityType
<1>11. Cardinality(warm \cup C) \in Nat
  BY <1>7, FS_CardinalityType
<1>12. Cardinality(D) <= Cardinality(warm) + Cardinality(A)
  BY <1>3, <1>4, <1>6, <1>7, <1>9, <1>10, <1>11
<1>13. TotalLive = Cardinality(warm) + Sum(Functions, checkedOut)
  BY DEF TotalLive, Sum, Units
<1>14. Cardinality(H) <= Sum(Functions, checkedOut) /\ Sum(Functions, checkedOut) \in Nat
  BY SlotsCounted DEF H
<1>15. Cardinality(D) + Cardinality(S) <= TotalLive /\ TotalLive \in Nat
  BY <1>3, <1>4, <1>5, <1>10, <1>12, <1>13, <1>14
<1> QED BY <1>4, <1>15 DEF D, S

LEMMA LimitKept ==
    ASSUME OnDemandWithinLimit, NothingStarted
    PROVE  OnDemandWithinLimit'
<1> SUFFICES ASSUME ~Nil'
             PROVE  Cardinality(OnDemand') + Cardinality(Starts') <= MaxInstances
  BY DEF OnDemandWithinLimit, Starts
<1>1. Cardinality(OnDemand) + Cardinality(Starts) <= MaxInstances
  BY DEF OnDemandWithinLimit, Starts, NothingStarted
<1>2. OnDemand' \in SUBSET OnDemand /\ Starts' \in SUBSET Starts
  BY DEF NothingStarted, KeepsStart, Starts, PendingCalls
<1> DEFINE D == OnDemand'
           T == Starts'
<1> HIDE DEF D, T
<1>3. Cardinality(D) <= Cardinality(OnDemand) /\ Cardinality(T) <= Cardinality(Starts)
  BY <1>2, LimitFinite, FS_Subset DEF D, T
<1>4. Cardinality(D) \in Nat /\ Cardinality(T) \in Nat
  BY <1>2, LimitFinite, FS_Subset, FS_CardinalityType DEF D, T
<1>5. MaxInstances \in Nat
  BY PoolAssumption
<1> QED BY <1>1, <1>3, <1>4, <1>5, LimitFinite DEF D, T

\* The container of a call that was starting one comes up.
LEMMA LimitCreated ==
    ASSUME OnDemandWithinLimit, NEW g \in Starts, NEW i, Nil => Nil',
           OnDemand' \subseteq OnDemand \cup {i}, Starts' \subseteq Starts \ {g}
    PROVE  OnDemandWithinLimit'
<1> SUFFICES ASSUME ~Nil'
             PROVE  Cardinality(OnDemand') + Cardinality(Starts') <= MaxInstances
  BY DEF OnDemandWithinLimit, Starts
<1>1. Cardinality(OnDemand) + Cardinality(Starts) <= MaxInstances
  BY DEF OnDemandWithinLimit, Starts
<1> DEFINE D == OnDemand
           T == Starts
           D2 == OnDemand'
           T2 == Starts'
<1>2. D2 \in SUBSET (D \cup {i}) /\ T2 \in SUBSET (T \ {g}) /\ g \in T
  OBVIOUS
<1>3. /\ IsFiniteSet(D) /\ IsFiniteSet(T)
      /\ Cardinality(D) \in Nat /\ Cardinality(T) \in Nat
  BY LimitFinite
<1> HIDE DEF D, T, D2, T2
<1>4. IsFiniteSet(T \ {g}) /\ Cardinality(T \ {g}) = Cardinality(T) - 1
  BY <1>2, <1>3, FS_RemoveElement
<1>5. IsFiniteSet(T2) /\ Cardinality(T2) <= Cardinality(T \ {g})
  BY <1>2, <1>4, FS_Subset
<1>6. IsFiniteSet(D \cup {i}) /\ Cardinality(D \cup {i}) <= Cardinality(D) + 1
  <2>1. CASE i \in D
    <3>1. D \cup {i} = D
      BY <2>1
    <3> QED BY <1>3, <3>1
  <2>2. CASE i \notin D
    <3>1. IsFiniteSet(D \cup {i}) /\ Cardinality(D \cup {i}) = Cardinality(D) + 1
      BY <1>3, <2>2, FS_AddElement
    <3> QED BY <1>3, <3>1
  <2> QED BY <2>1, <2>2
<1>7. IsFiniteSet(D2) /\ Cardinality(D2) <= Cardinality(D \cup {i})
  BY <1>2, <1>6, FS_Subset
<1>8. /\ Cardinality(D2) \in Nat /\ Cardinality(T2) \in Nat
      /\ Cardinality(D \cup {i}) \in Nat
  BY <1>5, <1>6, <1>7, FS_CardinalityType
<1>9. MaxInstances \in Nat /\ Cardinality(D) + Cardinality(T) <= MaxInstances
  BY <1>1, PoolAssumption DEF D, T
<1>10. Cardinality(D2) + Cardinality(T2) <= MaxInstances
  BY <1>3, <1>4, <1>5, <1>6, <1>7, <1>8, <1>9
<1> QED BY <1>10 DEF D2, T2

\* Call g is let in: before the step, what it will count as is below the limit.
LEMMA LimitTaken ==
    ASSUME NEW D, D \in SUBSET OnDemand, NEW T, NEW E, IsFiniteSet(E), T \in SUBSET E,
           Cardinality(OnDemand) + Cardinality(E) <= MaxInstances
    PROVE  Cardinality(D) + Cardinality(T) <= MaxInstances
<1>1. IsFiniteSet(D) /\ Cardinality(D) <= Cardinality(OnDemand)
  BY LimitFinite, FS_Subset
<1>2. IsFiniteSet(T) /\ Cardinality(T) <= Cardinality(E)
  BY FS_Subset
<1>3. Cardinality(D) \in Nat /\ Cardinality(T) \in Nat /\ Cardinality(E) \in Nat
  BY <1>1, <1>2, FS_CardinalityType
<1>4. MaxInstances \in Nat /\ Cardinality(OnDemand) \in Nat
  BY LimitFinite, PoolAssumption
<1> QED BY <1>1, <1>2, <1>3, <1>4

LEMMA LimitAdmitContainer ==
    ASSUME PoolInv, NEW g \in Calls, AdmitContainer(g)
    PROVE  OnDemandWithinLimit'
<1>1. TypeOK /\ CallShape(g)
  BY DEF PoolInv, Ownership
<1>2. /\ pc' = Goto(g, "start") /\ pc[g] = "container" /\ ~Nil /\ TotalLive <= MaxInstances
      /\ UNCHANGED <<warm, kind, cfg, inst, drop, left, made, closed, prewarmed>>
  BY DEF AdmitContainer, At, Fits, contVars
<1>3. kind[g] = "invoke" /\ inst[g] = None
  BY <1>1, <1>2 DEF CallShape
<1>4. "start" \in Labels
  BY DEF Labels
<1>5. \A h \in Calls \ {g} : KeepsStart(h)
  BY <1>1, <1>2, <1>4, OthersSame, BystanderKeeps
<1>6. Starts' \in SUBSET EmptyHanded
  <2>1. Starts \subseteq EmptyHanded
    BY DEF Starts, EmptyHanded, PendingCalls, SlotHolders, Admitted, PoolInv, Ownership, CallShape
  <2>2. g \in EmptyHanded
    BY <1>2, <1>3 DEF EmptyHanded, SlotHolders
  <2> QED BY <1>5, <2>1, <2>2 DEF KeepsStart, Starts, PendingCalls
<1>7. OnDemand' \in SUBSET OnDemand
  BY <1>2 DEF OnDemand, Live
<1>8. Cardinality(OnDemand) + Cardinality(EmptyHanded) <= MaxInstances /\ IsFiniteSet(EmptyHanded)
  BY <1>2, LiveBound, LimitFinite, PoolAssumption
<1>9. Cardinality(OnDemand') + Cardinality(Starts') <= MaxInstances
  BY <1>6, <1>7, <1>8, LimitTaken
<1> QED BY <1>9 DEF OnDemandWithinLimit, Starts

LEMMA LimitProactiveInit ==
    ASSUME PoolInv, NEW g \in Calls, NEW c \in Configs, ProactiveInit(g, c)
    PROVE  OnDemandWithinLimit'
<1>1. TypeOK /\ CallShape(g)
  BY DEF PoolInv, Ownership
<1>2. /\ pc' = Goto(g, "spawned") /\ pc[g] = "unused" /\ ~Nil /\ TotalLive + 1 <= MaxInstances
      /\ \A h \in Calls \ {g} : kind'[h] = kind[h] /\ cfg'[h] = cfg[h]
      /\ UNCHANGED <<warm, inst, drop, left, made, closed, prewarmed>>
  BY <1>1 DEF ProactiveInit, FreshCall, contVars, TypeOK
<1>4. "spawned" \in Labels
  BY DEF Labels
<1>5. \A h \in Calls \ {g} : KeepsStart(h)
  BY <1>1, <1>2, <1>4, OthersSame, BystanderKeeps
<1> DEFINE E == EmptyHanded
<1>6. Starts' \in SUBSET (E \cup {g}) /\ g \notin E
  <2>1. Starts \subseteq EmptyHanded
    BY DEF Starts, EmptyHanded, PendingCalls, SlotHolders, Admitted, PoolInv, Ownership, CallShape
  <2>2. g \notin EmptyHanded
    BY <1>2 DEF EmptyHanded, SlotHolders
  <2> QED BY <1>5, <2>1, <2>2 DEF KeepsStart, Starts, PendingCalls
<1>7. OnDemand' \in SUBSET OnDemand
  BY <1>2 DEF OnDemand, Live
<1>8. /\ Cardinality(OnDemand) + Cardinality(E) <= TotalLive
      /\ IsFiniteSet(E) /\ Cardinality(E) \in Nat /\ TotalLive \in Nat
  BY <1>2, LiveBound
<1> HIDE DEF E
<1>9. IsFiniteSet(E \cup {g}) /\ Cardinality(E \cup {g}) = Cardinality(E) + 1
  BY <1>6, <1>8, FS_AddElement
<1>10. Cardinality(OnDemand) + Cardinality(E \cup {g}) <= MaxInstances
  <2>1. MaxInstances \in Nat /\ Cardinality(OnDemand) \in Nat
    BY LimitFinite, PoolAssumption
  <2> QED BY <1>2, <1>8, <1>9, <2>1
<1>11. Cardinality(OnDemand') + Cardinality(Starts') <= MaxInstances
  BY <1>6, <1>7, <1>9, <1>10, LimitTaken
<1> QED BY <1>11 DEF OnDemandWithinLimit, Starts

LEMMA LimitFinishColdStart ==
    ASSUME PoolInv, OnDemandWithinLimit, NEW g \in Calls, FinishColdStart(g)
    PROVE  OnDemandWithinLimit'
<1>1. TypeOK /\ CallShape(g)
  BY DEF PoolInv, Ownership
<1>2. /\ pc[g] = "creating" /\ inst[g] = None /\ (Nil => Nil')
      /\ UNCHANGED <<warm, kind, cfg, closed>>
  BY <1>1 DEF FinishColdStart, At, CallShape, Nil
<1>3. \A h \in Calls \ {g} : inst'[h] = inst[h] /\ drop'[h] = drop[h] /\ left'[h] = left[h]
  BY <1>1 DEF FinishColdStart, FinishAdmitted, FinishReserved, TypeOK
<1>4. \E l \in {"unreserve", "commit", "loop", "mark"} : pc' = Goto(g, l)
  BY DEF FinishColdStart, FinishAdmitted, FinishReserved
<1>5. \A l \in {"unreserve", "commit", "loop", "mark"} : l \in Labels
  BY DEF Labels
<1>6. \A h \in Calls \ {g} : KeepsStart(h)
  BY <1>1, <1>2, <1>3, <1>4, <1>5, OthersSame, BystanderKeeps
\* Nothing that a call had before comes up with this step.
<1>7. ASSUME NEW j \in OnDemand', made'[j] = made[j] \/ j \in prewarmed', prewarmed \subseteq prewarmed',
             inst'[g] # j
      PROVE  j \in OnDemand
  <2>1. j \in Instances /\ made[j] # None /\ j \notin closed /\ j \notin prewarmed
    BY <1>2, <1>7 DEF OnDemand, Live
  <2>2. j \in warm \/ \E h \in Calls : inst[h] = j
    BY <1>2, <1>3, <1>7 DEF OnDemand
  <2> QED BY <2>1, <2>2 DEF OnDemand, Live
<1>8. ASSUME FinishAdmitted(g, made, None) PROVE NothingStarted
  <2>1. UNCHANGED <<made, prewarmed>> /\ inst'[g] = None /\ Admitted(g)
    BY <1>1, <1>8 DEF FinishAdmitted, TypeOK
  <2>2. OnDemand' \subseteq OnDemand
    BY <1>7, <2>1, PoolAssumption DEF OnDemand, Live
  <2>3. KeepsStart(g)
    BY <1>2, <2>1 DEF KeepsStart, PendingCalls
  <2> QED BY <1>2, <1>6, <2>2, <2>3 DEF NothingStarted
<1>9. ASSUME NEW i \in Instances, FinishAdmitted(g, [made EXCEPT ![i] = cfg[g]], i)
      PROVE  OnDemandWithinLimit'
  <2>1. /\ \A j \in Instances \ {i} : made'[j] = made[j]
        /\ prewarmed' = prewarmed /\ inst'[g] = i /\ Admitted(g) /\ i # None
    BY <1>1, <1>9, PoolAssumption DEF FinishAdmitted, TypeOK
  <2>2. g \in Starts
    BY <1>2, <2>1 DEF Starts, PendingCalls
  <2>3. OnDemand' \subseteq OnDemand \cup {i}
    <3>1. ASSUME NEW j \in OnDemand', j # i PROVE j \in OnDemand
      <4>1. j \in Instances
        BY DEF OnDemand, Live
      <4> QED BY <1>7, <2>1, <3>1, <4>1
    <3> QED BY <3>1
  <2>4. Starts' \subseteq Starts \ {g}
    BY <1>6, <2>1 DEF KeepsStart, Starts, PendingCalls
  <2> QED BY <1>2, <2>2, <2>3, <2>4, LimitCreated
<1>10. ASSUME NEW i \in Instances \cup {None}, NEW m, FinishReserved(g, m, i),
              \A j \in Instances \ {i} : m[j] = made[j]
       PROVE  NothingStarted
  <2>1. /\ made' = m /\ prewarmed \subseteq prewarmed' /\ (i # None => i \in prewarmed')
        /\ inst'[g] \in {i, None} /\ kind'[g] = "replenish"
    BY <1>1, <1>2, <1>10 DEF FinishReserved, TypeOK
  <2>2. ASSUME NEW j \in OnDemand' PROVE j \in OnDemand
    <3>1. j \in Instances /\ j # None /\ j \notin prewarmed'
      BY PoolAssumption DEF OnDemand, Live
    <3>2. j # i /\ inst'[g] # j
      BY <2>1, <3>1
    <3> QED BY <1>7, <1>10, <2>1, <3>1, <3>2
  <2>3. KeepsStart(g)
    BY <2>1 DEF KeepsStart, PendingCalls, Admitted
  <2> QED BY <1>2, <1>6, <2>2, <2>3 DEF NothingStarted
<1>11. ASSUME NEW i \in Instances, FinishReserved(g, [made EXCEPT ![i] = cfg[g]], i)
       PROVE  NothingStarted
  <2>1. \A j \in Instances \ {i} : [made EXCEPT ![i] = cfg[g]][j] = made[j]
    BY <1>1 DEF TypeOK
  <2> QED BY <1>10, <1>11, <2>1
<1>12. ASSUME FinishReserved(g, made, None) PROVE NothingStarted
  BY <1>10, <1>12
<1>13. NothingStarted => OnDemandWithinLimit'
  BY LimitKept
<1> QED BY <1>8, <1>9, <1>11, <1>12, <1>13 DEF FinishColdStart

\* Containers on demand, those still starting included, stay within the limit on
\* instances: admission counts slots, and each of them has one.
THEOREM OnDemandLimitHolds == Spec => []OnDemandWithinLimit
<1>1. Init => OnDemandWithinLimit
  <2> SUFFICES ASSUME Init PROVE OnDemandWithinLimit
    OBVIOUS
  <2>1. OnDemand = {} /\ {g \in PendingCalls : inst[g] = None} = {}
    BY DEF Init, OnDemand, Live, PendingCalls, Admitted
  <2>2. MaxInstances \in Nat
    BY PoolAssumption
  <2> QED BY <2>1, <2>2, FS_EmptySet DEF OnDemandWithinLimit
<1>2. PoolInv /\ PoolInv' /\ OnDemandWithinLimit /\ [Next]_vars => OnDemandWithinLimit'
  <2>1. ASSUME PoolInv, PoolInv', OnDemandWithinLimit, Next PROVE OnDemandWithinLimit'
    <3>1. PICK g \in Calls : \/ Acquire(g) \/ ColdStart(g) \/ ReplenishLoop(g) \/ ReleaseAny(g)
                             \/ CloseInstance(g) \/ Management(g)
      BY <2>1 DEF Next
    <3>2. \/ NothingStarted \/ AdmitContainer(g) \/ FinishColdStart(g)
          \/ \E c \in Configs : ProactiveInit(g, c)
      BY <2>1, <3>1, SteadySteps
    <3> QED BY <2>1, <3>2, LimitKept, LimitAdmitContainer, LimitFinishColdStart, LimitProactiveInit
  <2>2. ASSUME OnDemandWithinLimit, UNCHANGED vars PROVE OnDemandWithinLimit'
    <3>1. OnDemand' = OnDemand /\ PendingCalls' = PendingCalls /\ inst' = inst /\ Nil' = Nil
      BY <2>2 DEF OnDemand, Live, PendingCalls, Admitted, Nil, vars, callVars, contVars
    <3> QED BY <2>2, <3>1 DEF OnDemandWithinLimit
  <2> QED BY <2>1, <2>2
<1> QED BY InvariantHolds, <1>1, <1>2, PTL DEF Spec

=============================================================================

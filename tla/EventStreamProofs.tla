-------------------------- MODULE EventStreamProofs --------------------------
(* Proofs about EventStream, for any filter, history, channel and tracker: a
   point in a frame covers nothing that is still to come, nothing reaches a
   connection twice, and a client that comes back loses nothing that the history
   still has.                                                                 *)

EXTENDS EventStream, WellFoundedInduction, FiniteSetTheorems, TLAPS

-----------------------------------------------------------------------------
(* Operators. *)

\* A non-empty set of naturals has a least element, which Min is.
LEMMA MinOf ==
    ASSUME NEW S, S \subseteq Nat, S # {}
    PROVE  Min(S) \in S /\ \A y \in S : Min(S) <= y
<1> DEFINE R == OpToRel(<, Nat)
<1>0. IsWellFoundedOn(R, Nat)
  BY NatLessThanWellFounded
<1>1. \E i \in S : \A j \in S : ~(<<j, i>> \in R)
  <2> HIDE DEF R
  <2> QED BY <1>0, WFMin
<1>2. PICK i \in S : \A j \in S : ~(<<j, i>> \in R)
  BY <1>1
<1>3. \A j \in S : ~(j < i)
  BY <1>2 DEF OpToRel
<1>4. \E x \in S : \A y \in S : x <= y
  BY <1>3
<1> QED BY <1>4 DEF Min

\* A non-empty set of naturals below a bound has a greatest, which Max is.
LEMMA MaxOf ==
    ASSUME NEW b \in Nat, NEW S \in SUBSET (0..b), S # {}
    PROVE  Max(S) \in S /\ \A y \in S : y <= Max(S)
<1> DEFINE D == {m \in Nat : \E j \in S : m = b - j}
<1>1. D \subseteq Nat /\ D # {}
  <2>1. PICK j \in S : TRUE
    OBVIOUS
  <2>2. b - j \in Nat
    OBVIOUS
  <2> QED BY <2>2
<1>2. Min(D) \in D /\ \A y \in D : Min(D) <= y
  <2> HIDE DEF D
  <2> QED BY <1>1, MinOf
<1>3. PICK j \in S : Min(D) = b - j
  BY <1>2
<1>4. ASSUME NEW y \in S PROVE y <= j
  <2>1. b - y \in D
    OBVIOUS
  <2>2. Min(D) <= b - y
    BY <1>2, <2>1
  <2> QED BY <1>3, <2>2
<1>5. \E x \in S : \A y \in S : x >= y
  BY <1>4
<1> QED BY <1>5 DEF Max

\* advanceTo passes only over what is in the set.
LEMMA AdvanceToIs ==
    ASSUME NEW b \in Nat, NEW n \in 0..b, NEW a \in SUBSET (0..b)
    PROVE  /\ AdvanceTo(n, a) \in n..b
           /\ \A k \in (n + 1)..AdvanceTo(n, a) : k \in a
<1> DEFINE S == {k \in n..(n + Cardinality(a)) : (n + 1)..k \subseteq a}
<1>1. Cardinality(a) \in Nat
  <2>1. IsFiniteSet(0..b)
    BY FS_Interval
  <2>2. IsFiniteSet(a)
    BY <2>1, FS_Subset
  <2> QED BY <2>2, FS_CardinalityType
<1>2. n \in S
  BY <1>1
<1>3. S \in SUBSET (0..(n + Cardinality(a))) /\ n + Cardinality(a) \in Nat
  BY <1>1
<1>4. Max(S) \in S
  <2> HIDE DEF S
  <2> QED BY <1>2, <1>3, MaxOf
<1>5. AdvanceTo(n, a) \in S
  BY <1>4, Zenon DEF AdvanceTo
<1>6. AdvanceTo(n, a) \in n..(n + Cardinality(a)) /\ (n + 1)..AdvanceTo(n, a) \subseteq a
  BY <1>5
<1>7. AdvanceTo(n, a) = n \/ AdvanceTo(n, a) \in a
  BY <1>1, <1>6
<1> QED BY <1>1, <1>6, <1>7

\* saw moves the mark over what has been seen, or, with its bookkeeping full,
\* to the newest event seen.
LEMMA SawIs ==
    ASSUME NEW b \in Nat, NEW s \in 1..b, NEW p \in 0..b, NEW a \in SUBSET (1..b)
    PROVE  /\ Saw(s, p, a).point \in p..b
           /\ Saw(s, p, a).point \in {p, s} \cup a
           /\ Saw(s, p, a).ahead \subseteq a \cup {s}
           /\ \/ \A k \in (p + 1)..Saw(s, p, a).point : k \in a \cup {s}
              \/ /\ s > p + 1 /\ Cardinality(a \cup {s}) > MaxAhead
                 /\ Saw(s, p, a).point = Max(a \cup {s})
<1> DEFINE a1 == a \cup {s}
           n  == IF s = p + 1 THEN s
                 ELSE IF Cardinality(a1) > MaxAhead THEN Max(a1)
                 ELSE p
           m  == AdvanceTo(n, a1)
<1>1. a1 \in SUBSET (0..b) /\ a1 # {}
  OBVIOUS
<1>2. Max(a1) \in a1 /\ \A y \in a1 : y <= Max(a1)
  <2> HIDE DEF a1
  <2> QED BY <1>1, MaxOf
<1>3. CASE s <= p
  <2>1. Saw(s, p, a) = [point |-> p, ahead |-> a]
    BY <1>3 DEF Saw
  <2> QED BY <2>1
<1>4. CASE ~(s <= p)
  <2>1. Saw(s, p, a) = [point |-> m, ahead |-> {k \in a1 : k > m}]
    BY <1>4, Zenon DEF Saw
  <2>0. \/ n = s /\ s = p + 1
        \/ n = Max(a1) /\ Cardinality(a1) > MaxAhead /\ s # p + 1
        \/ n = p
    BY Zenon
  <2>2. n \in 0..b /\ n >= p /\ n \in {p, s} \cup a
    <3>1. s \in a1 /\ \A k \in a1 : k \in 0..b /\ k \in {p, s} \cup a
      OBVIOUS
    <3> HIDE DEF n, a1
    <3>2. Max(a1) \in a1 /\ Max(a1) >= s
      BY <1>2, <3>1
    <3>3. Max(a1) \in 0..b /\ Max(a1) \in {p, s} \cup a
      BY <3>1, <3>2
    <3>4. s \in 0..b /\ p \in 0..b /\ s > p
      BY <1>4
    <3>5. CASE n = Max(a1)
      BY <3>2, <3>3, <3>4, <3>5
    <3>6. CASE n = s \/ n = p
      BY <3>4, <3>6
    <3> QED BY <2>0, <3>5, <3>6
  <2>3. m \in n..b /\ \A k \in (n + 1)..m : k \in a1
    <3> HIDE DEF n, a1
    <3> QED BY <1>1, <2>2, AdvanceToIs
  <2>4. m = n \/ m \in a1
    BY <2>2, <2>3
  <2>5. Saw(s, p, a).point = m /\ Saw(s, p, a).ahead \subseteq a1
    BY <2>1
  <2>6. \/ \A k \in (p + 1)..m : k \in a1
        \/ s > p + 1 /\ Cardinality(a1) > MaxAhead /\ m = Max(a1)
    <3> HIDE DEF n, m, a1
    <3>1. s \in a1
      BY DEF a1
    <3>2. CASE n = s /\ s = p + 1
      BY <3>1, <3>2, <2>3
    <3>3. CASE n = Max(a1) /\ Cardinality(a1) > MaxAhead /\ s # p + 1
      <4>1. m <= Max(a1)
        BY <1>1, <1>2, <2>2, <2>3, <2>4, <3>3
      <4>2. m = Max(a1) /\ s > p + 1
        BY <4>1, <2>2, <2>3, <3>3, <1>4
      <4> QED BY <4>2, <3>3
    <3>4. CASE n = p
      BY <3>4, <2>3
    <3> QED BY <2>0, <3>2, <3>3, <3>4
  <2> HIDE DEF m, n
  <2> QED BY <2>2, <2>3, <2>4, <2>5, <2>6
<1> QED BY <1>3, <1>4

\* reach moves the mark over what is below its target and what has been seen.
LEMMA ReachIs ==
    ASSUME NEW b \in Nat, NEW n \in 0..b, NEW p \in 0..b, NEW a \in SUBSET (1..b)
    PROVE  /\ Reach(n, p, a).point \in p..b
           /\ Reach(n, p, a).point \in {p, n} \cup a
           /\ Reach(n, p, a).ahead \subseteq a
<1> DEFINE m == AdvanceTo(n, a)
<1>1. CASE n <= p
  <2>1. Reach(n, p, a) = [point |-> p, ahead |-> a]
    BY <1>1 DEF Reach
  <2> QED BY <2>1
<1>2. CASE ~(n <= p)
  <2>1. Reach(n, p, a) = [point |-> m, ahead |-> {k \in a : k > m}]
    BY <1>2, Zenon DEF Reach
  <2>2. m \in n..b /\ \A k \in (n + 1)..m : k \in a
    BY AdvanceToIs
  <2>3. m = n \/ m \in a
    BY <2>2
  <2>4. Reach(n, p, a).point = m /\ Reach(n, p, a).ahead \subseteq a
    BY <2>1
  <2> HIDE DEF m
  <2> QED BY <1>2, <2>2, <2>3, <2>4
<1> QED BY <1>1, <1>2

\* The entries of a queue from which the first is taken, or to which one is added.
LEMMA QueueFacts ==
    ASSUME NEW S, NEW q \in Seq(S)
    PROVE  /\ Len(q) \in Nat /\ DOMAIN q = 1..Len(q)
           /\ \A i \in 1..Len(q) : q[i] \in S
           /\ q # <<>> => /\ Len(q) >= 1 /\ Head(q) = q[1] /\ Head(q) \in S
                          /\ Tail(q) \in Seq(S) /\ Len(Tail(q)) = Len(q) - 1
                          /\ \A i \in 1..(Len(q) - 1) : Tail(q)[i] = q[i + 1]
           /\ \A x \in S : /\ Append(q, x) \in Seq(S) /\ Len(Append(q, x)) = Len(q) + 1
                           /\ Append(q, x)[Len(q) + 1] = x
                           /\ \A i \in 1..Len(q) : Append(q, x)[i] = q[i]
OBVIOUS

\* Sequences over a larger set.
LEMMA WiderSeq ==
    ASSUME NEW S, NEW T, S \subseteq T
    PROVE  Seq(S) \subseteq Seq(T)
OBVIOUS

LEMMA EmptySeq == ASSUME NEW S PROVE <<>> \in Seq(S) /\ Len(<<>>) = 0
OBVIOUS

-----------------------------------------------------------------------------
(* The write of a frame. *)

\* What writing s does to the tracker and to the wire.
Frames(s) ==
    /\ wire' \in Seq([event : 1..seq, point : 0..seq])
    /\ \A i \in 1..Len(wire) : wire'[i] = wire[i]
    /\ s \in Wanted => /\ Len(wire') = Len(wire) + 1
                       /\ wire'[Len(wire) + 1].event = s
                       /\ wire'[Len(wire) + 1].point = point'
    /\ s \notin Wanted => wire' = wire

Tracked(s) ==
    /\ point' \in point..seq /\ point' \in {point, s} \cup ahead
    /\ ahead' \subseteq ahead \cup {s}
    /\ given \subseteq given' /\ given' \subseteq 1..seq
    /\ conn = "live" => \A k \in (point + 1)..point' : k \in ahead \cup {s} \cup given'

LEMMA WriteTracks ==
    ASSUME TypeOK, NEW s \in 1..seq, Write(s)
    PROVE  Tracked(s)
<1> DEFINE seen == ahead \cup {s}
<1>1. seq \in Nat /\ point \in 0..seq /\ ahead \in SUBSET (1..seq) /\ given \subseteq 1..seq
  BY StreamAssumption DEF TypeOK, StreamAssumption
<1>2. /\ point' = Saw(s, point, ahead).point /\ ahead' = Saw(s, point, ahead).ahead
      /\ given' = given \cup GivenUp(s)
  BY DEF Write
<1>3. /\ point' \in point..seq /\ point' \in {point, s} \cup ahead /\ ahead' \subseteq seen
      /\ \/ \A k \in (point + 1)..point' : k \in seen
         \/ s > point + 1 /\ Cardinality(seen) > MaxAhead /\ point' = Max(seen)
  BY <1>1, <1>2, SawIs
<1>4. Max(seen) \in 1..seq
  <2>1. seen \in SUBSET (0..seq) /\ seen # {} /\ seen \subseteq 1..seq
    BY <1>1
  <2> HIDE DEF seen
  <2>2. Max(seen) \in seen
    BY <1>1, <2>1, MaxOf
  <2> QED BY <2>1, <2>2
<1>5. GivenUp(s) = IF conn = "live" /\ s > point + 1 /\ Cardinality(seen) > MaxAhead
                   THEN ((point + 1)..Max(seen)) \ seen ELSE {}
  BY Zenon DEF GivenUp
<1>6. GivenUp(s) \subseteq 1..seq
  <2> HIDE DEF seen
  <2> QED BY <1>1, <1>4, <1>5
<1>7. ASSUME conn = "live", NEW k \in (point + 1)..point'
      PROVE  k \in seen \cup given'
  <2> HIDE DEF seen
  <2>1. CASE k \notin seen
    <3>1. s > point + 1 /\ Cardinality(seen) > MaxAhead /\ point' = Max(seen)
      BY <1>3, <2>1
    <3>2. GivenUp(s) = ((point + 1)..point') \ seen
      BY <1>5, <1>7, <3>1
    <3> QED BY <1>2, <1>7, <2>1, <3>2
  <2> QED BY <2>1
<1>8. given \subseteq given' /\ given' \subseteq 1..seq
  BY <1>1, <1>2, <1>6
<1> QED BY <1>3, <1>7, <1>8 DEF Tracked

LEMMA WriteFrames ==
    ASSUME TypeOK, NEW s \in 1..seq, Write(s)
    PROVE  Frames(s)
<1> DEFINE F == [event : 1..seq, point : 0..seq]
           f == [event |-> s, point |-> Saw(s, point, ahead).point]
<1>1. seq \in Nat /\ point \in 0..seq /\ wire \in Seq(F)
  BY StreamAssumption DEF TypeOK, StreamAssumption
<1>2. Tracked(s) /\ point' = Saw(s, point, ahead).point
  BY WriteTracks DEF Write
<1>3. f \in F /\ f.event = s /\ f.point = point'
  BY <1>1, <1>2 DEF Tracked
<1>4. wire' = IF s \in Wanted THEN Append(wire, f) ELSE wire
  BY DEF Write
<1> HIDE DEF f, F
<1>5. CASE s \in Wanted
  <2>1. /\ Append(wire, f) \in Seq(F) /\ Len(Append(wire, f)) = Len(wire) + 1
        /\ Append(wire, f)[Len(wire) + 1] = f
        /\ \A i \in 1..Len(wire) : Append(wire, f)[i] = wire[i]
    BY <1>1, <1>3, QueueFacts
  <2>2. wire' = Append(wire, f)
    BY <1>4, <1>5
  <2> QED BY <1>3, <1>5, <2>1, <2>2 DEF Frames, F
<1>6. CASE s \notin Wanted
  BY <1>1, <1>4, <1>6 DEF Frames, F
<1> QED BY <1>5, <1>6

-----------------------------------------------------------------------------
(* The types, taken apart. *)

Typed ==
    /\ seq \in Nat /\ seq \in 0..MaxSeq /\ run \in 1..MaxRun /\ conns \in 0..MaxConn
    /\ history \subseteq 1..seq /\ Cardinality(history) <= HistoryCap
    /\ conn \in {"off", "replay", "live"}
    /\ resumeFrom \in 0..seq /\ highest \in 0..seq /\ point \in 0..seq
    /\ snapshot \subseteq 1..seq /\ inflight \subseteq 1..seq /\ ahead \subseteq 1..seq
    /\ Len(ch) <= Buffer
    /\ received \subseteq 1..seq /\ given \subseteq 1..seq

Entries ==
    /\ Len(ch) \in Nat /\ DOMAIN ch = 1..Len(ch)
    /\ \A i \in 1..Len(ch) : ch[i] \in 1..seq
    /\ Len(wire) \in Nat /\ DOMAIN wire = 1..Len(wire)
    /\ \A i \in 1..Len(wire) : wire[i].event \in 1..seq /\ wire[i].point \in 0..seq
    /\ token.run \in 1..run /\ token.point \in 0..MaxSeq
    /\ Waiting \subseteq 1..seq /\ Written \subseteq 1..seq

Holders ==
    /\ ch \in Seq(1..seq)
    /\ wire \in Seq([event : 1..seq, point : 0..seq])
    /\ token \in [run : 1..run, point : 0..MaxSeq]

LEMMA TypeParts == TypeOK <=> Typed /\ Holders
<1>1. MaxSeq \in Nat
  BY StreamAssumption DEF StreamAssumption
<1>2. {resumeFrom, highest, point} \subseteq 0..seq
      <=> resumeFrom \in 0..seq /\ highest \in 0..seq /\ point \in 0..seq
  OBVIOUS
<1>3. seq \in 0..MaxSeq => seq \in Nat
  BY <1>1
<1> QED BY <1>2, <1>3, Zenon DEF TypeOK, Typed, Holders

LEMMA EntriesOf ==
    ASSUME Typed, Holders
    PROVE  Entries
<1> DEFINE F == [event : 1..seq, point : 0..seq]
<1>1. \A f \in F : f.event \in 1..seq /\ f.point \in 0..seq
  OBVIOUS
<1>2. wire \in Seq(F)
  BY DEF Holders
<1> HIDE DEF F
<1>3. /\ Len(wire) \in Nat /\ DOMAIN wire = 1..Len(wire)
      /\ \A i \in 1..Len(wire) : wire[i] \in F
  BY <1>2, QueueFacts
<1>4. \A i \in 1..Len(wire) : wire[i].event \in 1..seq /\ wire[i].point \in 0..seq
  BY <1>1, <1>3
<1>5. token.run \in 1..run /\ token.point \in 0..MaxSeq
  BY DEF Holders
<1>6. /\ Len(ch) \in Nat /\ DOMAIN ch = 1..Len(ch)
      /\ \A i \in 1..Len(ch) : ch[i] \in 1..seq
  BY QueueFacts DEF Holders
<1>7. inflight \subseteq 1..seq
  BY DEF Typed
<1>8. Waiting \subseteq 1..seq
  BY <1>6, <1>7 DEF Waiting
<1>9. Written \subseteq 1..seq
  BY <1>3, <1>4 DEF Written
<1> QED BY <1>3, <1>4, <1>5, <1>6, <1>8, <1>9 DEF Entries

\* The parts of the invariant, and the types they speak of.
Parts ==
    /\ Typed /\ Holders /\ Entries
    /\ MarkIsContiguous /\ OncePerConnection /\ NothingStranded
    /\ Meeting /\ WaitsOnce /\ InOrder /\ Accounted

LEMMA PartsOf == ResumeInv <=> Parts
BY TypeParts, EntriesOf DEF ResumeInv, StreamInv, Parts

LEMMA TypePartsLater == Typed' /\ Holders' => TypeOK'
BY TypeParts, PTL

-----------------------------------------------------------------------------
(* The server and the bus. *)

\* Making room keeps the history within its capacity.
LEMMA HistoryFits ==
    ASSUME NEW H, IsFiniteSet(H), NEW old \in SUBSET H, NEW cap \in Nat \ {0}, NEW x,
           Cardinality(H) <= cap,
           Cardinality(old) = IF Cardinality(H) >= cap THEN 1 ELSE 0
    PROVE  Cardinality((H \ old) \cup {x}) <= cap
<1>1. IsFiniteSet(old) /\ IsFiniteSet(H \ old)
  BY FS_Subset, FS_Difference
<1>2. Cardinality(H \ old) = Cardinality(H) - Cardinality(H \cap old)
  BY FS_Difference
<1>3. H \cap old = old
  OBVIOUS
<1>4. Cardinality(H) \in Nat /\ Cardinality(H \ old) \in Nat
  BY <1>1, FS_CardinalityType
<1>5. Cardinality(H \ old) <= cap - 1
  BY <1>2, <1>3, <1>4
<1>6. Cardinality((H \ old) \cup {x}) <= Cardinality(H \ old) + 1
  <2> DEFINE R == H \ old
  <2>1. IsFiniteSet(R) /\ Cardinality(R) \in Nat
    BY <1>1, <1>4
  <2> HIDE DEF R
  <2>2. \/ Cardinality(R \cup {x}) = Cardinality(R)
        \/ Cardinality(R \cup {x}) = Cardinality(R) + 1
    BY <2>1, FS_AddElement
  <2>3. Cardinality(R \cup {x}) <= Cardinality(R) + 1
    BY <2>1, <2>2
  <2> QED BY <2>3 DEF R
<1>7. Cardinality((H \ old) \cup {x}) \in Nat
  BY <1>1, FS_AddElement, FS_CardinalityType
<1> QED BY <1>4, <1>5, <1>6, <1>7

LEMMA StepPublish ==
    ASSUME Parts, Publish
    PROVE  ResumeInv'
<1> USE DEF Parts
<1>1. seq \in Nat /\ seq' = seq + 1 /\ seq' \in Nat /\ seq' \in 0..MaxSeq
  BY StreamAssumption DEF StreamAssumption, Typed, Publish
<1>2. /\ run' = run /\ conn' = conn /\ conns' = conns /\ resumeFrom' = resumeFrom
      /\ snapshot' = snapshot /\ highest' = highest /\ ch' = ch /\ point' = point
      /\ ahead' = ahead /\ wire' = wire /\ token' = token /\ received' = received
      /\ given' = given
      /\ inflight' = IF conn = "off" THEN {} ELSE inflight \cup {seq + 1}
  BY DEF Publish, clientVars
<1>3. PICK old \in SUBSET history :
         /\ Cardinality(old) = IF Cardinality(history) >= HistoryCap THEN 1 ELSE 0
         /\ history' = (history \ old) \cup {seq + 1}
  BY DEF Publish
<1>4. TypeOK'
  <2>1. history' \subseteq 1..seq'
    BY <1>1, <1>3 DEF Typed
  <2>2. Cardinality(history') <= HistoryCap
    <3>1. IsFiniteSet(1..seq)
      BY <1>1, FS_Interval
    <3>2. IsFiniteSet(history)
      BY <3>1, FS_Subset DEF Typed
    <3>3. Cardinality(history) <= HistoryCap /\ HistoryCap \in Nat \ {0}
      BY StreamAssumption DEF StreamAssumption, Typed
    <3> QED BY <1>3, <3>2, <3>3, HistoryFits
  <2>3. Typed'
    <3>1. inflight' \subseteq 1..seq'
      <4>1. inflight' \subseteq inflight \cup {seq + 1}
        BY <1>2
      <4>2. \A x \in inflight \cup {seq + 1} : x \in 1..seq'
        BY <1>1 DEF Typed
      <4> QED BY <4>1, <4>2
    <3>2. /\ snapshot' \subseteq 1..seq' /\ ahead' \subseteq 1..seq'
          /\ received' \subseteq 1..seq' /\ given' \subseteq 1..seq'
      BY <1>1, <1>2 DEF Typed
    <3>3. resumeFrom' \in 0..seq' /\ highest' \in 0..seq' /\ point' \in 0..seq'
      BY <1>1, <1>2 DEF Typed
    <3> QED BY <1>1, <1>2, <2>1, <2>2, <3>1, <3>2, <3>3 DEF Typed
  <2>4. Seq(1..seq) \subseteq Seq(1..seq')
    BY <1>1, WiderSeq
  <2>5. Seq([event : 1..seq, point : 0..seq]) \subseteq Seq([event : 1..seq', point : 0..seq'])
    <3> DEFINE F == [event : 1..seq, point : 0..seq]
               G == [event : 1..seq', point : 0..seq']
    <3>1. F \subseteq G
      BY <1>1
    <3> HIDE DEF F, G
    <3>2. Seq(F) \subseteq Seq(G)
      BY <3>1, WiderSeq
    <3> QED BY <3>2 DEF F, G
  <2>6. Holders'
    BY <1>2, <2>4, <2>5, Zenon DEF Holders
  <2> QED BY <2>3, <2>6, TypePartsLater
<1>5. /\ Waiting' \subseteq Waiting \cup {seq + 1} /\ (conn = "off" => inflight' = {})
      /\ Written' = Written /\ Backlog' = Backlog /\ Dealt' = Dealt
      /\ Owed' \subseteq Owed \cup {seq + 1}
  BY <1>2, <1>3 DEF Waiting, Written, Backlog, Dealt, Owed
<1>8. MarkIsContiguous'
  BY <1>1, <1>2, <1>5 DEF Typed, Entries, MarkIsContiguous
<1>9. OncePerConnection'
  BY <1>1, <1>2, <1>5 DEF Typed, Entries, OncePerConnection, Backlog
<1>10. NothingStranded'
  BY <1>1, <1>2, <1>3 DEF Typed, Entries, NothingStranded, ParseResumePoint, Meeting
<1>11. Meeting'
  <2>1. seq' \in history' /\ (token'.run = run' => token'.point <= seq')
    BY <1>1, <1>2, <1>3 DEF Typed, Entries, Meeting
  <2>2. \A s \in Waiting' : s > highest'
    BY <1>1, <1>2, <1>5 DEF Typed, Entries, Meeting
  <2> QED BY <1>2, <1>5, <2>1, <2>2 DEF Meeting
<1>12. WaitsOnce'
  BY <1>1, <1>2, <1>5 DEF Typed, Entries, WaitsOnce
<1>13. InOrder'
  BY <1>2, <1>5 DEF InOrder
<1>14. Accounted'
  <2>1. \A s \in Owed' : s <= highest' => s \in Dealt' \cup Backlog'
    BY <1>1, <1>2, <1>5 DEF Typed, Accounted
  <2>2. \A s \in Owed' : (s <= point' \/ s \in ahead') => s \in Dealt'
    BY <1>1, <1>2, <1>5 DEF Typed, Accounted
  <2>3. ASSUME NEW i \in DOMAIN wire', NEW s \in Owed', s <= wire'[i].point
        PROVE  s \in received' \cup given' \cup {wire'[j].event : j \in 1..i}
    <3>1. i \in 1..Len(wire) /\ wire[i].point \in 0..seq /\ s <= wire[i].point
      BY <1>2, <2>3 DEF Entries
    <3>2. s \in Owed
      BY <1>1, <1>5, <3>1
    <3> QED BY <1>2, <3>1, <3>2 DEF Accounted, Entries
  <2> QED BY <2>1, <2>2, <2>3 DEF Accounted
<1> QED BY <1>4, <1>8, <1>9, <1>10, <1>11, <1>12, <1>13, <1>14 DEF ResumeInv, StreamInv

LEMMA StepDeliver ==
    ASSUME Parts, NEW s, Deliver(s)
    PROVE  ResumeInv'
<1> USE DEF Parts
<1>1. /\ run' = run /\ seq' = seq /\ history' = history
      /\ conn' = conn /\ conns' = conns /\ resumeFrom' = resumeFrom
      /\ snapshot' = snapshot /\ highest' = highest /\ point' = point
      /\ ahead' = ahead /\ wire' = wire /\ token' = token /\ received' = received
      /\ given' = given
      /\ s \in inflight /\ inflight' = inflight \ {s}
      /\ ch' = IF Len(ch) < Buffer THEN Append(ch, s) ELSE ch
  BY DEF Deliver, clientVars, serverVars
<1>2. s \in 1..seq
  BY <1>1 DEF Typed
<1>3. /\ Append(ch, s) \in Seq(1..seq) /\ Len(Append(ch, s)) = Len(ch) + 1
      /\ Append(ch, s)[Len(ch) + 1] = s
      /\ \A i \in 1..Len(ch) : Append(ch, s)[i] = ch[i]
      /\ Len(ch) \in Nat
  BY <1>2, QueueFacts DEF Holders
<1>4. ch' \in Seq(1..seq) /\ Len(ch') <= Buffer /\ DOMAIN ch' = 1..Len(ch')
  <2>1. Buffer \in Nat /\ ch \in Seq(1..seq) /\ Len(ch) <= Buffer
    BY StreamAssumption DEF StreamAssumption, Typed, Holders
  <2>2. ch' \in Seq(1..seq) /\ Len(ch') <= Buffer
    <3>1. CASE Len(ch) < Buffer
      <4>1. ch' = Append(ch, s)
        BY <1>1, <3>1
      <4>2. Len(ch') = Len(ch) + 1 /\ ch' \in Seq(1..seq)
        BY <1>3, <4>1
      <4>3. Len(ch) + 1 <= Buffer
        BY <1>3, <2>1, <3>1
      <4> QED BY <4>2, <4>3
    <3>2. CASE ~(Len(ch) < Buffer)
      BY <1>1, <2>1, <3>2
    <3> QED BY <3>1, <3>2
  <2> QED BY <2>2, QueueFacts
<1>5. TypeOK'
  <2>1. Typed'
    BY <1>1, <1>4 DEF Typed
  <2>2. Holders'
    BY <1>1, <1>4 DEF Holders
  <2> QED BY <2>1, <2>2, TypePartsLater
<1>6. \A i \in DOMAIN ch' : \/ i \in DOMAIN ch /\ ch'[i] = ch[i]
                            \/ i = Len(ch) + 1 /\ ch'[i] = s
  <2>1. CASE Len(ch) < Buffer
    BY <1>1, <1>3, <1>4, <2>1 DEF Entries
  <2>2. CASE ~(Len(ch) < Buffer)
    BY <1>1, <2>2
  <2> QED BY <2>1, <2>2
<1>7. /\ Waiting' \subseteq Waiting /\ Written' = Written /\ Backlog' = Backlog
      /\ Dealt' = Dealt /\ Owed' = Owed
  BY <1>1, <1>6 DEF Waiting, Written, Backlog, Dealt, Owed
<1>8. MarkIsContiguous'
  BY <1>1, <1>7 DEF MarkIsContiguous
<1>9. OncePerConnection'
  BY <1>1, <1>7 DEF OncePerConnection
<1>10. NothingStranded'
  BY <1>1 DEF NothingStranded, ParseResumePoint
<1>11. Meeting'
  BY <1>1, <1>7 DEF Meeting
<1>12. WaitsOnce'
  <2>1. s \notin {ch[i] : i \in DOMAIN ch}
    BY <1>1 DEF WaitsOnce
  <2>2. \A i, j \in DOMAIN ch' : ch'[i] = ch'[j] => i = j
    BY <1>6, <2>1 DEF WaitsOnce
  <2>3. \A i \in DOMAIN ch' : ch'[i] \notin inflight'
    BY <1>1, <1>6 DEF WaitsOnce
  <2>4. Waiting' \cap ahead' = {}
    BY <1>1, <1>7 DEF WaitsOnce
  <2> QED BY <2>2, <2>3, <2>4 DEF WaitsOnce
<1>13. InOrder'
  BY <1>1, <1>7 DEF InOrder
<1>14. Accounted'
  BY <1>1, <1>7 DEF Accounted
<1> QED BY <1>5, <1>8, <1>9, <1>10, <1>11, <1>12, <1>13, <1>14 DEF ResumeInv, StreamInv

-----------------------------------------------------------------------------
(* The connection. *)

LEMMA StepConnect ==
    ASSUME Parts, Connect
    PROVE  ResumeInv'
<1> USE DEF Parts
<1>1. /\ run' = run /\ seq' = seq /\ history' = history
      /\ inflight' = inflight /\ ch' = ch /\ wire' = wire
      /\ token' = token /\ received' = received /\ given' = given
      /\ conn = "off" /\ conn' = "replay" /\ conns < MaxConn /\ conns' = conns + 1
      /\ resumeFrom' = ParseResumePoint(token)
      /\ snapshot' = history /\ highest' = Highest(history)
      /\ point' = 0 /\ ahead' = {}
  BY DEF Connect, clientVars, serverVars
<1>2. inflight = {} /\ ch = <<>> /\ wire = <<>>
  BY <1>1 DEF Meeting
<1>3. Waiting' = {} /\ Written' = {} /\ Owed' = Owed /\ Dealt' = received \cup given
  BY <1>1, <1>2 DEF Waiting, Written, Owed, Dealt
<1>4. highest' = seq
  <2>1. CASE history = {}
    <3>1. seq = 0
      BY <2>1 DEF Meeting, Typed
    <3> QED BY <1>1, <2>1, <3>1 DEF Highest
  <2>2. CASE history # {}
    <3>0. PICK x \in history : TRUE
      BY <2>2
    <3>1. history \in SUBSET (0..seq) /\ seq \in Nat /\ seq \in history
      <4>1. x \in 1..seq /\ seq \in Nat
        BY <3>0 DEF Typed
      <4>2. seq > 0
        BY <4>1
      <4>3. \A y \in history : y \in 0..seq
        BY DEF Typed
      <4> QED BY <4>1, <4>2, <4>3 DEF Meeting
    <3>2. Max(history) \in history /\ \A y \in history : y <= Max(history)
      BY <2>2, <3>1, MaxOf DEF Typed
    <3>3. Max(history) = seq
      <4>1. Max(history) \in 0..seq /\ seq <= Max(history)
        BY <3>1, <3>2
      <4> QED BY <3>1, <4>1
    <3> QED BY <1>1, <2>2, <3>3 DEF Highest
  <2> QED BY <2>1, <2>2
<1>5. resumeFrom' \in 0..seq
  BY <1>1 DEF ParseResumePoint, Meeting, Entries, Typed
<1>6. TypeOK'
  <2>1. conns' \in 0..MaxConn
    BY <1>1, StreamAssumption DEF StreamAssumption, Typed
  <2>2. Typed'
    BY <1>1, <1>4, <1>5, <2>1 DEF Typed
  <2>3. Holders'
    BY <1>1 DEF Holders
  <2> QED BY <2>2, <2>3, TypePartsLater
<1>7. MarkIsContiguous'
  BY <1>1 DEF MarkIsContiguous
<1>8. OncePerConnection'
  BY <1>1, <1>2, <1>3 DEF OncePerConnection
<1>9. NothingStranded'
  BY <1>1 DEF NothingStranded, ParseResumePoint
<1>10. Meeting'
  BY <1>1, <1>2, <1>3, <1>4, <1>5 DEF Meeting, Typed
<1>11. WaitsOnce'
  BY <1>1, <1>2, <1>3 DEF WaitsOnce
<1>12. InOrder'
  <2>1. \A b \in Backlog' : 0 < b
    BY <1>1 DEF Backlog, Typed
  <2> QED BY <1>1, <1>3, <1>4, <2>1 DEF InOrder, Typed
<1>13. Accounted'
  <2>1. \A s \in Owed' : s \in Dealt' \cup Backlog'
    <3> SUFFICES ASSUME NEW s \in Owed', s \notin Dealt' PROVE s \in Backlog'
      OBVIOUS
    <3>1. s \in (history \cap Wanted) \ (received \cup given)
      BY <1>3 DEF Owed
    <3>2. s > ParseResumePoint(token)
      BY <3>1 DEF NothingStranded
    <3> QED BY <1>1, <3>1, <3>2 DEF Backlog
  <2>2. \A s \in Owed' : ~(s <= point') /\ s \notin ahead'
    BY <1>1, <1>3 DEF Owed, Typed
  <2>3. DOMAIN wire' = {}
    BY <1>1, <1>2
  <2> QED BY <2>1, <2>2, <2>3 DEF Accounted
<1> QED BY <1>6, <1>7, <1>8, <1>9, <1>10, <1>11, <1>12, <1>13 DEF ResumeInv, StreamInv

\* A connection that ends leaves nothing behind.
LEMMA StepDisconnect ==
    ASSUME Parts, Disconnect
    PROVE  ResumeInv'
<1> USE DEF Parts
<1>1. /\ run' = run /\ seq' = seq /\ history' = history /\ conns' = conns
      /\ token' = token /\ received' = received /\ given' = given
      /\ conn' = "off" /\ snapshot' = {} /\ inflight' = {} /\ ch' = <<>>
      /\ wire' = <<>> /\ point' = 0 /\ ahead' = {} /\ highest' = 0 /\ resumeFrom' = 0
  BY DEF Disconnect, Closed, clientVars, serverVars
<1>2. Waiting' = {} /\ Written' = {} /\ Backlog' = {} /\ Owed' = Owed
  BY <1>1 DEF Waiting, Written, Owed, Backlog
<1>3. TypeOK'
  <2>1. Typed'
    BY <1>1, StreamAssumption, EmptySeq DEF Typed, StreamAssumption
  <2>2. Holders'
    BY <1>1, EmptySeq DEF Holders
  <2> QED BY <2>1, <2>2, TypePartsLater
<1>4. MarkIsContiguous'
  BY <1>1, <1>2 DEF MarkIsContiguous
<1>5. OncePerConnection'
  BY <1>1, <1>2 DEF OncePerConnection
<1>6. NothingStranded'
  BY <1>1 DEF NothingStranded, ParseResumePoint
<1>7. Meeting'
  BY <1>1, <1>2 DEF Meeting
<1>8. WaitsOnce'
  BY <1>1, <1>2 DEF WaitsOnce
<1>9. InOrder'
  BY <1>1 DEF InOrder
<1>10. Accounted'
  BY <1>1, <1>2 DEF Accounted, Owed, Typed
<1> QED BY <1>3, <1>4, <1>5, <1>6, <1>7, <1>8, <1>9, <1>10 DEF ResumeInv, StreamInv

\* A new run knows nothing of the last one, and does not believe its points.
LEMMA StepRestart ==
    ASSUME Parts, Restart
    PROVE  ResumeInv'
<1> USE DEF Parts
<1>1. /\ run < MaxRun /\ run' = run + 1 /\ seq' = 0 /\ history' = {} /\ conns' = conns
      /\ token' = token /\ received' = {} /\ given' = {}
      /\ conn' = "off" /\ snapshot' = {} /\ inflight' = {} /\ ch' = <<>>
      /\ wire' = <<>> /\ point' = 0 /\ ahead' = {} /\ highest' = 0 /\ resumeFrom' = 0
  BY DEF Restart, Closed, clientVars, serverVars
<1>2. Waiting' = {} /\ Written' = {} /\ Backlog' = {} /\ Owed' = {}
  BY <1>1 DEF Waiting, Written, Owed, Backlog
<1>3. TypeOK'
  <2>1. Cardinality({}) = 0
    BY FS_EmptySet
  <2>2. Typed'
    BY <1>1, <2>1, StreamAssumption, EmptySeq DEF Typed, StreamAssumption
  <2>3. 1..run \subseteq 1..run'
    BY <1>1, StreamAssumption DEF StreamAssumption, Typed
  <2>4. Holders'
    BY <1>1, <2>3, EmptySeq DEF Holders
  <2> QED BY <2>2, <2>4, TypePartsLater
<1>4. MarkIsContiguous'
  BY <1>1, <1>2 DEF MarkIsContiguous
<1>5. OncePerConnection'
  BY <1>1, <1>2 DEF OncePerConnection
<1>6. NothingStranded'
  BY <1>1 DEF NothingStranded
<1>7. Meeting'
  <2>1. token'.run # run'
    BY <1>1, StreamAssumption DEF StreamAssumption, Entries, Typed
  <2> QED BY <1>1, <1>2, <2>1 DEF Meeting
<1>8. WaitsOnce'
  BY <1>1, <1>2 DEF WaitsOnce
<1>9. InOrder'
  BY <1>1 DEF InOrder
<1>10. Accounted'
  BY <1>1, <1>2 DEF Accounted
<1> QED BY <1>3, <1>4, <1>5, <1>6, <1>7, <1>8, <1>9, <1>10 DEF ResumeInv, StreamInv

\* A frame added to the wire: the events written, and whether they stay distinct.
LEMMA WrittenAfter ==
    ASSUME Parts, NEW s \in 1..seq, Frames(s), DOMAIN wire' = 1..Len(wire')
    PROVE  /\ Written \subseteq Written' /\ Written' \subseteq Written \cup {s}
           /\ s \in Wanted => s \in Written'
           /\ \A i \in DOMAIN wire' : \/ i \in DOMAIN wire /\ wire'[i] = wire[i]
                                      \/ /\ i = Len(wire) + 1 /\ i = Len(wire')
                                         /\ wire'[i].event = s /\ wire'[i].point = point'
<1> USE DEF Parts
<1>1. Len(wire) \in Nat /\ DOMAIN wire = 1..Len(wire)
  BY DEF Entries
<1>2. CASE s \in Wanted
  <2>1. /\ Len(wire') = Len(wire) + 1
        /\ wire'[Len(wire) + 1].event = s /\ wire'[Len(wire) + 1].point = point'
        /\ \A i \in 1..Len(wire) : wire'[i] = wire[i]
    BY <1>2 DEF Frames
  <2>2. DOMAIN wire' = 1..(Len(wire) + 1)
    BY <2>1
  <2>3. \A i \in DOMAIN wire' : i \in DOMAIN wire \/ i = Len(wire) + 1
    BY <1>1, <2>2
  <2>4. Len(wire) + 1 \in DOMAIN wire' /\ DOMAIN wire \subseteq DOMAIN wire'
    BY <1>1, <2>2
  <2>5. \A i \in DOMAIN wire : wire'[i] = wire[i]
    BY <1>1, <2>1
  <2>6. Written' \subseteq Written \cup {s}
    BY <2>1, <2>3, <2>5 DEF Written
  <2>7. Written \subseteq Written' /\ s \in Written'
    BY <2>1, <2>4, <2>5 DEF Written
  <2> QED BY <1>2, <2>1, <2>3, <2>5, <2>6, <2>7
<1>3. CASE s \notin Wanted
  <2>1. wire' = wire
    BY <1>3 DEF Frames
  <2> QED BY <1>3, <2>1 DEF Written
<1> QED BY <1>2, <1>3

\* The frames on the wire stay distinct, and stay accounted for, when the event
\* written is new and everything up to the new mark is dealt with.
LEMMA FramesAfter ==
    ASSUME Parts, NEW s \in 1..seq, Frames(s), DOMAIN wire' = 1..Len(wire'),
           s \notin Written, received' = received, given \subseteq given', Owed' = Owed,
           \A x \in Owed : x <= point' => x \in received \cup given' \cup Written'
    PROVE  /\ \A i, j \in DOMAIN wire' : wire'[i].event = wire'[j].event => i = j
           /\ \A i \in DOMAIN wire' : \A x \in Owed' : x <= wire'[i].point =>
                 x \in received' \cup given' \cup {wire'[j].event : j \in 1..i}
<1> USE DEF Parts
<1>1. \A i \in DOMAIN wire' : \/ i \in DOMAIN wire /\ wire'[i] = wire[i]
                              \/ /\ i = Len(wire) + 1 /\ i = Len(wire')
                                 /\ wire'[i].event = s /\ wire'[i].point = point'
  BY WrittenAfter
<1>2. Len(wire) \in Nat /\ DOMAIN wire = 1..Len(wire)
  BY DEF Entries
<1>3. \A i \in DOMAIN wire : wire[i].event # s
  BY DEF Written
<1>4. \A i, j \in DOMAIN wire' : wire'[i].event = wire'[j].event => i = j
  BY <1>1, <1>3 DEF OncePerConnection
<1>5. ASSUME NEW i \in DOMAIN wire', NEW x \in Owed, x <= wire'[i].point
      PROVE  x \in received \cup given' \cup {wire'[j].event : j \in 1..i}
  <2>1. CASE i \in DOMAIN wire /\ wire'[i] = wire[i]
    <3>1. x \in received \cup given \cup {wire[j].event : j \in 1..i}
      BY <1>5, <2>1 DEF Accounted
    <3>2. \A j \in 1..i : wire'[j] = wire[j]
      <4>1. \A j \in 1..Len(wire) : wire'[j] = wire[j]
        BY DEF Frames
      <4>2. i \in 1..Len(wire) /\ \A j \in 1..i : j \in 1..Len(wire)
        BY <1>2, <2>1
      <4> QED BY <4>1, <4>2
    <3>3. {wire[j].event : j \in 1..i} \subseteq {wire'[j].event : j \in 1..i}
      BY <3>2
    <3> QED BY <3>1, <3>3
  <2>2. CASE i = Len(wire') /\ wire'[i].point = point'
    <3>1. x \in received \cup given' \cup Written'
      BY <1>5, <2>2
    <3>2. Written' = {wire'[j].event : j \in 1..i}
      BY <2>2 DEF Written
    <3> QED BY <3>1, <3>2
  <2> QED BY <1>1, <2>1, <2>2
<1> QED BY <1>4, <1>5

\* The types after a write.
LEMMA WriteTypes ==
    ASSUME Parts, NEW s \in 1..seq, Write(s)
    PROVE  /\ Tracked(s) /\ Frames(s)
           /\ wire' \in Seq([event : 1..seq, point : 0..seq]) /\ DOMAIN wire' = 1..Len(wire')
           /\ point' \in 0..seq /\ ahead' \subseteq 1..seq /\ given' \subseteq 1..seq
<1> USE DEF Parts
<1>1. TypeOK
  BY TypeParts
<1>2. Tracked(s) /\ Frames(s)
  BY <1>1, WriteTracks, WriteFrames
<1>3. wire' \in Seq([event : 1..seq, point : 0..seq])
  BY <1>2 DEF Frames
<1>4. DOMAIN wire' = 1..Len(wire')
  BY <1>3, QueueFacts
<1>5. point' \in point..seq /\ ahead' \subseteq ahead \cup {s} /\ given' \subseteq 1..seq
  BY <1>2 DEF Tracked
<1>6. point' \in 0..seq /\ ahead' \subseteq 1..seq
  BY <1>5 DEF Typed
<1> QED BY <1>2, <1>3, <1>4, <1>5, <1>6

LEMMA StepReplay ==
    ASSUME Parts, Replay
    PROVE  ResumeInv'
<1> USE DEF Parts
<1> DEFINE s == Min(Backlog)
<1>1. /\ run' = run /\ seq' = seq /\ history' = history
      /\ conn = "replay" /\ conn' = conn /\ conns' = conns /\ resumeFrom' = resumeFrom
      /\ highest' = highest /\ inflight' = inflight /\ ch' = ch
      /\ token' = token /\ received' = received
      /\ Write(s) /\ snapshot' = snapshot \ {s}
  BY Zenon DEF Replay, serverVars, clientVars
<1>2. s \in Backlog /\ \A b \in Backlog : s <= b
  <2>1. Backlog # {}
    BY Zenon DEF Replay
  <2> HIDE DEF s
  <2>2. Backlog \subseteq Nat
    <3>1. snapshot \subseteq 1..seq
      BY DEF Typed
    <3>2. \A b \in Backlog : b \in snapshot
      BY DEF Backlog
    <3>3. \A b \in 1..seq : b \in Nat
      OBVIOUS
    <3>4. \A b \in Backlog : b \in Nat
      BY <3>1, <3>2, <3>3
    <3> HIDE DEF Parts
    <3> QED BY <3>4
  <2>3. Min(Backlog) \in Backlog /\ \A b \in Backlog : Min(Backlog) <= b
    BY <2>1, <2>2, MinOf
  <2> QED BY <2>3 DEF s
<1> HIDE DEF s
<1>3. /\ s \in 1..seq /\ s \in snapshot /\ s <= highest
      /\ point < s /\ point <= highest /\ s \notin Written /\ s \notin ahead
      /\ \A x \in ahead \cup Written : x <= highest /\ x < s
  <2>1. s \in snapshot /\ s \in 1..seq
    BY <1>2 DEF Backlog, Typed
  <2>2. \A x \in ahead \cup Written \cup {point} : x <= highest /\ x < s
    BY <1>1, <1>2 DEF InOrder
  <2>3. s <= highest
    BY <2>1 DEF Meeting, Typed
  <2>4. s \notin Written /\ s \notin ahead
    BY <2>1, <2>2
  <2> QED BY <2>1, <2>2, <2>3, <2>4
<1>4. /\ Tracked(s) /\ Frames(s)
      /\ wire' \in Seq([event : 1..seq, point : 0..seq]) /\ DOMAIN wire' = 1..Len(wire')
      /\ point' \in 0..seq /\ ahead' \subseteq 1..seq /\ given' \subseteq 1..seq
  BY <1>1, <1>3, WriteTypes
<1>5. /\ point' \in {point, s} \cup ahead /\ ahead' \subseteq ahead \cup {s}
      /\ given \subseteq given'
  BY <1>4 DEF Tracked
<1>6. /\ Written \subseteq Written' /\ Written' \subseteq Written \cup {s}
      /\ s \in Wanted => s \in Written'
  BY <1>3, <1>4, WrittenAfter
<1>7. Waiting' = Waiting /\ Owed' = Owed /\ Backlog' = Backlog \ {s}
  BY <1>1 DEF Waiting, Owed, Backlog
<1>8. \A x \in ahead' \cup Written' \cup {point'} :
         x <= highest /\ x <= s /\ \A b \in Backlog' : x < b
  <2>1. ASSUME NEW x \in ahead \cup Written \cup {point, s}
        PROVE  x <= highest /\ x <= s /\ x \in 0..seq
    BY <1>3 DEF Typed, Entries
  <2>2. \A b \in Backlog' : s < b /\ b \in 1..seq
    <3>1. \A b \in Backlog : b \in 1..seq
      BY DEF Backlog, Typed
    <3> QED BY <1>2, <1>3, <1>7, <3>1
  <2>3. ahead' \cup Written' \cup {point'} \subseteq ahead \cup Written \cup {point, s}
    BY <1>5, <1>6
  <2>4. ASSUME NEW x \in ahead \cup Written \cup {point, s}, NEW b \in Backlog'
        PROVE  x < b
    BY <1>3, <2>1, <2>2
  <2> QED BY <2>1, <2>3, <2>4
<1>9. s \in Waiting => FALSE
  BY <1>3 DEF OncePerConnection
<1>10. TypeOK'
  <2>1. Typed'
    BY <1>1, <1>4 DEF Typed
  <2>2. Holders'
    BY <1>1, <1>4 DEF Holders
  <2> QED BY <2>1, <2>2, TypePartsLater
<1>11. \A x \in Owed : x <= s => x \in received \cup given' \cup Written'
  <2> SUFFICES ASSUME NEW x \in Owed, x <= s PROVE x \in received \cup given' \cup Written'
    OBVIOUS
  <2>1. x \in 1..seq /\ x <= highest
    BY <1>3 DEF Owed, Typed
  <2>2. x \in Dealt \cup Backlog
    BY <2>1 DEF Accounted
  <2>3. CASE x \in Dealt
    BY <2>3, <1>5, <1>6 DEF Dealt
  <2>4. CASE x \in Backlog
    <3>1. x = s
      BY <1>2, <1>3, <2>1, <2>4
    <3> QED BY <1>6, <3>1 DEF Owed
  <2> QED BY <2>2, <2>3, <2>4
<1>12. \A x \in Owed : x <= point' \/ x \in ahead' => x \in received \cup given' \cup Written'
  <2> SUFFICES ASSUME NEW x \in Owed, x <= point' \/ x \in ahead'
               PROVE  x <= s
    BY <1>11
  <2>1. x \in 1..seq
    BY DEF Owed, Typed
  <2> QED BY <1>3, <1>4, <1>8, <2>1
<1>13. /\ \A i, j \in DOMAIN wire' : wire'[i].event = wire'[j].event => i = j
       /\ \A i \in DOMAIN wire' : \A x \in Owed' : x <= wire'[i].point =>
             x \in received' \cup given' \cup {wire'[j].event : j \in 1..i}
  BY <1>1, <1>3, <1>4, <1>5, <1>7, <1>12, FramesAfter
<1>14. MarkIsContiguous'
  <2>1. \A x \in Waiting : x \in 1..seq /\ x > highest
    BY DEF Meeting, Entries
  <2>2. \A x \in Waiting' : x > point'
    BY <1>4, <1>7, <1>8, <2>1 DEF Typed
  <2>3. \A x \in Backlog' : x > point'
    BY <1>8
  <2>4. \A x \in Waiting' \cup Backlog' : x \notin 1..point'
    BY <1>4, <1>7, <2>1, <2>2, <2>3 DEF Backlog, Typed
  <2> QED BY <2>4 DEF MarkIsContiguous
<1>15. OncePerConnection'
  <2>1. snapshot' \cap Waiting' = {}
    BY <1>1, <1>7 DEF OncePerConnection
  <2>2. Backlog' \cap Written' = {}
    BY <1>6, <1>7 DEF OncePerConnection
  <2>3. Waiting' \cap Written' = {}
    BY <1>6, <1>7, <1>9 DEF OncePerConnection
  <2> QED BY <2>1, <2>2, <2>3, <1>13 DEF OncePerConnection
<1>16. NothingStranded'
  BY <1>1, <1>5 DEF NothingStranded, ParseResumePoint
<1>17. Meeting'
  BY <1>1, <1>7 DEF Meeting
<1>18. WaitsOnce'
  BY <1>1, <1>5, <1>7, <1>9 DEF WaitsOnce
<1>19. InOrder'
  BY <1>1, <1>8 DEF InOrder
<1>20. Accounted'
  <2>1. \A x \in Owed' : x <= highest' => x \in Dealt' \cup Backlog'
    BY <1>1, <1>5, <1>6, <1>7 DEF Accounted, Dealt, Owed
  <2>2. \A x \in Owed' : (x <= point' \/ x \in ahead') => x \in Dealt'
    BY <1>1, <1>7, <1>12 DEF Dealt
  <2> QED BY <1>13, <2>1, <2>2 DEF Accounted
<1> QED BY <1>10, <1>14, <1>15, <1>16, <1>17, <1>18, <1>19, <1>20 DEF ResumeInv, StreamInv

\* The replay ends at the newest event of the snapshot.
LEMMA StepGoLive ==
    ASSUME Parts, GoLive
    PROVE  ResumeInv'
<1> USE DEF Parts
<1> DEFINE n == Max({resumeFrom, highest})
<1>1. /\ run' = run /\ seq' = seq /\ history' = history
      /\ conn = "replay" /\ conn' = "live" /\ conns' = conns /\ resumeFrom' = resumeFrom
      /\ highest' = highest /\ inflight' = inflight /\ ch' = ch /\ wire' = wire
      /\ token' = token /\ received' = received /\ given' = given
      /\ Backlog = {} /\ snapshot' = {}
      /\ point' = Reach(n, point, ahead).point /\ ahead' = Reach(n, point, ahead).ahead
  BY Zenon DEF GoLive, serverVars, clientVars
<1>2. n = highest
  <2> DEFINE S == {resumeFrom, highest}
  <2>1. seq \in Nat /\ S \in SUBSET (0..seq) /\ S # {} /\ resumeFrom \in S /\ highest \in S
    BY DEF Typed
  <2>2. resumeFrom \in Nat /\ highest \in Nat /\ resumeFrom <= highest
    BY DEF Typed, Meeting
  <2>3. \A x \in S : x = resumeFrom \/ x = highest
    OBVIOUS
  <2> HIDE DEF S
  <2>4. Max(S) \in S /\ \A y \in S : y <= Max(S)
    BY <2>1, MaxOf
  <2>5. Max(S) = highest
    <3>1. Max(S) = resumeFrom \/ Max(S) = highest
      BY <2>3, <2>4
    <3>2. highest <= Max(S)
      BY <2>1, <2>4
    <3> QED BY <2>2, <3>1, <3>2
  <2> QED BY <2>5 DEF S
<1> HIDE DEF n
<1>3. point' \in point..seq /\ point' \in {point, highest} \cup ahead /\ ahead' \subseteq ahead
  <2>1. seq \in Nat /\ highest \in 0..seq /\ point \in 0..seq /\ ahead \in SUBSET (1..seq)
    BY DEF Typed
  <2> QED BY <1>1, <1>2, <2>1, ReachIs
<1>4. point' \in 0..seq /\ point' <= highest /\ \A x \in ahead' : x <= highest
  BY <1>1, <1>3 DEF InOrder, Typed
<1>5. Waiting' = Waiting /\ Written' = Written /\ Owed' = Owed /\ Dealt' = Dealt /\ Backlog' = {}
  BY <1>1 DEF Waiting, Written, Owed, Dealt, Backlog
<1>6. TypeOK'
  <2>1. Typed'
    BY <1>1, <1>3, <1>4 DEF Typed
  <2>2. Holders'
    BY <1>1 DEF Holders
  <2> QED BY <2>1, <2>2, TypePartsLater
<1>7. MarkIsContiguous'
  <2>1. \A x \in Waiting : x \in 1..seq /\ x > highest
    BY DEF Meeting, Entries
  <2>2. highest \in 0..seq
    BY DEF Typed
  <2>3. \A x \in Waiting : x \notin 1..point'
    BY <1>4, <2>1, <2>2
  <2> QED BY <1>5, <2>3 DEF MarkIsContiguous
<1>8. OncePerConnection'
  BY <1>1, <1>5 DEF OncePerConnection
<1>9. NothingStranded'
  BY <1>1 DEF NothingStranded, ParseResumePoint
<1>10. Meeting'
  BY <1>1, <1>5 DEF Meeting
<1>11. WaitsOnce'
  BY <1>1, <1>3, <1>5 DEF WaitsOnce
<1>12. InOrder'
  BY <1>1 DEF InOrder
<1>13. Accounted'
  <2>1. \A x \in Owed : x <= highest => x \in Dealt
    BY <1>1 DEF Accounted
  <2>2. \A x \in Owed : x <= point' => x <= highest
    <3>1. \A x \in Owed : x \in 1..seq
      BY DEF Owed, Typed
    <3> QED BY <1>4, <3>1 DEF Typed
  <2> QED BY <1>1, <1>4, <1>5, <2>1, <2>2 DEF Accounted
<1> QED BY <1>6, <1>7, <1>8, <1>9, <1>10, <1>11, <1>12, <1>13 DEF ResumeInv, StreamInv

LEMMA StepLive ==
    ASSUME Parts, Live
    PROVE  ResumeInv'
<1> USE DEF Parts
<1> DEFINE s == Head(ch)
<1>1. /\ run' = run /\ seq' = seq /\ history' = history
      /\ conn = "live" /\ conn' = conn /\ conns' = conns /\ resumeFrom' = resumeFrom
      /\ snapshot' = snapshot /\ highest' = highest /\ inflight' = inflight
      /\ token' = token /\ received' = received
      /\ ch # <<>> /\ Write(s) /\ ch' = Tail(ch)
  BY Zenon DEF Live, serverVars, clientVars
<1>2. /\ Len(ch) \in Nat /\ DOMAIN ch = 1..Len(ch) /\ Len(ch) >= 1
      /\ s = ch[1] /\ s \in 1..seq
      /\ ch' \in Seq(1..seq) /\ Len(ch') = Len(ch) - 1
      /\ \A i \in 1..(Len(ch) - 1) : ch'[i] = ch[i + 1]
  BY <1>1, QueueFacts DEF Holders
<1> HIDE DEF s
<1>3. DOMAIN ch' = 1..(Len(ch) - 1)
  BY <1>2
<1>4. s \in Waiting /\ s \notin ahead /\ s \notin Written /\ s \notin inflight
  <2>1. 1 \in DOMAIN ch
    BY <1>2
  <2>2. s \in Waiting /\ s \notin inflight
    BY <1>2, <2>1 DEF Waiting, WaitsOnce
  <2> QED BY <2>2 DEF WaitsOnce, OncePerConnection
<1>5. \A i \in DOMAIN ch' : i + 1 \in DOMAIN ch /\ ch'[i] = ch[i + 1] /\ ch'[i] # s
  <2> SUFFICES ASSUME NEW i \in DOMAIN ch'
               PROVE  i + 1 \in DOMAIN ch /\ ch'[i] = ch[i + 1] /\ ch'[i] # s
    OBVIOUS
  <2>1. i \in 1..(Len(ch) - 1) /\ i + 1 \in 1..Len(ch) /\ 1 \in 1..Len(ch) /\ i + 1 # 1
    BY <1>2, <1>3
  <2> QED BY <1>2, <2>1 DEF WaitsOnce
<1>6. Waiting' \subseteq Waiting /\ s \notin Waiting'
  BY <1>1, <1>4, <1>5 DEF Waiting
<1>7. Owed' = Owed /\ Backlog = {} /\ Backlog' = {}
  BY <1>1 DEF Owed, Backlog, Meeting
<1>8. /\ Tracked(s) /\ Frames(s)
      /\ wire' \in Seq([event : 1..seq, point : 0..seq]) /\ DOMAIN wire' = 1..Len(wire')
      /\ point' \in 0..seq /\ ahead' \subseteq 1..seq /\ given' \subseteq 1..seq
  BY <1>1, <1>2, WriteTypes
<1>9. /\ point' \in point..seq /\ ahead' \subseteq ahead \cup {s} /\ given \subseteq given'
      /\ \A k \in (point + 1)..point' : k \in ahead \cup {s} \cup given'
  BY <1>1, <1>8 DEF Tracked
<1>10. /\ Written \subseteq Written' /\ Written' \subseteq Written \cup {s}
       /\ s \in Wanted => s \in Written'
  BY <1>2, <1>8, WrittenAfter
<1>11. TypeOK'
  <2>1. Len(ch') <= Buffer
    BY <1>2, StreamAssumption DEF StreamAssumption, Typed
  <2>2. Typed'
    BY <1>1, <1>8, <2>1 DEF Typed
  <2>3. Holders'
    BY <1>1, <1>2, <1>8 DEF Holders
  <2> QED BY <2>2, <2>3, TypePartsLater
<1>12. \A x \in Owed : x <= point' \/ x \in ahead' => x \in received \cup given' \cup Written'
  <2> SUFFICES ASSUME NEW x \in Owed, x <= point' \/ x \in ahead'
               PROVE  x \in received \cup given' \cup Written'
    OBVIOUS
  <2>1. x \in 1..seq /\ x \in Wanted
    BY DEF Owed, Typed
  <2>2. x <= point \/ x \in ahead \/ x = s \/ x \in given'
    <3>1. CASE x <= point'
      <4>1. x <= point \/ x \in (point + 1)..point'
        BY <2>1, <3>1, <1>8 DEF Typed
      <4> QED BY <4>1, <1>9
    <3>2. CASE x \in ahead'
      BY <1>9, <3>2
    <3> QED BY <3>1, <3>2
  <2>3. (x <= point \/ x \in ahead) => x \in received \cup given \cup Written
    BY DEF Accounted, Dealt
  <2> QED BY <1>9, <1>10, <2>1, <2>2, <2>3
<1>13. /\ \A i, j \in DOMAIN wire' : wire'[i].event = wire'[j].event => i = j
       /\ \A i \in DOMAIN wire' : \A x \in Owed' : x <= wire'[i].point =>
             x \in received' \cup given' \cup {wire'[j].event : j \in 1..i}
  BY <1>1, <1>2, <1>4, <1>7, <1>8, <1>9, <1>12, FramesAfter
<1>14. MarkIsContiguous'
  <2> SUFFICES ASSUME NEW x \in Waiting', x \in 1..point' PROVE x \in given'
    BY <1>7 DEF MarkIsContiguous
  <2>1. x \in Waiting /\ x # s /\ x \notin ahead /\ x \in 1..seq
    BY <1>6 DEF WaitsOnce, Entries
  <2>2. x \in 1..point \/ x \in (point + 1)..point'
    BY <2>1, <1>8 DEF Typed
  <2>3. CASE x \in 1..point
    BY <2>1, <2>3, <1>9 DEF MarkIsContiguous
  <2>4. CASE x \in (point + 1)..point'
    BY <2>1, <2>4, <1>9
  <2> QED BY <2>2, <2>3, <2>4
<1>15. OncePerConnection'
  <2>1. snapshot' \cap Waiting' = {}
    BY <1>1, <1>6 DEF OncePerConnection
  <2>2. Waiting' \cap Written' = {}
    BY <1>6, <1>10 DEF OncePerConnection
  <2> QED BY <1>7, <2>1, <2>2, <1>13 DEF OncePerConnection
<1>16. NothingStranded'
  BY <1>1, <1>9 DEF NothingStranded, ParseResumePoint
<1>17. Meeting'
  BY <1>1, <1>6 DEF Meeting
<1>18. WaitsOnce'
  <2>1. \A i, j \in DOMAIN ch' : ch'[i] = ch'[j] => i = j
    <3> SUFFICES ASSUME NEW i \in DOMAIN ch', NEW j \in DOMAIN ch', ch'[i] = ch'[j]
                 PROVE  i = j
      OBVIOUS
    <3>1. i + 1 = j + 1
      BY <1>5 DEF WaitsOnce
    <3>2. i \in Int /\ j \in Int
      BY <1>2, <1>3
    <3> QED BY <3>1, <3>2
  <2>2. \A i \in DOMAIN ch' : ch'[i] \notin inflight'
    BY <1>1, <1>5 DEF WaitsOnce
  <2>3. Waiting' \cap ahead' = {}
    BY <1>6, <1>9 DEF WaitsOnce
  <2> QED BY <2>1, <2>2, <2>3 DEF WaitsOnce
<1>19. InOrder'
  BY <1>1 DEF InOrder
<1>20. Accounted'
  <2>1. \A x \in Owed' : x <= highest' => x \in Dealt' \cup Backlog'
    BY <1>1, <1>7, <1>9, <1>10 DEF Accounted, Dealt
  <2>2. \A x \in Owed' : (x <= point' \/ x \in ahead') => x \in Dealt'
    BY <1>1, <1>7, <1>12 DEF Dealt
  <2> QED BY <1>13, <2>1, <2>2 DEF Accounted
<1> QED BY <1>11, <1>14, <1>15, <1>16, <1>17, <1>18, <1>19, <1>20 DEF ResumeInv, StreamInv

-----------------------------------------------------------------------------
(* The client. *)

LEMMA StepReceive ==
    ASSUME Parts, Receive
    PROVE  ResumeInv'
<1> USE DEF Parts
<1> DEFINE F == [event : 1..seq, point : 0..seq]
           f == Head(wire)
<1>1. /\ run' = run /\ seq' = seq /\ history' = history
      /\ conn' = conn /\ conns' = conns /\ resumeFrom' = resumeFrom
      /\ snapshot' = snapshot /\ highest' = highest /\ inflight' = inflight /\ ch' = ch
      /\ point' = point /\ ahead' = ahead /\ given' = given
      /\ wire # <<>> /\ wire' = Tail(wire)
      /\ received' = received \cup {f.event}
      /\ token' = [run |-> run, point |-> f.point]
  BY Zenon DEF Receive, serverVars
<1>2. wire \in Seq(F)
  BY DEF Holders
<1>3. \A x \in F : x.event \in 1..seq /\ x.point \in 0..seq
  OBVIOUS
<1> HIDE DEF F, f
<1>4. /\ Len(wire) \in Nat /\ DOMAIN wire = 1..Len(wire) /\ Len(wire) >= 1
      /\ f = wire[1] /\ f \in F
      /\ wire' \in Seq(F) /\ Len(wire') = Len(wire) - 1
      /\ \A i \in 1..(Len(wire) - 1) : wire'[i] = wire[i + 1]
  BY <1>1, <1>2, QueueFacts DEF f
<1>5. DOMAIN wire' = 1..(Len(wire) - 1)
  BY <1>4
<1>6. f.event \in 1..seq /\ f.point \in 0..seq /\ 1 \in DOMAIN wire
  BY <1>3, <1>4
<1>7. \A i \in DOMAIN wire' : i \in Nat /\ i + 1 \in DOMAIN wire /\ wire'[i] = wire[i + 1]
  BY <1>4, <1>5
<1>8. /\ Waiting' = Waiting /\ Backlog' = Backlog /\ Owed' = Owed
      /\ Written' \subseteq Written /\ Written \subseteq Written' \cup {f.event}
  <2>1. Waiting' = Waiting /\ Backlog' = Backlog /\ Owed' = Owed
    BY <1>1 DEF Waiting, Backlog, Owed
  <2>2. Written' \subseteq Written
    BY <1>7 DEF Written
  <2>3. ASSUME NEW i \in DOMAIN wire PROVE wire[i].event \in Written' \cup {f.event}
    <3>1. CASE i = 1
      BY <1>4, <3>1
    <3>2. CASE i # 1
      <4>1. i - 1 \in DOMAIN wire' /\ (i - 1) + 1 = i
        BY <1>4, <1>5, <3>2
      <4>2. wire'[i - 1] = wire[i]
        BY <1>7, <4>1
      <4> QED BY <4>1, <4>2 DEF Written
    <3> QED BY <3>1, <3>2
  <2> QED BY <2>1, <2>2, <2>3 DEF Written
<1>9. Dealt' = Dealt
  <2>1. f.event \in Written
    BY <1>4, <1>6 DEF Written
  <2> QED BY <1>1, <1>8, <2>1 DEF Dealt
<1>10. TypeOK'
  <2>1. Typed'
    BY <1>1, <1>6 DEF Typed
  <2>2. token' \in [run : 1..run, point : 0..MaxSeq]
    <3>1. run \in 1..run /\ f.point \in 0..MaxSeq
      BY <1>6, StreamAssumption DEF StreamAssumption, Typed
    <3> QED BY <1>1, <3>1
  <2>3. Holders'
    BY <1>1, <1>4, <2>2 DEF Holders, F
  <2> QED BY <2>1, <2>3, TypePartsLater
<1>11. MarkIsContiguous'
  BY <1>1, <1>8 DEF MarkIsContiguous
<1>12. OncePerConnection'
  <2>1. \A i, j \in DOMAIN wire' : wire'[i].event = wire'[j].event => i = j
    <3> SUFFICES ASSUME NEW i \in DOMAIN wire', NEW j \in DOMAIN wire',
                        wire'[i].event = wire'[j].event
                 PROVE  i = j
      OBVIOUS
    <3>1. i + 1 = j + 1 /\ i \in Nat /\ j \in Nat
      BY <1>7 DEF OncePerConnection
    <3> QED BY <3>1
  <2> QED BY <1>1, <1>8, <2>1 DEF OncePerConnection
<1>13. \A x \in Owed : x <= f.point => x \in received' \cup given
  <2>1. \A x \in Owed : x <= f.point => x \in received \cup given \cup {wire[j].event : j \in 1..1}
    BY <1>4, <1>6 DEF Accounted
  <2> QED BY <1>1, <1>4, <2>1
<1>14. NothingStranded'
  <2>1. ParseResumePoint(token)' = f.point
    BY <1>1 DEF ParseResumePoint
  <2>2. \A x \in Owed : x \in 1..seq
    BY DEF Owed, Typed
  <2>3. \A x \in Owed : x \notin received' \cup given => x > f.point
    BY <1>6, <1>13, <2>2
  <2> QED BY <1>1, <2>1, <2>3 DEF NothingStranded, Owed
<1>15. Meeting'
  <2>1. token'.point <= seq
    BY <1>1, <1>6 DEF Typed
  <2>2. conn = "off" => FALSE
    BY <1>1 DEF Meeting
  <2> QED BY <1>1, <1>8, <2>1, <2>2 DEF Meeting
<1>16. WaitsOnce'
  BY <1>1, <1>8 DEF WaitsOnce
<1>17. InOrder'
  BY <1>1, <1>8 DEF InOrder
<1>18. Accounted'
  <2>1. ASSUME NEW i \in DOMAIN wire', NEW x \in Owed, x <= wire'[i].point
        PROVE  x \in received' \cup given' \cup {wire'[j].event : j \in 1..i}
    <3>1. i + 1 \in DOMAIN wire /\ x <= wire[i + 1].point /\ i \in 1..(Len(wire) - 1)
      BY <1>5, <1>7, <2>1
    <3>2. x \in received \cup given \cup {wire[j].event : j \in 1..(i + 1)}
      BY <3>1 DEF Accounted
    <3>3. ASSUME NEW j \in 1..(i + 1)
          PROVE  wire[j].event \in {f.event} \cup {wire'[l].event : l \in 1..i}
      <4>1. CASE j = 1
        BY <1>4, <4>1
      <4>2. CASE j # 1
        <5>1. j - 1 \in 1..i /\ j - 1 \in 1..(Len(wire) - 1) /\ (j - 1) + 1 = j
          BY <1>4, <3>1, <4>2
        <5>2. wire'[j - 1] = wire[j]
          BY <1>4, <5>1
        <5> QED BY <5>1, <5>2
      <4> QED BY <4>1, <4>2
    <3> QED BY <1>1, <3>2, <3>3
  <2> QED BY <1>1, <1>8, <1>9, <2>1 DEF Accounted
<1> QED BY <1>10, <1>11, <1>12, <1>14, <1>15, <1>16, <1>17, <1>18 DEF ResumeInv, StreamInv

-----------------------------------------------------------------------------
(* The theorems. *)

LEMMA StepHolds == ResumeInv /\ [Next]_vars => ResumeInv'
<1> SUFFICES ASSUME ResumeInv, [Next]_vars PROVE ResumeInv'
  OBVIOUS
<1>0. Parts
  BY PartsOf
<1>1. CASE Publish
  BY <1>0, <1>1, StepPublish
<1>2. CASE DeliverSome
  BY <1>0, <1>2, StepDeliver DEF DeliverSome
<1>3. CASE Connect
  BY <1>0, <1>3, StepConnect
<1>4. CASE Replay
  BY <1>0, <1>4, StepReplay
<1>5. CASE GoLive
  BY <1>0, <1>5, StepGoLive
<1>6. CASE Live
  BY <1>0, <1>6, StepLive
<1>7. CASE Disconnect
  BY <1>0, <1>7, StepDisconnect
<1>8. CASE Restart
  BY <1>0, <1>8, StepRestart
<1>9. CASE Receive
  BY <1>0, <1>9, StepReceive
<1>10. CASE UNCHANGED vars
  <2>1. /\ run' = run /\ seq' = seq /\ history' = history
        /\ conn' = conn /\ conns' = conns /\ resumeFrom' = resumeFrom
        /\ snapshot' = snapshot /\ highest' = highest /\ inflight' = inflight /\ ch' = ch
        /\ point' = point /\ ahead' = ahead /\ wire' = wire
        /\ token' = token /\ received' = received /\ given' = given
    BY <1>10 DEF vars, serverVars, connVars, clientVars
  <2>2. Waiting' = Waiting /\ Written' = Written /\ Backlog' = Backlog /\ Owed' = Owed
    BY <2>1 DEF Waiting, Written, Backlog, Owed
  <2>3. Dealt' = Dealt
    BY <2>1, <2>2 DEF Dealt
  <2>4. TypeOK'
    <3>1. Typed /\ Holders
      BY <1>0 DEF Parts
    <3>2. Typed'
      BY <2>1, <3>1 DEF Typed
    <3>3. Holders'
      BY <2>1, <3>1, Zenon DEF Holders
    <3> QED BY <3>2, <3>3, TypePartsLater
  <2>5. MarkIsContiguous' /\ OncePerConnection' /\ NothingStranded'
    BY <1>0, <2>1, <2>2
       DEF Parts, MarkIsContiguous, OncePerConnection, NothingStranded, ParseResumePoint
  <2>6. Meeting' /\ WaitsOnce' /\ InOrder' /\ Accounted'
    BY <1>0, <2>1, <2>2, <2>3 DEF Parts, Meeting, WaitsOnce, InOrder, Accounted
  <2> QED BY <2>4, <2>5, <2>6 DEF ResumeInv, StreamInv
<1> QED BY <1>1, <1>2, <1>3, <1>4, <1>5, <1>6, <1>7, <1>8, <1>9, <1>10 DEF Next

LEMMA InitHolds == Init => ResumeInv
<1> SUFFICES ASSUME Init PROVE ResumeInv
  OBVIOUS
<1>1. /\ run = 1 /\ seq = 0 /\ history = {}
      /\ conn = "off" /\ conns = 0 /\ resumeFrom = 0 /\ snapshot = {} /\ highest = 0
      /\ inflight = {} /\ ch = <<>> /\ point = 0 /\ ahead = {} /\ wire = <<>>
      /\ token = [run |-> 1, point |-> 0] /\ received = {} /\ given = {}
  BY DEF Init
<1>2. Waiting = {} /\ Written = {} /\ Backlog = {} /\ Owed = {}
  BY <1>1 DEF Waiting, Written, Backlog, Owed
<1>3. TypeOK
  <2>1. Cardinality({}) = 0
    BY FS_EmptySet
  <2>2. Typed
    BY <1>1, <2>1, StreamAssumption, EmptySeq DEF Typed, StreamAssumption
  <2>3. token \in [run : 1..run, point : 0..MaxSeq]
    BY <1>1, StreamAssumption DEF StreamAssumption
  <2>4. Holders
    BY <1>1, <2>3, EmptySeq DEF Holders
  <2> QED BY <2>2, <2>4, TypeParts
<1>4. MarkIsContiguous /\ OncePerConnection /\ NothingStranded
  BY <1>1, <1>2 DEF MarkIsContiguous, OncePerConnection, NothingStranded
<1>5. Meeting /\ WaitsOnce /\ InOrder /\ Accounted
  BY <1>1, <1>2 DEF Meeting, WaitsOnce, InOrder, Accounted
<1> QED BY <1>3, <1>4, <1>5 DEF ResumeInv, StreamInv

\* The invariant that carries the others: one place for every event, the replay
\* in order below the live tail, and every event of the history that the client
\* wants accounted for.
THEOREM InvariantHolds == Spec => []ResumeInv
<1> QED BY InitHolds, StepHolds, PTL DEF Spec

\* On a connection, the point in a frame covers nothing that is still to come
\* other than what a full tracker gave up, and nothing is written twice, however
\* the workers reorder the deliveries and whatever the channel drops.
THEOREM ConnectionIsSound == Spec => []StreamInv
<1>1. ResumeInv => StreamInv
  BY DEF ResumeInv
<1> QED BY <1>1, InvariantHolds, PTL

\* A client that comes back with its token finds every event it wants, has not
\* read and the history still has above the point the server resumes from.
THEOREM ResumeLosesNothing == Spec => []NothingStranded
<1>1. ResumeInv => NothingStranded
  BY DEF ResumeInv
<1> QED BY <1>1, InvariantHolds, PTL

=============================================================================

------------------------------ MODULE SQSProofs ------------------------------
(* Proofs about SQS, for any bodies, groups, consumers and redrive policies and
   for any bounds.

   What makes the proofs hard is that calls act on copies of rows that may be
   stale.  The invariant therefore speaks of all copies there are, AllCopies, and
   a step is summed up in what it does to the rows (RowStep) and in which copies
   the one call that moves has afterwards (CallStep).                        *)

EXTENDS SQS, FiniteSetTheorems, TLAPS

\* Who is who.
LEMMA Kinds ==
    /\ Mover \in Callers /\ Mover \in Processes /\ Mover \notin Bodies /\ Mover \notin Consumers
    /\ \A c \in Consumers : c \in Callers /\ c \in Processes /\ c \notin Bodies /\ c # Mover /\ c # None
    /\ \A b \in Bodies : b \in Processes /\ b \notin Callers /\ b # Mover /\ b \notin Consumers
    /\ \A c \in Clients : c \in Consumers /\ c \notin Pollers
    /\ \A c \in Pollers : c \in Consumers /\ c \notin Clients
    /\ \A x \in Callers : x \in Processes /\ x \notin Bodies
BY SQSAssumption, KindsAssumption DEF Consumers, Callers, Processes

\* A row is not nil.
LEMMA RowNotNone == ASSUME maxReceive \in Limits PROVE \A r \in Rows(maxReceive) : r # None
BY KindsAssumption

\* The bounds of sequence numbers and of receives are not below zero.
LEMMA Zeros ==
    ASSUME maxReceive \in Limits
    PROVE  MaxSeq \in Nat /\ 0 \in 0..MaxSeq /\ 0 \in 0..maxReceive
<1>1. Cardinality(Bodies) \in Nat
  BY KindsAssumption, FS_CardinalityType
<1> QED BY <1>1, SQSAssumption DEF MaxSeq

\* The three places a copy can be.
LEMMA CopyCases ==
    ASSUME NEW m \in AllCopies
    PROVE  \/ \E i \in Ids : rows[i] # None /\ m = [id |-> i, row |-> rows[i]]
           \/ \E x \in Callers : m \in cand[x]
           \/ \E x \in Callers : pc[x] \in {"movePut", "moveDelete", "change"} /\ m = cur[x]
<1>1. CASE m \in {Copy(i) : i \in {j \in Ids : rows[j] # None}}
  BY <1>1 DEF Copy
<1>2. CASE m \in UNION {cand[x] : x \in Callers}
  BY <1>2
<1>3. CASE m \in {cur[x] : x \in Moving \cup {c \in Consumers : pc[c] = "change"}}
  <2>1. PICK x \in Moving \cup {c \in Consumers : pc[c] = "change"} : m = cur[x]
    BY <1>3
  <2>2. x \in Callers /\ pc[x] \in {"movePut", "moveDelete", "change"}
    BY <2>1 DEF Moving, Callers
  <2> QED BY <2>1, <2>2
<1> QED BY <1>1, <1>2, <1>3 DEF AllCopies

\* The same of the next state.
LEMMA CopyCasesAfter ==
    ASSUME NEW m \in AllCopies'
    PROVE  \/ \E i \in Ids : rows'[i] # None /\ m = [id |-> i, row |-> rows'[i]]
           \/ \E x \in Callers : m \in cand'[x]
           \/ \E x \in Callers : pc'[x] \in {"movePut", "moveDelete", "change"} /\ m = cur'[x]
<1>1. CASE m \in {Copy(i) : i \in {j \in Ids : rows[j] # None}}'
  BY <1>1 DEF Copy
<1>2. CASE m \in UNION {cand'[x] : x \in Callers}
  BY <1>2
<1>3. CASE m \in {cur'[x] : x \in Moving' \cup {c \in Consumers : pc'[c] = "change"}}
  <2>1. PICK x \in Moving' \cup {c \in Consumers : pc'[c] = "change"} : m = cur'[x]
    BY <1>3
  <2>2. x \in Callers /\ pc'[x] \in {"movePut", "moveDelete", "change"}
    BY <2>1 DEF Moving, Callers
  <2> QED BY <2>1, <2>2
<1> QED BY <1>1, <1>2, <1>3 DEF AllCopies

\* And what is in them is a copy.
LEMMA CopiesIn ==
    /\ \A i \in Ids : rows[i] # None => [id |-> i, row |-> rows[i]] \in AllCopies
    /\ \A x \in Callers : cand[x] \subseteq AllCopies
    /\ \A x \in Callers : pc[x] \in {"movePut", "moveDelete"} => cur[x] \in AllCopies
    /\ \A c \in Consumers : pc[c] = "change" => cur[c] \in AllCopies
<1>1. ASSUME NEW i \in Ids, rows[i] # None PROVE [id |-> i, row |-> rows[i]] \in AllCopies
  <2>1. Copy(i) \in {Copy(j) : j \in {k \in Ids : rows[k] # None}}
    BY <1>1
  <2> QED BY <2>1 DEF AllCopies, Copy
<1>2. ASSUME NEW x \in Callers PROVE cand[x] \subseteq AllCopies
  BY DEF AllCopies
<1>3. ASSUME NEW x \in Moving \cup {c \in Consumers : pc[c] = "change"} PROVE cur[x] \in AllCopies
  BY DEF AllCopies
<1>4. \A x \in Callers : pc[x] \in {"movePut", "moveDelete"} => x \in Moving
  BY DEF Moving
<1> QED BY <1>1, <1>2, <1>3, <1>4

\* Every copy is an entry.
LEMMA CopyTypes ==
    ASSUME TypeOK, CallsShaped, NEW m \in AllCopies
    PROVE  m \in Entries /\ m.id \in Ids /\ m.row \in Rows(maxReceive)
<1>1. m \in Entries
  <2>1. CASE \E i \in Ids : rows[i] # None /\ m = [id |-> i, row |-> rows[i]]
    BY <2>1 DEF TypeOK, Entries
  <2>2. CASE \E x \in Callers : m \in cand[x]
    BY <2>2 DEF TypeOK
  <2>3. CASE \E x \in Callers : pc[x] \in {"movePut", "moveDelete", "change"} /\ m = cur[x]
    BY <2>3 DEF CallsShaped, Moving, Callers
  <2> QED BY <2>1, <2>2, <2>3, CopyCases
<1> QED BY <1>1 DEF Entries

-----------------------------------------------------------------------------
(* Steps. *)

\* A step of the call of x: no other call is touched.
CallStep(x) ==
    /\ pc' \in [Processes -> {"idle", "record", "put", "fetch", "each", "movePut",
                              "moveDelete", "delete", "change", "invoke"}]
    /\ send' \in [Bodies -> [group : Groups \cup {None}, seq : 0..MaxSeq, prior : SUBSET Ids]]
    /\ cand' \in [Callers -> SUBSET Entries] /\ cur' = [y \in Callers |-> cur'[y]]
    /\ held' \in [Consumers -> SUBSET Ids] /\ room' \in [Consumers -> 0..Batch]
    /\ \A p \in Processes : p # x => pc'[p] = pc[p]
    /\ \A y \in Callers : y # x => cand'[y] = cand[y] /\ cur'[y] = cur[y]
    /\ \A c \in Consumers : c # x => room'[c] = room[c] /\ held'[c] = held[c]
    /\ \A b \in Bodies : b # x => send'[b] = send[b]

\* What CallsShaped asks of one process.
Shaped(x) ==
    /\ x \in Bodies => pc[x] \in {"idle", "record", "put"}
    /\ x \in Consumers =>
         /\ pc[x] \notin {"record", "put"}
         /\ pc[x] \in {"fetch", "each", "movePut", "moveDelete"} => room[x] > 0
         /\ pc[x] = "change" => cur[x] \in Entries /\ cur[x].row.handle # None
         /\ pc[x] = "delete" => cur[x].id \in Ids /\ cur[x].row.body \in Bodies
    /\ x = Mover => pc[x] \in {"idle", "movePut", "moveDelete"}
    /\ x \in Callers /\ pc[x] \in {"movePut", "moveDelete"} => cur[x] \in Entries

LEMMA ShapedAll == CallsShaped <=> \A x \in Processes : Shaped(x)
BY Kinds DEF CallsShaped, Shaped, Moving, Callers, Processes

\* The row of an id that is in use: it is kept, dropped, or overwritten with a
\* copy that was handed out.
OldRow(i) ==
    rows'[i] # None =>
        /\ \E n \in AllCopies : n.id = i /\ SameMessage(n.row, rows'[i])
        /\ rows'[i].count <= handed'[i]
        /\ rows'[i].handle # None => handed'[i] > 0
        /\ fifo /\ rows'[i].group # None /\ handed'[i] = 0 =>
              ~rows'[i].hidden /\ rows'[i] = rows[i]

\* The row of a new id.
NewRow(i) ==
    /\ i = used + 1 /\ used' = used + 1 /\ rows'[i] # None
    /\ rows'[i].count = 0 /\ rows'[i].handle = None
    /\ fifo /\ rows'[i].group # None => ~rows'[i].hidden

\* What a step does to the rows.
RowStep ==
    /\ rows' \in [Ids -> Rows(maxReceive) \cup {None}]
    /\ used' \in 0..MaxId /\ used <= used'
    /\ handed' \in [Ids -> 0..maxReceive]
    /\ \A i \in Ids : handed[i] <= handed'[i] /\ (OldRow(i) \/ NewRow(i))

\* The copies that x has after its step were there before.
CopiesRead(x) ==
    /\ x \in Callers => cand'[x] \subseteq AllCopies
    /\ x \in Callers /\ pc'[x] \in {"movePut", "moveDelete", "change"} => cur'[x] \in AllCopies
    /\ x \in Consumers /\ pc'[x] = "delete" =>
          \E n \in AllCopies : n.id = cur'[x].id /\ n.row.body = cur'[x].row.body

\* A step of x keeps the shape of all calls if it keeps that of x.
LEMMA ShapeKept ==
    ASSUME TypeOK, CallsShaped, NEW x \in Processes, CallStep(x), Shaped(x)', UNCHANGED queue
    PROVE  CallsShaped'
<1>1. Entries' = Entries
  BY DEF Entries, queue
<1>2. ASSUME NEW y \in Processes, y # x PROVE Shaped(y)'
  <2>1. Shaped(y)
    BY ShapedAll
  <2>2. /\ pc'[y] = pc[y]
        /\ y \in Callers => cur'[y] = cur[y]
        /\ y \in Consumers => y \in Callers /\ room'[y] = room[y]
    BY <1>2, Kinds DEF CallStep
  <2> QED BY <1>1, <2>1, <2>2 DEF Shaped
<1>3. \A y \in Processes : Shaped(y)'
  BY <1>2
<1>4. CallsShaped' <=> \A y \in Processes : Shaped(y)'
  BY Kinds DEF CallsShaped, Shaped, Moving, Callers, Processes
<1> QED BY <1>3, <1>4

\* Every copy after a step is a copy of the same message, or of the new row.
LEMMA WhereFrom ==
    ASSUME TypeOK, CallsShaped, RowStep, NEW x \in Processes, CallStep(x), CopiesRead(x),
           NEW m \in AllCopies'
    PROVE  \/ m \in AllCopies
           \/ m.id \in Ids /\ m.row = rows'[m.id] /\ m.row # None /\ OldRow(m.id)
           \/ m.id \in Ids /\ m.row = rows'[m.id] /\ m.row # None /\ NewRow(m.id)
<1>0. \/ \E i \in Ids : rows'[i] # None /\ m = [id |-> i, row |-> rows'[i]]
      \/ \E y \in Callers : m \in cand'[y]
      \/ \E y \in Callers : pc'[y] \in {"movePut", "moveDelete", "change"} /\ m = cur'[y]
  BY CopyCasesAfter
<1>1. CASE \E i \in Ids : rows'[i] # None /\ m = [id |-> i, row |-> rows'[i]]
  BY <1>1 DEF RowStep
<1>2. CASE \E y \in Callers : m \in cand'[y]
  BY <1>2, CopiesIn DEF CallStep, CopiesRead
<1>3. CASE \E y \in Callers : pc'[y] \in {"movePut", "moveDelete", "change"} /\ m = cur'[y]
  <2>1. PICK y \in Callers : pc'[y] \in {"movePut", "moveDelete", "change"} /\ m = cur'[y]
    BY <1>3
  <2>2. CASE y = x
    BY <2>1, <2>2 DEF CopiesRead
  <2>3. CASE y # x
    <3>1. pc[y] \in {"movePut", "moveDelete", "change"} /\ m = cur[y]
      BY <2>1, <2>3, Kinds DEF CallStep
    <3>2. pc[y] = "change" => y \in Consumers
      BY DEF CallsShaped, Callers
    <3> QED BY <3>1, <3>2, CopiesIn
  <2> QED BY <2>2, <2>3
<1> QED BY <1>0, <1>1, <1>2, <1>3

\* The message of a copy is one that had a copy before, or the new one.
LEMMA Stems ==
    ASSUME TypeOK, CallsShaped, RowStep, NEW x \in Processes, CallStep(x), CopiesRead(x),
           NEW m \in AllCopies'
    PROVE  \/ \E n \in AllCopies : n.id = m.id /\ SameMessage(n.row, m.row)
           \/ m.id = used + 1 /\ used' = used + 1 /\ m.row = rows'[m.id] /\ NewRow(m.id)
<1>1. CASE m \in AllCopies
  BY <1>1 DEF SameMessage
<1>2. CASE m.id \in Ids /\ m.row = rows'[m.id] /\ m.row # None /\ OldRow(m.id)
  BY <1>2 DEF OldRow
<1>3. CASE m.id \in Ids /\ m.row = rows'[m.id] /\ m.row # None /\ NewRow(m.id)
  BY <1>3 DEF NewRow
<1> QED BY <1>1, <1>2, <1>3, WhereFrom

\* The ids of the copies after a step.
LEMMA StemIds ==
    ASSUME TypeOK, CallsShaped, RowStep, NEW x \in Processes, CallStep(x), CopiesRead(x),
           NEW m \in AllCopies'
    PROVE  m.id \in Ids
<1>1. m \in AllCopies => m.id \in Ids
  BY CopyTypes
<1> QED BY <1>1, WhereFrom

\* Copies go on agreeing.
LEMMA AgreeKept ==
    ASSUME TypeOK, CallsShaped, CopiesAgree, RowStep,
           NEW x \in Processes, CallStep(x), CopiesRead(x)
    PROVE  CopiesAgree'
<1> DEFINE Old(m) == \E n \in AllCopies : n.id = m.id /\ SameMessage(n.row, m.row)
           New(m) == m.id = used + 1 /\ used' = used + 1 /\ m.row = rows'[m.id]
<1>0. used \in Nat /\ used' \in Nat /\ used <= used'
  BY SQSAssumption DEF TypeOK, RowStep
<1>1. \A m \in AllCopies' : Old(m) \/ New(m)
  BY Stems
<1>2. ASSUME NEW m \in AllCopies', Old(m) PROVE m.id \in Nat /\ m.id <= used /\ m.id # used + 1
  <2>1. PICK n \in AllCopies : n.id = m.id
    BY <1>2
  <2>2. n.id \in Nat /\ n.id <= used
    BY <2>1, CopyTypes, SQSAssumption DEF CopiesAgree, Ids
  <2> QED BY <1>0, <2>1, <2>2
<1>3. ASSUME NEW m \in AllCopies', NEW n \in AllCopies', m.id = n.id
      PROVE  SameMessage(m.row, n.row)
  <2>1. CASE New(m)
    <3>1. New(n)
      BY <1>1, <1>2, <1>3, <2>1
    <3> QED BY <1>3, <2>1, <3>1 DEF SameMessage
  <2>2. CASE Old(m)
    <3>1. Old(n)
      BY <1>1, <1>2, <1>3, <2>2
    <3>2. PICK p \in AllCopies : p.id = m.id /\ SameMessage(p.row, m.row)
      BY <2>2
    <3>3. PICK q \in AllCopies : q.id = n.id /\ SameMessage(q.row, n.row)
      BY <3>1
    <3>4. SameMessage(p.row, q.row)
      BY <1>3, <3>2, <3>3 DEF CopiesAgree
    <3> QED BY <3>2, <3>3, <3>4 DEF SameMessage
  <2> QED BY <1>1, <2>1, <2>2
<1>4. ASSUME NEW m \in AllCopies' PROVE m.id <= used'
  BY <1>0, <1>1, <1>2
<1>5. ASSUME NEW c \in Consumers, pc'[c] = "delete"
      PROVE  /\ cur'[c].id <= used'
             /\ \A m \in AllCopies' : m.id = cur'[c].id => m.row.body = cur'[c].row.body
  <2>1. /\ cur'[c].id \in Nat /\ cur'[c].id <= used
        /\ \A m \in AllCopies : m.id = cur'[c].id => m.row.body = cur'[c].row.body
    <3>1. CASE c = x
      <4>1. PICK n \in AllCopies : n.id = cur'[c].id /\ n.row.body = cur'[c].row.body
        BY <1>5, <3>1 DEF CopiesRead
      <4>2. n.id \in Nat /\ n.id <= used
        BY <4>1, CopyTypes, SQSAssumption DEF CopiesAgree, Ids
      <4> QED BY <4>1, <4>2 DEF CopiesAgree, SameMessage
    <3>2. CASE c # x
      <4>1. pc[c] = "delete" /\ cur'[c] = cur[c]
        BY <1>5, <3>2, Kinds DEF CallStep
      <4> QED BY <4>1, SQSAssumption DEF CopiesAgree, CallsShaped, Ids
    <3> QED BY <3>1, <3>2
  <2>2. ASSUME NEW m \in AllCopies', m.id = cur'[c].id PROVE m.row.body = cur'[c].row.body
    <3>1. Old(m)
      BY <1>0, <1>1, <2>1, <2>2
    <3> QED BY <2>1, <2>2, <3>1 DEF SameMessage
  <2> QED BY <1>0, <2>1, <2>2
<1> QED BY <1>3, <1>4, <1>5 DEF CopiesAgree

\* No copy gets ahead of what was handed out.
LEMMA CountsKept ==
    ASSUME TypeOK, CallsShaped, CountsEarned, RowStep, UNCHANGED queue,
           NEW x \in Processes, CallStep(x), CopiesRead(x)
    PROVE  CountsEarned'
<1> SUFFICES ASSUME NEW m \in AllCopies'
             PROVE  /\ m.row.count <= handed'[m.id]
                    /\ m.row.handle # None => handed'[m.id] > 0
                    /\ fifo' /\ m.row.group # None /\ handed'[m.id] = 0 => ~m.row.hidden
  BY DEF CountsEarned
<1>0. fifo' = fifo /\ maxReceive \in Nat
  BY SQSAssumption DEF queue, TypeOK
<1>1. CASE m \in AllCopies
  <2>1. m.id \in Ids /\ m.row.count \in Nat
    BY <1>0, <1>1, CopyTypes DEF Rows
  <2>2. handed[m.id] \in Nat /\ handed'[m.id] \in Nat /\ handed[m.id] <= handed'[m.id]
    BY <1>0, <2>1 DEF TypeOK, RowStep
  <2>3. /\ m.row.count <= handed[m.id]
        /\ m.row.handle # None => handed[m.id] > 0
        /\ fifo /\ m.row.group # None /\ handed[m.id] = 0 => ~m.row.hidden
    BY <1>1 DEF CountsEarned
  <2> QED BY <1>0, <2>1, <2>2, <2>3
<1>2. CASE m.id \in Ids /\ m.row = rows'[m.id] /\ m.row # None /\ OldRow(m.id)
  BY <1>0, <1>2 DEF OldRow
<1>3. CASE m.id \in Ids /\ m.row = rows'[m.id] /\ m.row # None /\ NewRow(m.id)
  <2>1. handed'[m.id] \in Nat
    BY <1>0, <1>3 DEF RowStep
  <2> QED BY <1>0, <1>3, <2>1 DEF NewRow
<1> QED BY <1>1, <1>2, <1>3, WhereFrom

\* Sequence numbers, when no message is acknowledged: a number that is taken is
\* above all that were given before.
LEMMA SeqsKept ==
    ASSUME TypeOK, CallsShaped, CopiesAgree, SeqsGrow, RowStep,
           NEW x \in Processes, CallStep(x), CopiesRead(x), UNCHANGED <<queue, acks, prior>>,
           seqNum' \in 0..MaxSeq, seqNum <= seqNum',
           \A b \in Bodies : send'[b].prior \subseteq acks /\ send'[b].seq <= seqNum',
           \A b \in Bodies : pc'[b] # "idle" /\ fifo => send'[b].group # None,
           \A b \in Bodies : pc'[b] = "put" =>
              \/ pc[b] = "put" /\ send'[b] = send[b]
              \/ send'[b].seq > seqNum
              \/ send'[b].prior = {}
    PROVE  SeqsGrow'
<1> DEFINE Old(m) == \E n \in AllCopies : n.id = m.id /\ SameMessage(n.row, m.row)
           New(m) == m.id = used + 1 /\ used' = used + 1 /\ m.row = rows'[m.id]
<1>0. /\ used \in Nat /\ used' \in Nat /\ used <= used' /\ fifo' = fifo
      /\ seqNum \in Int /\ seqNum' \in Int
      /\ \A i \in acks : i \in Nat /\ i <= used
      /\ \A i \in Ids : i \in Nat /\ \A p \in prior[i] : p \in Nat /\ p <= used /\ i <= used
  <2>1. \A i \in Ids : i \in Nat
    BY SQSAssumption DEF Ids
  <2>2. acks \subseteq Ids /\ \A i \in Ids : prior[i] \subseteq Ids
    BY DEF TypeOK
  <2>3. used \in Nat /\ used' \in Nat /\ used <= used'
    BY SQSAssumption DEF TypeOK, RowStep
  <2>4. seqNum \in Int /\ seqNum' \in Int /\ fifo' = fifo
    BY DEF TypeOK, queue
  <2> QED BY <2>1, <2>2, <2>3, <2>4 DEF SeqsGrow
<1>1. \A m \in AllCopies' : Old(m) \/ New(m)
  BY Stems
<1>2. \A n \in AllCopies : n.id \in Ids /\ n.row \in Rows(maxReceive) /\ n.row.seq \in Int
  <2>2. \A r \in Rows(maxReceive) : r.seq \in Int
    BY DEF Rows
  <2> QED BY <2>2, CopyTypes
<1>3. ASSUME NEW m \in AllCopies', m.id \in acks
      PROVE  m.row.seq <= seqNum' /\ m.row.q = "src"
  <2>1. Old(m)
    BY <1>0, <1>1, <1>3
  <2>2. PICK n \in AllCopies : n.id = m.id /\ SameMessage(n.row, m.row)
    BY <2>1
  <2>3. n.row.seq <= seqNum /\ n.row.q = "src"
    BY <1>3, <2>2 DEF SeqsGrow
  <2> QED BY <1>0, <1>2, <2>2, <2>3 DEF SameMessage
<1>4. ASSUME NEW b \in Bodies, pc'[b] = "put", NEW m \in AllCopies', m.id \in send'[b].prior
      PROVE  m.row.seq < send'[b].seq
  <2>1. m.id \in acks
    BY <1>4
  <2>2. Old(m)
    BY <1>0, <1>1, <2>1
  <2>3. PICK n \in AllCopies : n.id = m.id /\ SameMessage(n.row, m.row)
    BY <2>2
  <2>4. CASE pc[b] = "put" /\ send'[b] = send[b]
    BY <1>4, <2>3, <2>4 DEF SeqsGrow, SameMessage
  <2>5. CASE send'[b].seq > seqNum
    <3>1. n.row.seq <= seqNum /\ n.row.seq = m.row.seq
      BY <2>1, <2>3 DEF SeqsGrow, SameMessage
    <3>2. send'[b].seq \in Int
      BY DEF CallStep
    <3> QED BY <1>0, <1>2, <2>5, <3>1, <3>2
  <2> QED BY <1>4, <2>4, <2>5
<1>5. ASSUME NEW m \in AllCopies', NEW n \in AllCopies', n.id \in prior[m.id]
      PROVE  /\ n.row.seq < m.row.seq /\ n.row.group = m.row.group /\ n.row.q = "src"
             /\ n.row.group # None
  <2>2. m.id \in Ids
    BY StemIds
  <2>3. n.id <= used /\ m.id <= used /\ n.id \in Nat /\ m.id \in Nat
    BY <1>0, <1>5, <2>2
  <2>4. Old(m) /\ Old(n)
    BY <1>0, <1>1, <2>3
  <2>5. PICK p \in AllCopies : p.id = m.id /\ SameMessage(p.row, m.row)
    BY <2>4
  <2>6. PICK r \in AllCopies : r.id = n.id /\ SameMessage(r.row, n.row)
    BY <2>4
  <2>7. r.row.seq < p.row.seq /\ r.row.group = p.row.group /\ r.row.q = "src" /\ r.row.group # None
    BY <1>5, <2>5, <2>6 DEF SeqsGrow
  <2> QED BY <2>5, <2>6, <2>7 DEF SameMessage
<1>6. \A i \in Ids : \A p \in prior[i] : p <= used' /\ i <= used'
  BY <1>0
<1>7. \A i \in acks : i <= used'
  BY <1>0
<1>8. UNCHANGED <<fifo, acks, prior>>
  BY DEF queue
<1> HIDE DEF Old, New
<1> QED BY <1>3, <1>4, <1>5, <1>6, <1>7, <1>8 DEF SeqsGrow

\* A receive's candidates stay complete.
LEMMA CandidatesKept ==
    ASSUME TypeOK, CallsShaped, CopiesAgree, SeqsGrow, CandidatesComplete, RowStep,
           NEW x \in Processes, CallStep(x), CopiesRead(x), UNCHANGED queue,
           \A i \in Ids : i <= used => prior'[i] = prior[i],
           x \in Clients =>
              \/ cand'[x] \in {{}, cand[x]}
              \/ \A m \in cand'[x] : \A p \in prior[m.id] :
                    rows'[p] # None /\ handed'[p] = 0 => [id |-> p, row |-> rows'[p]] \in cand'[x]
    PROVE  CandidatesComplete'
<1> SUFFICES ASSUME NEW c \in Clients, NEW m \in cand'[c], NEW p \in prior'[m.id],
                    rows'[p] # None, handed'[p] = 0
             PROVE  [id |-> p, row |-> rows'[p]] \in cand'[c]
  BY DEF CandidatesComplete, Copy
<1>1. m \in AllCopies /\ c \in Callers
  BY Kinds, CopiesIn DEF CallStep, CopiesRead
<1>2. m.id \in Ids /\ m.id <= used
  BY <1>1, CopyTypes DEF CopiesAgree
<1>3. p \in prior[m.id] /\ p \in Ids /\ p <= used
  BY <1>2 DEF TypeOK, SeqsGrow
<1>4. fifo
  BY <1>2, <1>3 DEF SeqsGrow
<1>5. CASE cand'[c] # cand[c]
  BY <1>1, <1>3, <1>5 DEF CallStep
<1>6. CASE cand'[c] = cand[c]
  <2>1. cand'[c] = cand[c]
    BY <1>6
  <2>2. p # used + 1
    BY <1>3, SQSAssumption DEF Ids, TypeOK
  <2>3. OldRow(p)
    BY <1>3, <2>2 DEF RowStep, NewRow
  <2>4. rows'[p] = rows[p]
    <3>1. PICK n \in AllCopies : n.id = p /\ SameMessage(n.row, rows'[p])
      BY <2>3 DEF OldRow
    <3>2. n.row.group # None
      BY <1>1, <1>3, <3>1 DEF SeqsGrow
    <3> QED BY <1>4, <2>3, <3>1, <3>2 DEF OldRow, SameMessage
  <2>5. handed[p] = 0
    <3>1. handed[p] \in Nat /\ handed[p] <= handed'[p]
      BY <1>3, SQSAssumption DEF TypeOK, RowStep
    <3> QED BY <3>1
  <2>6. Copy(p) \in cand[c]
    BY <1>3, <2>1, <2>4, <2>5 DEF CandidatesComplete
  <2> QED BY <2>1, <2>4, <2>6 DEF Copy
<1> QED BY <1>5, <1>6

\* What is in either queue.
LEMMA InQueues ==
    ASSUME TypeOK PROVE In("src") \cup In("dlq") = {i \in Ids : rows[i] # None}
<1>1. \A i \in Ids : rows[i] # None => rows[i].q \in {"src", "dlq"}
  BY DEF TypeOK, Rows
<1> QED BY <1>1 DEF In

LEMMA InQueuesAfter ==
    ASSUME TypeOK' PROVE In("src")' \cup In("dlq")' = {i \in Ids : rows'[i] # None}
<1>1. \A i \in Ids : rows'[i] # None => rows'[i].q \in {"src", "dlq"}
  BY DEF TypeOK, Rows
<1> QED BY <1>1 DEF In

\* A body somebody still has: in a row, or handled or purged.
Present(b) == b \in done \/ \E i \in Ids : rows[i] # None /\ rows[i].body = b

LEMMA NoneLost == ASSUME TypeOK PROVE NoMessageLost <=> \A b \in stored : Present(b)
BY InQueues DEF NoMessageLost, Present

LEMMA NoneLostAfter == ASSUME TypeOK' PROVE NoMessageLost' <=> \A b \in stored' : Present(b)'
BY InQueuesAfter DEF NoMessageLost, Present

\* A row that goes leaves its body handled, or in a newer row.
Survives(i) ==
    rows[i] # None /\ rows'[i] = None =>
        \/ rows[i].body \in done'
        \/ \E j \in Ids : j > i /\ rows'[j] # None /\ rows'[j].body = rows[i].body

\* Bodies are conserved by a step that deletes no row whose body is not safe.
LEMMA BodiesKept ==
    ASSUME TypeOK, TypeOK', CallsShaped, CopiesAgree, PutFirst, NoMessageLost, RowStep,
           NEW x \in Processes, CallStep(x), CopiesRead(x),
           done \subseteq done', \A i \in Ids : Survives(i),
           \A b \in stored' : b \in stored \/ Present(b)',
           x \in Callers /\ pc'[x] = "moveDelete" =>
              \/ pc[x] = "moveDelete" /\ cur'[x] = cur[x]
              \/ \E j \in Ids : /\ j > cur'[x].id /\ rows'[j] # None
                                /\ rows'[j].body = cur'[x].row.body
    PROVE  PutFirst' /\ NoMessageLost'
<1>0. /\ \A i \in Ids : i \in Nat
      /\ used \in Nat
  BY SQSAssumption DEF Ids, TypeOK
<1>1. ASSUME NEW i \in Ids, rows[i] # None
      PROVE  \/ rows[i].body \in done'
             \/ \E j \in Ids : j >= i /\ rows'[j] # None /\ rows'[j].body = rows[i].body
  <2>1. CASE rows'[i] = None
    <3>1. CASE rows[i].body \in done'
      BY <3>1
    <3>2. CASE \E j \in Ids : j > i /\ rows'[j] # None /\ rows'[j].body = rows[i].body
      <4>1. PICK j \in Ids : j > i /\ rows'[j] # None /\ rows'[j].body = rows[i].body
        BY <3>2
      <4>2. j >= i
        BY <1>0, <4>1
      <4> QED BY <4>1, <4>2
    <3> QED BY <1>1, <2>1, <3>1, <3>2 DEF Survives
  <2>2. CASE rows'[i] # None
    <3>1. [id |-> i, row |-> rows[i]] \in AllCopies
      BY <1>1, CopiesIn
    <3>2. i <= used
      BY <3>1 DEF CopiesAgree
    <3>3. OldRow(i)
      BY <1>0, <3>2 DEF RowStep, NewRow
    <3>4. PICK n \in AllCopies : n.id = i /\ SameMessage(n.row, rows'[i])
      BY <2>2, <3>3 DEF OldRow
    <3>5. SameMessage(n.row, rows[i])
      BY <3>1, <3>4 DEF CopiesAgree
    <3>6. rows'[i].body = rows[i].body /\ i >= i
      BY <1>0, <3>4, <3>5 DEF SameMessage
    <3> QED BY <2>2, <3>6
  <2> QED BY <2>1, <2>2
<1>2. \A b \in stored : Present(b)
  BY NoneLost
<1>3. \A b \in stored : Present(b)'
  BY <1>1, <1>2 DEF Present
<1>4. NoMessageLost'
  BY <1>3, NoneLostAfter
<1>5. ASSUME NEW y \in Callers, pc'[y] = "moveDelete"
      PROVE  \/ cur'[y].row.body \in done'
             \/ \E j \in Ids : /\ j > cur'[y].id /\ rows'[j] # None
                               /\ rows'[j].body = cur'[y].row.body
  <2>1. CASE pc[y] = "moveDelete" /\ cur'[y] = cur[y]
    <3>1. CASE cur[y].row.body \in done
      BY <2>1, <3>1
    <3>2. CASE \E j \in Ids : j > cur[y].id /\ rows[j] # None /\ rows[j].body = cur[y].row.body
      <4>1. PICK j \in Ids : j > cur[y].id /\ rows[j] # None /\ rows[j].body = cur[y].row.body
        BY <3>2
      <4>2. cur[y].id \in Nat
        BY <1>0, <2>1 DEF CallsShaped, Moving, Entries
      <4>3. CASE rows[j].body \in done'
        BY <2>1, <4>1, <4>3
      <4>4. CASE \E k \in Ids : k >= j /\ rows'[k] # None /\ rows'[k].body = rows[j].body
        <5>1. PICK k \in Ids : k >= j /\ rows'[k] # None /\ rows'[k].body = rows[j].body
          BY <4>4
        <5>2. k > cur[y].id
          BY <1>0, <4>1, <4>2, <5>1
        <5> QED BY <2>1, <4>1, <5>1, <5>2
      <4> QED BY <1>1, <4>1, <4>3, <4>4
    <3> QED BY <2>1, <3>1, <3>2 DEF PutFirst
  <2>2. CASE y = x
    BY <1>5, <2>1, <2>2
  <2>3. CASE y # x
    BY <1>5, <2>1, <2>3, Kinds DEF CallStep
  <2> QED BY <2>2, <2>3
<1>6. PutFirst'
  BY <1>5 DEF PutFirst
<1> QED BY <1>4, <1>6

\* How often a message must have been handed out before c moves it.
Owed(c) == IF c \in Clients THEN maxReceive ELSE maxReceive - 1

LEMMA EarnedKept ==
    ASSUME TypeOK, CallsShaped, DeadLetterEarned, RowStep, UNCHANGED queue,
           NEW x \in Processes, CallStep(x),
           x \in Consumers /\ pc'[x] \in {"movePut", "moveDelete"} =>
              \/ pc[x] \in {"movePut", "moveDelete"} /\ cur'[x] = cur[x]
              \/ handed'[cur'[x].id] >= Owed(x)
    PROVE  DeadLetterEarned'
<1> SUFFICES ASSUME NEW c \in Consumers, pc'[c] \in {"movePut", "moveDelete"}
             PROVE  handed'[cur'[c].id] >= Owed(c)
  BY DEF DeadLetterEarned, Owed, queue
<1>1. CASE pc[c] \in {"movePut", "moveDelete"} /\ cur'[c] = cur[c]
  <2>1. handed[cur[c].id] >= Owed(c)
    BY <1>1 DEF DeadLetterEarned, Owed
  <2>2. cur[c].id \in Ids
    BY <1>1, Kinds DEF CallsShaped, Moving, Entries
  <2>3. /\ handed[cur[c].id] \in Int /\ handed'[cur[c].id] \in Int
        /\ handed[cur[c].id] <= handed'[cur[c].id]
    BY <2>2 DEF TypeOK, RowStep
  <2>4. Owed(c) \in Int
    BY SQSAssumption DEF Owed, TypeOK
  <2> QED BY <1>1, <2>1, <2>3, <2>4
<1>2. CASE c = x
  BY <1>1, <1>2
<1>3. CASE c # x
  BY <1>1, <1>3, Kinds DEF CallStep
<1> QED BY <1>2, <1>3

-----------------------------------------------------------------------------
(* The invariant, and the steps of consumers and of the mover. *)

SQSInv == QueueInv /\ NoMessageLost /\ DeadLetterEarned

\* How many deduplication ids there are.
LEMMA OverlookedCount ==
    ASSUME TypeOK
    PROVE  /\ Cardinality(dedup) \in Nat /\ IsFiniteSet(dedup)
           /\ Cardinality(Overlooked) \in Nat /\ IsFiniteSet(Overlooked)
<1>1. dedup \subseteq Bodies /\ Overlooked \subseteq Bodies
  BY DEF TypeOK, Overlooked
<1> QED BY <1>1, KindsAssumption, FS_Subset, FS_CardinalityType

LEMMA TypesKept ==
    ASSUME TypeOK, RowStep, NEW x \in Processes, CallStep(x), UNCHANGED queue,
           seqNum' \in 0..MaxSeq, dedup' \subseteq Bodies, rare' \in 0..MaxRare,
           prior' \in [Ids -> SUBSET Ids], acks' \subseteq Ids, stored' \subseteq Bodies,
           done' \subseteq Bodies, sends' \in [Bodies -> Nat], slips' \in [Bodies -> Nat]
    PROVE  TypeOK'
<1>1. Entries' = Entries /\ Rows(maxReceive)' = Rows(maxReceive)
  BY DEF Entries, Rows, queue
<1>2. fifo' \in BOOLEAN /\ maxReceive' \in Limits /\ maxReceive' = maxReceive
  BY DEF TypeOK, queue
<1> QED BY <1>1, <1>2 DEF TypeOK, RowStep, CallStep

\* A step of a caller keeps the invariant if it keeps these facts.
LEMMA CallerKeeps ==
    ASSUME SQSInv, RowStep, NEW x \in Callers, CallStep(x), CopiesRead(x), Shaped(x)',
           UNCHANGED <<queue, seqNum, dedup, send, prior, acks, sends, slips>>,
           rare' \in 0..MaxRare, rare <= rare',
           stored' \subseteq Bodies, done' \subseteq Bodies, done \subseteq done',
           \A i \in Ids : Survives(i), \A b \in stored' : b \in stored \/ Present(b)',
           pc'[x] = "moveDelete" =>
              \/ pc[x] = "moveDelete" /\ cur'[x] = cur[x]
              \/ \E j \in Ids : /\ j > cur'[x].id /\ rows'[j] # None
                                /\ rows'[j].body = cur'[x].row.body,
           x \in Consumers /\ pc'[x] \in {"movePut", "moveDelete"} =>
              \/ pc[x] \in {"movePut", "moveDelete"} /\ cur'[x] = cur[x]
              \/ handed'[cur'[x].id] >= Owed(x),
           x \in Clients =>
              \/ cand'[x] \in {{}, cand[x]}
              \/ \A m \in cand'[x] : \A p \in prior[m.id] :
                    rows'[p] # None /\ handed'[p] = 0 => [id |-> p, row |-> rows'[p]] \in cand'[x]
    PROVE  SQSInv'
<1>0. /\ TypeOK /\ CallsShaped /\ DedupSound /\ CopiesAgree /\ CountsEarned /\ PutFirst
      /\ SeqsGrow /\ CandidatesComplete /\ NoMessageLost /\ DeadLetterEarned
      /\ x \in Processes
  BY Kinds DEF SQSInv, QueueInv
<1>1. TypeOK'
  BY <1>0, TypesKept DEF TypeOK
<1>2. CallsShaped'
  BY <1>0, ShapeKept
<1>3. CopiesAgree' /\ CountsEarned'
  BY <1>0, AgreeKept, CountsKept
<1>4. PutFirst' /\ NoMessageLost'
  BY <1>0, <1>1, BodiesKept
<1>5. DeadLetterEarned'
  BY <1>0, EarnedKept
<1>6. CandidatesComplete'
  BY <1>0, CandidatesKept
<1>7. \A b \in Bodies : pc'[b] = pc[b] /\ send'[b] = send[b]
  BY Kinds DEF CallStep
<1>8. SeqsGrow'
  <2>1. seqNum' \in 0..MaxSeq /\ seqNum <= seqNum'
    BY <1>0 DEF TypeOK
  <2>2. \A b \in Bodies : send'[b].prior \subseteq acks /\ send'[b].seq <= seqNum'
    BY <1>0, <1>7 DEF SeqsGrow
  <2>3. \A b \in Bodies : pc'[b] # "idle" /\ fifo => send'[b].group # None
    BY <1>7 , <1>0 DEF SeqsGrow
  <2> QED BY <1>0, <1>7, <2>1, <2>2, <2>3, SeqsKept
<1>9. DedupSound'
  <2>1. Overlooked' = Overlooked
    BY <1>0, <1>7 DEF Overlooked, TypeOK
  <2>2. seqNum + Cardinality(Overlooked) <= Cardinality(dedup) + rare'
    BY <1>0, OverlookedCount DEF DedupSound, TypeOK
  <2> QED BY <1>0, <1>7, <2>1, <2>2 DEF DedupSound, queue
<1> QED BY <1>1, <1>2, <1>3, <1>4, <1>5, <1>6, <1>8, <1>9 DEF SQSInv, QueueInv

-----------------------------------------------------------------------------
(* What the operations of the message backend do to the rows. *)

\* A row that a step leaves alone.
LEMMA RowStays ==
    ASSUME CountsEarned, NEW i \in Ids, rows'[i] # None, rows'[i] = rows[i], handed'[i] = handed[i]
    PROVE  OldRow(i)
<1>1. [id |-> i, row |-> rows[i]] \in AllCopies
  BY CopiesIn
<1>2. SameMessage(rows[i], rows[i])
  BY DEF SameMessage
<1>3. /\ rows[i].count <= handed[i]
      /\ rows[i].handle # None => handed[i] > 0
      /\ fifo /\ rows[i].group # None /\ handed[i] = 0 => ~rows[i].hidden
  BY <1>1 DEF CountsEarned
<1>4. \E n \in AllCopies : n.id = i /\ SameMessage(n.row, rows'[i])
  BY <1>1, <1>2
<1> QED BY <1>3, <1>4 DEF OldRow

\* Rows that stay or go.
LEMMA RowsDropped ==
    ASSUME TypeOK, CallsShaped, CopiesAgree, CountsEarned, UNCHANGED <<used, handed>>,
           rows' \in [Ids -> Rows(maxReceive) \cup {None}],
           \A i \in Ids : rows'[i] \in {rows[i], None}
    PROVE  RowStep
<1>1. ASSUME NEW i \in Ids, rows'[i] # None PROVE OldRow(i)
  BY <1>1, RowStays
<1>2. \A i \in Ids : OldRow(i)
  BY <1>1 DEF OldRow
<1>3. /\ used' \in 0..MaxId /\ used <= used' /\ handed' \in [Ids -> 0..maxReceive]
      /\ \A i \in Ids : handed[i] <= handed'[i]
  BY SQSAssumption DEF TypeOK
<1> QED BY <1>2, <1>3 DEF RowStep

\* A step that reads the rows only.
LEMMA RowsRead ==
    ASSUME TypeOK, CallsShaped, CopiesAgree, CountsEarned, UNCHANGED <<rows, used, handed>>
    PROVE  RowStep /\ \A i \in Ids : Survives(i)
<1>1. rows' \in [Ids -> Rows(maxReceive) \cup {None}]
  BY DEF TypeOK
<1> QED BY <1>1, RowsDropped DEF Survives

\* A copy is written back, with its receives counted in handed'.
LEMMA RowWritten ==
    ASSUME TypeOK, CallsShaped, CopiesAgree, CountsEarned, NEW n \in AllCopies,
           NEW r \in Rows(maxReceive), Put(n.id, r), SameMessage(n.row, r), used' = used,
           handed' \in [Ids -> 0..maxReceive],
           \A i \in Ids : i # n.id => handed'[i] = handed[i],
           handed[n.id] <= handed'[n.id],
           r.count <= handed'[n.id], r.handle # None => handed'[n.id] > 0,
           fifo /\ r.group # None /\ handed'[n.id] = 0 => ~r.hidden /\ r = rows[n.id]
    PROVE  RowStep /\ (\A i \in Ids : Survives(i)) /\ n.id \in Ids /\ rows'[n.id] = r
<1>1. n.id \in Ids
  BY CopyTypes
<1>2. /\ rows' \in [Ids -> Rows(maxReceive) \cup {None}]
      /\ rows'[n.id] = r /\ r # None
      /\ \A i \in Ids : i # n.id => rows'[i] = rows[i]
  BY <1>1, RowNotNone DEF Put, TypeOK
<1>3. OldRow(n.id)
  BY <1>2 DEF OldRow
<1>4. ASSUME NEW i \in Ids, i # n.id, rows'[i] # None PROVE OldRow(i)
  BY <1>2, <1>4, RowStays
<1>5. \A i \in Ids : OldRow(i)
  BY <1>3, <1>4 DEF OldRow
<1>6. used' \in 0..MaxId /\ used <= used'
  BY SQSAssumption DEF TypeOK
<1>7. \A i \in Ids : handed[i] <= handed'[i]
  <2>1. \A i \in Ids : handed[i] \in Int
    BY DEF TypeOK
  <2> QED BY <2>1
<1>8. \A i \in Ids : Survives(i)
  BY <1>2 DEF Survives
<1> QED BY <1>1, <1>2, <1>5, <1>6, <1>7, <1>8 DEF RowStep

\* A new row.
LEMMA RowAdded ==
    ASSUME TypeOK, CallsShaped, CopiesAgree, CountsEarned, handed' = handed,
           NEW r \in Rows(maxReceive), PutNew(r),
           r.count = 0, r.handle = None, fifo /\ r.group # None => ~r.hidden
    PROVE  /\ RowStep /\ \A i \in Ids : Survives(i)
           /\ used' = used + 1 /\ used' \in Ids /\ rows'[used'] = r /\ r # None
           /\ \A i \in Ids : i # used' => rows'[i] = rows[i]
<1>1. used < MaxId /\ used' = used + 1 /\ rows' = [rows EXCEPT ![used + 1] = r]
  BY DEF PutNew
<1>2. used + 1 \in Ids /\ used' \in 0..MaxId /\ used <= used' /\ used \in Nat
  BY <1>1, SQSAssumption DEF TypeOK, Ids
<1>3. /\ rows' \in [Ids -> Rows(maxReceive) \cup {None}]
      /\ rows'[used + 1] = r /\ r # None
      /\ \A i \in Ids : i # used + 1 => rows'[i] = rows[i]
  BY <1>1, <1>2, RowNotNone DEF TypeOK
<1>4. NewRow(used + 1)
  BY <1>1, <1>3 DEF NewRow
<1>5. ASSUME NEW i \in Ids, i # used + 1, rows'[i] # None PROVE OldRow(i)
  BY <1>3, <1>5, RowStays
<1>6. \A i \in Ids : OldRow(i) \/ NewRow(i)
  BY <1>4, <1>5 DEF OldRow
<1>7. handed' \in [Ids -> 0..maxReceive] /\ \A i \in Ids : handed[i] <= handed'[i]
  BY DEF TypeOK
<1>8. \A i \in Ids : Survives(i)
  BY <1>3 DEF Survives
<1> QED BY <1>1, <1>2, <1>3, <1>6, <1>7, <1>8 DEF RowStep

-----------------------------------------------------------------------------
(* Consumers and the mover, action by action. *)

\* What a receive does with its own call.
LEMMA ProceedStep ==
    ASSUME TypeOK, CallsShaped, NEW c \in Consumers, NEW left \in SUBSET AllCopies,
           NEW n \in 0..Batch, NEW got \in SUBSET Ids, Proceed(c, left, n, got),
           UNCHANGED <<send, queue>>
    PROVE  /\ CallStep(c) /\ CopiesRead(c) /\ Shaped(c)'
           /\ pc'[c] \in {"each", "invoke", "idle"} /\ cand'[c] \in {{}, left} /\ held'[c] = got
<1> DEFINE over == left = {} \/ n = 0
<1>1. c \in Callers /\ c \in Processes /\ c # Mover /\ c \notin Bodies
  BY Kinds
<1>2. left \subseteq Entries
  BY CopyTypes
<1>3. PICK l \in {"each", "invoke", "idle"} :
         pc' = [pc EXCEPT ![c] = l] /\ (l = "each" => ~over)
  BY DEF Proceed
<1>4. PICK kept \in {{}, left} : cand' = [cand EXCEPT ![c] = kept]
  BY DEF Proceed
<1>5. /\ room' = [room EXCEPT ![c] = IF over THEN 0 ELSE n]
      /\ held' = [held EXCEPT ![c] = got] /\ cur' = [cur EXCEPT ![c] = None]
  BY DEF Proceed
<1>6. (IF over THEN 0 ELSE n) \in 0..Batch
  BY SQSAssumption
<1>7. CallStep(c)
  <2>1. /\ pc' \in [Processes -> {"idle", "record", "put", "fetch", "each", "movePut",
                              "moveDelete", "delete", "change", "invoke"}]
        /\ \A p \in Processes : p # c => pc'[p] = pc[p]
    BY <1>1, <1>3 DEF TypeOK
  <2>2. cand' \in [Callers -> SUBSET Entries] /\ \A y \in Callers : y # c => cand'[y] = cand[y]
    BY <1>1, <1>2, <1>4 DEF TypeOK
  <2>3. cur' = [y \in Callers |-> cur'[y]] /\ \A y \in Callers : y # c => cur'[y] = cur[y]
    BY <1>1, <1>5 DEF TypeOK
  <2>4. /\ held' \in [Consumers -> SUBSET Ids] /\ room' \in [Consumers -> 0..Batch]
        /\ \A d \in Consumers : d # c => room'[d] = room[d] /\ held'[d] = held[d]
    BY <1>5, <1>6 DEF TypeOK
  <2> QED BY <2>1, <2>2, <2>3, <2>4 DEF CallStep, TypeOK
<1>8. /\ pc'[c] = l /\ cand'[c] = kept /\ held'[c] = got
      /\ room'[c] = IF over THEN 0 ELSE n
  BY <1>1, <1>3, <1>4, <1>5 DEF TypeOK
<1>9. CopiesRead(c)
  BY <1>3, <1>4, <1>8 DEF CopiesRead
<1>10. Shaped(c)'
  <2>1. pc'[c] = "each" => room'[c] > 0
    BY <1>3, <1>8
  <2> QED BY <1>1, <1>3, <1>8, <2>1 DEF Shaped
<1> QED BY <1>3, <1>4, <1>7, <1>8, <1>9, <1>10

\* The end of a call that an error stops.
LEMMA GiveUpStep ==
    ASSUME TypeOK, NEW c \in Consumers, GiveUp(c), UNCHANGED <<send, queue>>
    PROVE  /\ CallStep(c) /\ CopiesRead(c) /\ Shaped(c)'
           /\ pc'[c] = "idle" /\ cand'[c] = {} /\ held'[c] = {}
<1>1. c \in Callers /\ c \in Processes /\ c # Mover /\ c \notin Bodies
  BY Kinds
<1>2. 0 \in 0..Batch
  BY SQSAssumption
<1>3. CallStep(c)
  <2>1. /\ pc' \in [Processes -> {"idle", "record", "put", "fetch", "each", "movePut",
                              "moveDelete", "delete", "change", "invoke"}]
        /\ \A p \in Processes : p # c => pc'[p] = pc[p]
    BY <1>1 DEF GiveUp, TypeOK
  <2>2. cand' \in [Callers -> SUBSET Entries] /\ \A y \in Callers : y # c => cand'[y] = cand[y]
    BY <1>1 DEF GiveUp, TypeOK
  <2>3. cur' = [y \in Callers |-> cur'[y]] /\ \A y \in Callers : y # c => cur'[y] = cur[y]
    BY <1>1 DEF GiveUp, TypeOK
  <2>4. /\ held' \in [Consumers -> SUBSET Ids] /\ room' \in [Consumers -> 0..Batch]
        /\ \A d \in Consumers : d # c => room'[d] = room[d] /\ held'[d] = held[d]
    BY <1>2 DEF GiveUp, TypeOK
  <2> QED BY <2>1, <2>2, <2>3, <2>4 DEF CallStep, TypeOK
<1>4. pc'[c] = "idle" /\ cand'[c] = {} /\ held'[c] = {}
  BY <1>1 DEF GiveUp, TypeOK
<1> QED BY <1>1, <1>3, <1>4 DEF CopiesRead, Shaped

\* A redrive takes its next message, or ends.
LEMMA MoveNextStep ==
    ASSUME TypeOK, NEW left \in SUBSET AllCopies, MoveNext(left), CallsShaped,
           UNCHANGED <<send, queue, room, held>>
    PROVE  /\ CallStep(Mover) /\ CopiesRead(Mover) /\ Shaped(Mover)'
           /\ pc'[Mover] \in {"idle", "movePut"}
<1>1. /\ Mover \in Callers /\ Mover \in Processes /\ Mover \notin Consumers /\ Mover \notin Bodies
      /\ Entries' = Entries
  BY Kinds DEF Entries, queue
<1>2. left \subseteq Entries
  BY CopyTypes
<1>3. PICK l \in {"idle", "movePut"} : pc' = [pc EXCEPT ![Mover] = l]
  BY DEF MoveNext
<1>4. PICK kept \in SUBSET left : cand' = [cand EXCEPT ![Mover] = kept]
  BY DEF MoveNext
<1>5. PICK m : cur' = [cur EXCEPT ![Mover] = m]
  BY DEF MoveNext
<1>6. pc'[Mover] = l /\ cand'[Mover] = kept /\ cur'[Mover] = m
  BY <1>1, <1>3, <1>4, <1>5 DEF TypeOK
<1>7. l = "movePut" => m \in left
  <2>1. \/ pc' = [pc EXCEPT ![Mover] = "idle"]
        \/ \E k \in left : cur' = [cur EXCEPT ![Mover] = k]
    BY DEF MoveNext
  <2>2. pc' = [pc EXCEPT ![Mover] = "idle"] => pc'[Mover] = "idle"
    BY <1>1 DEF TypeOK
  <2>3. (\E k \in left : cur' = [cur EXCEPT ![Mover] = k]) => cur'[Mover] \in left
    BY <1>1 DEF TypeOK
  <2> QED BY <1>6, <2>1, <2>2, <2>3
<1>8. CallStep(Mover)
  <2>1. /\ pc' \in [Processes -> {"idle", "record", "put", "fetch", "each", "movePut",
                              "moveDelete", "delete", "change", "invoke"}]
        /\ \A p \in Processes : p # Mover => pc'[p] = pc[p]
    BY <1>1, <1>3 DEF TypeOK
  <2>2. cand' \in [Callers -> SUBSET Entries] /\ \A y \in Callers : y # Mover => cand'[y] = cand[y]
    BY <1>1, <1>2, <1>4 DEF TypeOK
  <2>3. cur' = [y \in Callers |-> cur'[y]] /\ \A y \in Callers : y # Mover => cur'[y] = cur[y]
    BY <1>1, <1>5 DEF TypeOK
  <2> QED BY <2>1, <2>2, <2>3 DEF CallStep, TypeOK
<1>9. CopiesRead(Mover)
  BY <1>1, <1>3, <1>4, <1>6, <1>7 DEF CopiesRead
<1>10. Shaped(Mover)'
  BY <1>1, <1>2, <1>3, <1>6, <1>7 DEF Shaped
<1> QED BY <1>3, <1>6, <1>8, <1>9, <1>10

\* What a receive fetches is complete: a message that nobody was given is visible,
\* and its group is blocked for it as for the later ones.
LEMMA CandidatesStep ==
    ASSUME SQSInv, NEW B, NEW m \in Candidates(B), NEW p \in prior[m.id],
           rows[p] # None, handed[p] = 0
    PROVE  [id |-> p, row |-> rows[p]] \in Candidates(B)
<1>0. TypeOK /\ CallsShaped /\ CountsEarned /\ SeqsGrow
  BY DEF SQSInv, QueueInv
<1>1. PICK i \in Ids : m = [id |-> i, row |-> rows[i]] /\ rows[i] # None
  BY DEF Candidates, Visible, Copies, Copy, In
<1>2. m \in AllCopies /\ m.row.group \notin B
  BY <1>1, CopiesIn DEF Candidates
<1>3. p \in Ids /\ fifo
  BY <1>0, <1>1 DEF TypeOK, SeqsGrow
<1>4. [id |-> p, row |-> rows[p]] \in AllCopies
  BY <1>3, CopiesIn
<1>5. /\ rows[p].group = m.row.group /\ rows[p].q = "src" /\ rows[p].group # None
      /\ ~rows[p].hidden
  <2>1. rows[p].group = m.row.group /\ rows[p].q = "src" /\ rows[p].group # None
    BY <1>0, <1>2, <1>4 DEF SeqsGrow
  <2> QED BY <1>0, <1>3, <1>4, <2>1 DEF CountsEarned
<1>6. Copy(p) \in Copies("src")
  BY <1>3, <1>5 DEF Copies, In
<1> QED BY <1>2, <1>5, <1>6 DEF Candidates, Visible, Copy

LEMMA CandidatesCopies == ASSUME TypeOK, NEW B PROVE Candidates(B) \subseteq AllCopies
BY CopiesIn DEF Candidates, Visible, Copies, Copy, In

\* Receive and Fetch.
LEMMA InvReceive == ASSUME SQSInv, NEW c \in Consumers, Receive(c) \/ Fetch(c) PROVE SQSInv'
<1>0. /\ TypeOK /\ CallsShaped /\ CopiesAgree /\ CountsEarned
      /\ c \in Callers /\ c \in Processes /\ c # Mover /\ c \notin Bodies
  BY Kinds DEF SQSInv, QueueInv
<1>1. UNCHANGED <<queue, rows, seqNum, dedup, send, histVars>>
  BY DEF Receive, Fetch
<1>2. /\ UNCHANGED <<queue, rows, seqNum, dedup, send, used, handed, prior, acks,
                     stored, done, sends, slips>>
      /\ rare' \in 0..MaxRare /\ rare <= rare'
      /\ stored' \subseteq Bodies /\ done' \subseteq Bodies
      /\ done \subseteq done' /\ \A b \in stored' : b \in stored
  <2>1. rare' \in 0..MaxRare /\ rare <= rare'
    BY <1>0, SQSAssumption DEF Receive, Fetch, Works, Fails, Rarely, TypeOK
  <2> QED BY <1>0, <1>1, <2>1 DEF histVars, TypeOK
<1>3. RowStep /\ \A i \in Ids : Survives(i)
  BY <1>0, <1>2, RowsRead
<1>4. ASSUME CallStep(c), CopiesRead(c), Shaped(c)', pc'[c] \notin {"movePut", "moveDelete"},
             \A m \in cand'[c] : \A p \in prior[m.id] :
                rows[p] # None /\ handed[p] = 0 => [id |-> p, row |-> rows[p]] \in cand'[c]
      PROVE  SQSInv'
  BY <1>0, <1>2, <1>3, <1>4, CallerKeeps
<1>5. ASSUME NEW B, NEW n \in 0..Batch, Proceed(c, Candidates(B), n, {}) PROVE SQSInv'
  <2>1. Candidates(B) \in SUBSET AllCopies /\ {} \in SUBSET Ids
    BY <1>0, CandidatesCopies
  <2>2. /\ CallStep(c) /\ CopiesRead(c) /\ Shaped(c)'
        /\ pc'[c] \in {"each", "invoke", "idle"} /\ cand'[c] \in {{}, Candidates(B)}
    BY <1>0, <1>2, <1>5, <2>1, ProceedStep
  <2>3. ASSUME NEW m \in cand'[c], NEW p \in prior[m.id], rows[p] # None, handed[p] = 0
        PROVE  [id |-> p, row |-> rows[p]] \in cand'[c]
    BY <2>2, <2>3, CandidatesStep
  <2> QED BY <1>4, <2>2, <2>3
<1>6. ASSUME NEW n \in 1..Batch, NEW B, c \in Clients,
             pc' = [pc EXCEPT ![c] = "fetch"], cur' = [cur EXCEPT ![c] = B],
             held' = [held EXCEPT ![c] = {}], room' = [room EXCEPT ![c] = n], UNCHANGED cand
      PROVE  SQSInv'
  <2>1. /\ pc' \in [Processes -> {"idle", "record", "put", "fetch", "each", "movePut",
                              "moveDelete", "delete", "change", "invoke"}]
        /\ pc'[c] = "fetch" /\ \A p \in Processes : p # c => pc'[p] = pc[p]
    BY <1>0, <1>6 DEF TypeOK
  <2>2. cur' = [y \in Callers |-> cur'[y]] /\ \A y \in Callers : y # c => cur'[y] = cur[y]
    BY <1>0, <1>6 DEF TypeOK
  <2>3. /\ held' \in [Consumers -> SUBSET Ids] /\ room' \in [Consumers -> 0..Batch]
        /\ \A d \in Consumers : d # c => room'[d] = room[d] /\ held'[d] = held[d]
        /\ room'[c] > 0
    BY <1>0, <1>6, SQSAssumption DEF TypeOK
  <2>4. CallStep(c)
    BY <1>0, <1>2, <1>6, <2>1, <2>2, <2>3 DEF CallStep, TypeOK
  <2>5. CopiesRead(c) /\ Shaped(c)'
    BY <1>0, <1>6, <2>1, <2>3, CopiesIn DEF CopiesRead, Shaped
  <2>6. \A m \in cand'[c] : \A p \in prior[m.id] :
           rows[p] # None /\ handed[p] = 0 => [id |-> p, row |-> rows[p]] \in cand'[c]
    BY <1>6 DEF SQSInv, QueueInv, CandidatesComplete, Copy
  <2> QED BY <1>4, <2>1, <2>4, <2>5, <2>6
<1>7. CASE Receive(c)
  <2>1. PICK n \in 1..Batch :
          IF c \in Clients /\ fifo
          THEN /\ pc' = [pc EXCEPT ![c] = "fetch"]
               /\ cur' = [cur EXCEPT ![c] = BlockedGroups("src")]
               /\ held' = [held EXCEPT ![c] = {}] /\ room' = [room EXCEPT ![c] = n]
               /\ UNCHANGED cand
          ELSE Proceed(c, Candidates({}), n, {})
    BY <1>7 DEF Receive
  <2>2. n \in 0..Batch
    BY SQSAssumption
  <2> QED BY <1>5, <1>6, <2>1, <2>2
<1>8. CASE Fetch(c)
  <2>1. Proceed(c, Candidates(cur[c]), room[c], {}) \/ GiveUp(c)
    BY <1>8 DEF Fetch
  <2>2. room[c] \in 0..Batch
    BY <1>0 DEF TypeOK
  <2>3. ASSUME GiveUp(c) PROVE SQSInv'
    <3>1. /\ CallStep(c) /\ CopiesRead(c) /\ Shaped(c)'
          /\ pc'[c] = "idle" /\ cand'[c] = {}
      BY <1>0, <1>2, <2>3, GiveUpStep
    <3> QED BY <1>4, <3>1
  <2> QED BY <1>5, <2>1, <2>2, <2>3
<1> QED BY <1>7, <1>8

\* The row that a receive writes.
LEMMA MarkedRow ==
    ASSUME NEW c \in Consumers, NEW k \in Nat, NEW r \in Rows(k), r.count + 1 <= k
    PROVE  LET s == [r EXCEPT !.handle = c, !.hidden = TRUE, !.count = @ + 1]
           IN  s \in Rows(k) /\ SameMessage(r, s) /\ s.count = r.count + 1
<1> DEFINE s == [r EXCEPT !.handle = c, !.hidden = TRUE, !.count = @ + 1]
<1>1. r.count + 1 \in 0..k
  BY DEF Rows
<1>2. /\ s.q = r.q /\ s.body = r.body /\ s.group = r.group /\ s.seq = r.seq
      /\ s.count = r.count + 1
  BY DEF Rows
<1>3. s \in Rows(k)
  BY <1>1 DEF Rows
<1> QED BY <1>2, <1>3 DEF SameMessage

\* A candidate is handed out, or found to be dead.
LEMMA InvEach == ASSUME SQSInv, NEW c \in Consumers, Each(c) PROVE SQSInv'
<1>0. /\ TypeOK /\ CallsShaped /\ CopiesAgree /\ CountsEarned /\ CandidatesComplete /\ SeqsGrow
      /\ c \in Callers /\ c \in Processes /\ c # Mover /\ c \notin Bodies /\ c # None
  BY Kinds DEF SQSInv, QueueInv
<1>1. UNCHANGED <<queue, seqNum, dedup, send, used, prior, acks, stored, done, sends, slips>>
  BY DEF Each
<1>2. /\ stored' \subseteq Bodies /\ done' \subseteq Bodies
      /\ done \subseteq done' /\ \A b \in stored' : b \in stored
  BY <1>0, <1>1 DEF TypeOK
<1>3. rare' \in 0..MaxRare /\ rare <= rare'
  BY <1>0, SQSAssumption DEF Each, Works, Fails, Rarely, TypeOK
<1>4. PICK m \in NextCandidates(c) :
         \/ /\ Dead(c, m)
            /\ pc' = [pc EXCEPT ![c] = "movePut"] /\ cur' = [cur EXCEPT ![c] = m]
            /\ cand' = [cand EXCEPT ![c] = @ \ {m}]
            /\ UNCHANGED <<rows, held, room, handed>>
         \/ /\ ~Dead(c, m)
            /\ Put(m.id, Mark(m, c))
            /\ handed' = [handed EXCEPT ![m.id] = Upto(@ + 1)]
            /\ Proceed(c, cand[c] \ {m}, room[c] - 1, held[c] \cup {m.id})
         \/ GiveUp(c) /\ UNCHANGED <<rows, handed>>
  BY DEF Each
<1>5. /\ m \in cand[c] /\ m \in AllCopies /\ m.id \in Ids /\ m.row \in Rows(maxReceive)
      /\ pc[c] = "each" /\ room[c] \in 1..Batch
  <2>1. m \in cand[c] /\ pc[c] = "each"
    BY DEF NextCandidates, Each
  <2>2. room[c] > 0 /\ room[c] \in 0..Batch
    BY <1>0, <2>1 DEF CallsShaped, TypeOK
  <2>3. m \in AllCopies
    BY <1>0, <2>1, CopiesIn
  <2> QED BY <1>0, <2>1, <2>2, <2>3, CopyTypes, SQSAssumption
<1>6. /\ m.row.count \in Nat /\ maxReceive \in Nat /\ maxReceive > 0
      /\ handed[m.id] \in 0..maxReceive /\ m.row.count <= handed[m.id]
  BY <1>0, <1>5, SQSAssumption DEF TypeOK, CountsEarned, Rows
<1>7. CASE /\ Dead(c, m)
           /\ pc' = [pc EXCEPT ![c] = "movePut"] /\ cur' = [cur EXCEPT ![c] = m]
           /\ cand' = [cand EXCEPT ![c] = @ \ {m}]
           /\ UNCHANGED <<rows, held, room, handed>>
  <2>1. RowStep /\ \A i \in Ids : Survives(i)
    BY <1>0, <1>1, <1>7, RowsRead
  <2>2. /\ pc' \in [Processes -> {"idle", "record", "put", "fetch", "each", "movePut",
                              "moveDelete", "delete", "change", "invoke"}]
        /\ pc'[c] = "movePut" /\ \A p \in Processes : p # c => pc'[p] = pc[p]
    BY <1>0, <1>7 DEF TypeOK
  <2>3. cand' \in [Callers -> SUBSET Entries] /\ cand'[c] = cand[c] \ {m}
        /\ \A y \in Callers : y # c => cand'[y] = cand[y]
    BY <1>0, <1>7 DEF TypeOK
  <2>4. /\ cur' = [y \in Callers |-> cur'[y]] /\ cur'[c] = m
        /\ \A y \in Callers : y # c => cur'[y] = cur[y]
    BY <1>0, <1>7 DEF TypeOK
  <2>5. CallStep(c)
    BY <1>0, <1>1, <1>7, <2>2, <2>3, <2>4 DEF CallStep, TypeOK
  <2>6. CopiesRead(c)
    BY <1>0, <1>5, <2>2, <2>3, <2>4, CopiesIn DEF CopiesRead
  <2>7. Shaped(c)'
    <3>1. m \in Entries' /\ room'[c] > 0
      BY <1>0, <1>1, <1>5, <1>7, CopyTypes DEF Entries, queue, CallsShaped
    <3> QED BY <1>0, <2>2, <2>4, <3>1 DEF Shaped
  <2>8. handed'[cur'[c].id] >= Owed(c)
    BY <1>6, <1>7, <2>4 DEF Dead, Owed
  <2>9. ASSUME c \in Clients, NEW n \in cand'[c], NEW p \in prior[n.id],
               rows'[p] # None, handed'[p] = 0
        PROVE  [id |-> p, row |-> rows'[p]] \in cand'[c]
    <3>1. [id |-> p, row |-> rows[p]] \in cand[c]
      BY <1>0, <1>7, <2>3, <2>9 DEF CandidatesComplete, Copy
    <3>2. p # m.id
      BY <1>6, <1>7, <2>9 DEF Dead
    <3> QED BY <1>7, <2>3, <3>1, <3>2
  <2> QED BY <1>0, <1>1, <1>2, <1>3, <2>1, <2>2, <2>5, <2>6, <2>7, <2>8, <2>9, CallerKeeps
<1>8. CASE /\ ~Dead(c, m)
           /\ Put(m.id, Mark(m, c))
           /\ handed' = [handed EXCEPT ![m.id] = Upto(@ + 1)]
           /\ Proceed(c, cand[c] \ {m}, room[c] - 1, held[c] \cup {m.id})
  <2>1. m.row.count + 1 <= maxReceive
    BY <1>6, <1>8 DEF Dead
  <2>2. /\ Mark(m, c) \in Rows(maxReceive) /\ SameMessage(m.row, Mark(m, c))
        /\ Mark(m, c).count = m.row.count + 1
    BY <1>0, <1>5, <1>6, <2>1, MarkedRow DEF Mark
  <2>3. /\ handed' \in [Ids -> 0..maxReceive] /\ handed'[m.id] = Upto(handed[m.id] + 1)
        /\ \A i \in Ids : i # m.id => handed'[i] = handed[i]
    BY <1>0, <1>5, <1>6, <1>8 DEF Upto, TypeOK
  <2>4. /\ handed[m.id] <= handed'[m.id] /\ handed'[m.id] > 0
        /\ Mark(m, c).count <= handed'[m.id]
    BY <1>6, <2>1, <2>2, <2>3 DEF Upto
  <2>5. /\ RowStep /\ (\A i \in Ids : Survives(i))
        /\ rows'[m.id] = Mark(m, c)
    <3> HIDE DEF Mark
    <3> QED BY <1>0, <1>1, <1>5, <1>8, <2>2, <2>3, <2>4, RowWritten
  <2>6. /\ cand[c] \ {m} \in SUBSET AllCopies /\ room[c] - 1 \in 0..Batch
        /\ held[c] \cup {m.id} \in SUBSET Ids
    BY <1>0, <1>5, CopiesIn, SQSAssumption DEF TypeOK
  <2>7. /\ CallStep(c) /\ CopiesRead(c) /\ Shaped(c)'
        /\ pc'[c] \in {"each", "invoke", "idle"} /\ cand'[c] \in {{}, cand[c] \ {m}}
    <3> DEFINE left == cand[c] \ {m}
               n == room[c] - 1
               got == held[c] \cup {m.id}
    <3>1. /\ left \in SUBSET AllCopies /\ n \in 0..Batch /\ got \in SUBSET Ids
          /\ Proceed(c, left, n, got) /\ UNCHANGED <<send, queue>>
      BY <1>1, <1>8, <2>6
    <3> HIDE DEF left, n, got
    <3>2. /\ CallStep(c) /\ CopiesRead(c) /\ Shaped(c)'
          /\ pc'[c] \in {"each", "invoke", "idle"} /\ cand'[c] \in {{}, left}
      BY <1>0, <3>1, ProceedStep
    <3> QED BY <3>2 DEF left
  <2>8. ASSUME c \in Clients, NEW n \in cand'[c], NEW p \in prior[n.id],
               rows'[p] # None, handed'[p] = 0
        PROVE  [id |-> p, row |-> rows'[p]] \in cand'[c]
    <3>1. n \in cand[c] /\ cand'[c] = cand[c] \ {m} /\ p # m.id
      BY <2>4, <2>7, <2>8
    <3>2. p \in Ids
      BY <1>0, <3>1, CopiesIn, CopyTypes DEF TypeOK
    <3>3. rows'[p] = rows[p] /\ handed[p] = 0
      BY <1>0, <1>8, <2>3, <2>8, <3>1, <3>2 DEF Put, TypeOK
    <3>4. [id |-> p, row |-> rows[p]] \in cand[c]
      BY <1>0, <2>8, <3>1, <3>3 DEF CandidatesComplete, Copy
    <3> QED BY <3>1, <3>3, <3>4
  <2>9. pc'[c] \notin {"movePut", "moveDelete"}
    BY <2>7
  <2> QED BY <1>0, <1>1, <1>2, <1>3, <2>5, <2>7, <2>8, <2>9, CallerKeeps
<1>9. CASE GiveUp(c) /\ UNCHANGED <<rows, handed>>
  <2>1. RowStep /\ \A i \in Ids : Survives(i)
    BY <1>0, <1>1, <1>9, RowsRead
  <2>2. /\ CallStep(c) /\ CopiesRead(c) /\ Shaped(c)'
        /\ pc'[c] = "idle" /\ cand'[c] = {}
    BY <1>0, <1>1, <1>9, GiveUpStep
  <2> QED BY <1>0, <1>1, <1>2, <1>3, <2>1, <2>2, CallerKeeps
<1> QED BY <1>4, <1>7, <1>8, <1>9

\* How a caller goes on after a move, or after one that failed.
LEMMA MoveGoesOn ==
    ASSUME TypeOK, CallsShaped, NEW x \in Moving, AfterMove(x) \/ MoveError(x),
           UNCHANGED <<send, queue>>
    PROVE  /\ CallStep(x) /\ CopiesRead(x) /\ Shaped(x)'
           /\ pc'[x] # "moveDelete" /\ (x \in Consumers => pc'[x] # "movePut")
           /\ x \in Clients => cand'[x] \in {{}, cand[x]}
<1>0. x \in Callers /\ {} \in SUBSET AllCopies /\ cand[x] \in SUBSET AllCopies
  BY CopiesIn DEF Moving
<1>1. CASE x \in Consumers /\ Proceed(x, cand[x], room[x], held[x])
  <2>1. room[x] \in 0..Batch /\ held[x] \in SUBSET Ids
    BY <1>1 DEF TypeOK
  <2>2. /\ CallStep(x) /\ CopiesRead(x) /\ Shaped(x)'
        /\ pc'[x] \in {"each", "invoke", "idle"} /\ cand'[x] \in {{}, cand[x]}
    BY <1>0, <1>1, <2>1, ProceedStep
  <2> QED BY <2>2
<1>2. CASE x \in Clients /\ GiveUp(x)
  <2>1. x \in Consumers
    BY <1>2, Kinds
  <2>2. /\ CallStep(x) /\ CopiesRead(x) /\ Shaped(x)' /\ pc'[x] = "idle" /\ cand'[x] = {}
    BY <1>2, <2>1, GiveUpStep
  <2> QED BY <2>2
<1>3. CASE x = Mover /\ MoveNext(cand[x]) /\ UNCHANGED <<room, held>>
  <2>1. /\ CallStep(Mover) /\ CopiesRead(Mover) /\ Shaped(Mover)'
        /\ pc'[Mover] \in {"idle", "movePut"}
    BY <1>0, <1>3, MoveNextStep
  <2> QED BY <1>3, <2>1, Kinds
<1>4. CASE x = Mover /\ MoveNext({}) /\ UNCHANGED <<room, held>>
  <2>1. /\ CallStep(Mover) /\ CopiesRead(Mover) /\ Shaped(Mover)'
        /\ pc'[Mover] \in {"idle", "movePut"}
    BY <1>0, <1>4, MoveNextStep
  <2> QED BY <1>4, <2>1, Kinds
<1>5. CASE AfterMove(x)
  BY <1>0, <1>1, <1>3, <1>5, Kinds DEF AfterMove, Callers
<1>6. CASE MoveError(x)
  <2>1. CASE x \in Clients
    BY <1>2, <1>6, <2>1, Kinds DEF MoveError
  <2>2. CASE x \in Pollers
    BY <1>5, <1>6, <2>2, Kinds DEF MoveError
  <2>3. CASE x = Mover
    BY <1>4, <1>6, <2>3, Kinds DEF MoveError
  <2> QED BY <1>0, <2>1, <2>2, <2>3 DEF Callers, Consumers
<1> QED BY <1>5, <1>6

\* The new message of a move is stored: its id is above that of the old one.
LEMMA InvMovePut == ASSUME SQSInv, NEW x \in Callers, MovePut(x) PROVE SQSInv'
<1>0. /\ TypeOK /\ CallsShaped /\ CopiesAgree /\ CountsEarned
      /\ x \in Processes /\ x \notin Bodies
  BY Kinds DEF SQSInv, QueueInv
<1>1. /\ UNCHANGED <<queue, seqNum, dedup, send, handed, prior, acks, stored, done, sends, slips>>
      /\ pc[x] = "movePut" /\ x \in Moving
  BY DEF MovePut, Moving
<1>2. /\ stored' \subseteq Bodies /\ done' \subseteq Bodies
      /\ done \subseteq done' /\ \A b \in stored' : b \in stored
      /\ rare' \in 0..MaxRare /\ rare <= rare'
  <2>1. rare' = rare \/ (rare < MaxRare /\ rare' = rare + 1)
    BY DEF MovePut, Works, Fails, Rarely
  <2>2. rare' \in 0..MaxRare /\ rare <= rare'
    BY <1>0, <2>1, SQSAssumption DEF TypeOK
  <2> QED BY <1>0, <1>1, <2>2 DEF TypeOK
<1>3. cur[x] \in AllCopies /\ cur[x].id \in Ids /\ cur[x].id <= used /\ cur[x].row.body \in Bodies
  BY <1>0, <1>1, CopiesIn, CopyTypes DEF CopiesAgree, Rows
<1>4. CASE /\ PutNew(Fresh(Target(x), cur[x].row.body, None, 0, FALSE))
           /\ pc' = [pc EXCEPT ![x] = "moveDelete"]
           /\ UNCHANGED <<cand, cur, room, held>>
  <2> DEFINE r == Fresh(Target(x), cur[x].row.body, None, 0, FALSE)
  <2>1. /\ r \in Rows(maxReceive) /\ r.count = 0 /\ r.handle = None /\ (fifo => ~r.hidden)
        /\ r.body = cur[x].row.body
    <3>1. 0 \in 0..MaxSeq /\ 0 \in 0..maxReceive
      BY <1>0, Zeros DEF TypeOK
    <3>2. Target(x) \in {"src", "dlq"}
      BY DEF Target
    <3> HIDE DEF Target
    <3> QED BY <1>3, <3>1, <3>2 DEF Fresh, Rows
  <2>2. PutNew(r) /\ handed' = handed
    BY <1>1, <1>4
  <2> HIDE DEF r
  <2>3. /\ RowStep /\ \A i \in Ids : Survives(i)
        /\ used' = used + 1 /\ used' \in Ids /\ rows'[used'] = r /\ r # None
    BY <1>0, <2>1, <2>2, RowAdded
  <2>4. /\ pc' \in [Processes -> {"idle", "record", "put", "fetch", "each", "movePut",
                              "moveDelete", "delete", "change", "invoke"}]
        /\ pc'[x] = "moveDelete" /\ \A p \in Processes : p # x => pc'[p] = pc[p]
    BY <1>0, <1>4 DEF TypeOK
  <2>5. CallStep(x)
    BY <1>0, <1>1, <1>4, <2>4 DEF CallStep, TypeOK
  <2>6. CopiesRead(x)
    BY <1>3, <1>4, <2>4, CopiesIn DEF CopiesRead
  <2>7. Shaped(x)'
    <3>1. cur'[x] \in Entries' /\ (x \in Consumers => room'[x] > 0)
      BY <1>0, <1>1, <1>4 DEF Entries, queue, CallsShaped
    <3> QED BY <1>0, <2>4, <3>1 DEF Shaped
  <2>8. used' > cur'[x].id /\ rows'[used'].body = cur'[x].row.body /\ rows'[used'] # None
    BY <1>0, <1>3, <1>4, <2>1, <2>3, SQSAssumption DEF TypeOK, Ids
  <2>9. cand'[x] = cand[x] /\ cur'[x] = cur[x]
    BY <1>4
  <2> QED BY <1>0, <1>1, <1>2, <2>3, <2>4, <2>5, <2>6, <2>7, <2>8, <2>9, CallerKeeps
<1>5. CASE MoveError(x) /\ UNCHANGED <<rows, used>>
  <2>1. RowStep /\ \A i \in Ids : Survives(i)
    BY <1>0, <1>1, <1>5, RowsRead
  <2>2. /\ CallStep(x) /\ CopiesRead(x) /\ Shaped(x)'
        /\ pc'[x] # "moveDelete" /\ (x \in Consumers => pc'[x] # "movePut")
        /\ x \in Clients => cand'[x] \in {{}, cand[x]}
    BY <1>0, <1>1, <1>5, MoveGoesOn
  <2> QED BY <1>0, <1>1, <1>2, <2>1, <2>2, CallerKeeps
<1> QED BY <1>4, <1>5 DEF MovePut

\* The old message of a move is deleted, by its id, whoever has copied it too.
LEMMA InvMoveDelete == ASSUME SQSInv, NEW x \in Callers, MoveDelete(x) PROVE SQSInv'
<1>0. /\ TypeOK /\ CallsShaped /\ CopiesAgree /\ CountsEarned /\ PutFirst
      /\ x \in Processes /\ x \notin Bodies
  BY Kinds DEF SQSInv, QueueInv
<1>1. /\ UNCHANGED <<queue, seqNum, dedup, send, used, handed, prior, acks, stored, done, sends, slips>>
      /\ pc[x] = "moveDelete" /\ x \in Moving
  BY DEF MoveDelete, Moving, histVars
<1>2. /\ stored' \subseteq Bodies /\ done' \subseteq Bodies
      /\ done \subseteq done' /\ \A b \in stored' : b \in stored
      /\ rare' \in 0..MaxRare /\ rare <= rare'
  BY <1>0, <1>1, SQSAssumption DEF MoveDelete, Works, Fails, Rarely, TypeOK
<1>3. cur[x] \in AllCopies /\ cur[x].id \in Ids
  BY <1>0, <1>1, CopiesIn, CopyTypes
<1>4. /\ CallStep(x) /\ CopiesRead(x) /\ Shaped(x)'
      /\ pc'[x] # "moveDelete" /\ (x \in Consumers => pc'[x] # "movePut")
      /\ x \in Clients => cand'[x] \in {{}, cand[x]}
  <2>1. AfterMove(x) \/ MoveError(x)
    BY DEF MoveDelete
  <2> QED BY <1>0, <1>1, <2>1, MoveGoesOn
<1>5. RowStep /\ \A i \in Ids : Survives(i)
  <2>1. CASE UNCHANGED rows
    BY <1>0, <1>1, <2>1, RowsRead
  <2>2. CASE DeleteRow(cur[x].id)
    <3>1. rows' = [rows EXCEPT ![cur[x].id] = None]
      BY <2>2 DEF DeleteRow
    <3>2. /\ rows' \in [Ids -> Rows(maxReceive) \cup {None}]
          /\ \A i \in Ids : rows'[i] = IF i = cur[x].id THEN None ELSE rows[i]
      BY <1>0, <1>3, <3>1 DEF TypeOK
    <3>3. RowStep
      BY <1>0, <1>1, <3>2, RowsDropped
    <3>4. ASSUME NEW i \in Ids, rows[i] # None, rows'[i] = None
          PROVE  \/ rows[i].body \in done'
                 \/ \E j \in Ids : j > i /\ rows'[j] # None /\ rows'[j].body = rows[i].body
      <4>1. i = cur[x].id
        BY <3>2, <3>4
      <4>2. [id |-> i, row |-> rows[i]] \in AllCopies
        BY <3>4, CopiesIn
      <4>3. rows[i].body = cur[x].row.body
        BY <1>0, <1>3, <4>1, <4>2 DEF CopiesAgree, SameMessage
      <4>4. CASE cur[x].row.body \in done
        BY <1>1, <4>3, <4>4
      <4>5. CASE \E j \in Ids : j > i /\ rows[j] # None /\ rows[j].body = cur[x].row.body
        <5>1. PICK j \in Ids : j > i /\ rows[j] # None /\ rows[j].body = cur[x].row.body
          BY <4>5
        <5>2. j # i
          BY <5>1, SQSAssumption DEF Ids
        <5> QED BY <3>2, <4>1, <4>3, <5>1, <5>2
      <4> QED BY <1>0, <1>1, <4>1, <4>4, <4>5 DEF PutFirst
    <3> QED BY <3>3, <3>4 DEF Survives
  <2> QED BY <2>1, <2>2 DEF MoveDelete
<1> QED BY <1>0, <1>1, <1>2, <1>4, <1>5, CallerKeeps

\* A redrive begins.
LEMMA InvStartMove == ASSUME SQSInv, StartMove PROVE SQSInv'
<1>0. TypeOK /\ CallsShaped /\ CopiesAgree /\ CountsEarned
  BY DEF SQSInv, QueueInv
<1>1. /\ UNCHANGED <<queue, rows, seqNum, dedup, send, room, held, rare, used, handed, prior,
                     acks, stored, done, sends, slips>>
      /\ MoveNext(Copies("dlq"))
  BY DEF StartMove, histVars
<1>2. /\ stored' \subseteq Bodies /\ done' \subseteq Bodies
      /\ done \subseteq done' /\ \A b \in stored' : b \in stored
      /\ rare' \in 0..MaxRare /\ rare <= rare'
  BY <1>0, <1>1 DEF TypeOK
<1>3. RowStep /\ \A i \in Ids : Survives(i)
  BY <1>0, <1>1, RowsRead
<1>4. Copies("dlq") \in SUBSET AllCopies
  BY CopiesIn DEF Copies, Copy, In
<1>5. /\ CallStep(Mover) /\ CopiesRead(Mover) /\ Shaped(Mover)'
      /\ pc'[Mover] \in {"idle", "movePut"}
  BY <1>0, <1>1, <1>4, MoveNextStep
<1> QED BY <1>1, <1>2, <1>3, <1>5, Kinds, CallerKeeps

-----------------------------------------------------------------------------
(* What consumers do with what they hold. *)

\* A step that gives the call of c a place, a row and ids.
LEMMA OwnCall ==
    ASSUME TypeOK, NEW c \in Consumers, NEW v, NEW h \in SUBSET Ids,
           NEW l \in {"idle", "record", "put", "fetch", "each", "movePut",
                      "moveDelete", "delete", "change", "invoke"},
           pc' = [pc EXCEPT ![c] = l], cur' = [cur EXCEPT ![c] = v],
           held' = [held EXCEPT ![c] = h], UNCHANGED <<cand, room, send>>
    PROVE  CallStep(c) /\ pc'[c] = l /\ cur'[c] = v /\ held'[c] = h /\ cand'[c] = cand[c]
<1>1. c \in Callers /\ c \in Processes
  BY Kinds
<1>2. /\ pc' \in [Processes -> {"idle", "record", "put", "fetch", "each", "movePut",
                              "moveDelete", "delete", "change", "invoke"}]
      /\ pc'[c] = l /\ \A p \in Processes : p # c => pc'[p] = pc[p]
  BY <1>1 DEF TypeOK
<1>3. /\ cur' = [y \in Callers |-> cur'[y]] /\ cur'[c] = v
      /\ \A y \in Callers : y # c => cur'[y] = cur[y]
  BY <1>1 DEF TypeOK
<1>4. /\ held' \in [Consumers -> SUBSET Ids] /\ held'[c] = h
      /\ \A d \in Consumers : d # c => held'[d] = held[d]
  BY DEF TypeOK
<1> QED BY <1>2, <1>3, <1>4 DEF CallStep, TypeOK

\* What is not changed.
LEMMA OwnKept ==
    ASSUME TypeOK, NEW c \in Consumers
    PROVE  /\ pc = [pc EXCEPT ![c] = pc[c]] /\ cur = [cur EXCEPT ![c] = cur[c]]
           /\ held = [held EXCEPT ![c] = held[c]]
           /\ held[c] \in SUBSET Ids
           /\ pc[c] \in {"idle", "record", "put", "fetch", "each", "movePut",
                         "moveDelete", "delete", "change", "invoke"}
BY Kinds DEF TypeOK

\* A delete looks.
LEMMA InvDeleteGet == ASSUME SQSInv, NEW c \in Consumers, DeleteGet(c) PROVE SQSInv'
<1>0. /\ TypeOK /\ CallsShaped /\ CopiesAgree /\ CountsEarned /\ Shaped(c)
      /\ c \in Callers /\ c \in Processes /\ c # Mover /\ c \notin Bodies
  BY Kinds, ShapedAll DEF SQSInv, QueueInv
<1>1. /\ UNCHANGED <<queue, rows, seqNum, dedup, send, cand, room, rare, used, handed, prior,
                     acks, stored, done, sends, slips>>
      /\ pc[c] = "idle"
  BY DEF DeleteGet, histVars, Idle
<1>2. /\ stored' \subseteq Bodies /\ done' \subseteq Bodies
      /\ done \subseteq done' /\ \A b \in stored' : b \in stored
      /\ rare' \in 0..MaxRare /\ rare <= rare'
  BY <1>0, <1>1 DEF TypeOK
<1>3. RowStep /\ \A i \in Ids : Survives(i)
  BY <1>0, <1>1, RowsRead
<1>4. PICK i \in held[c] :
         /\ held' = [held EXCEPT ![c] = @ \ {i}]
         /\ \/ /\ rows[i] # None /\ pc' = [pc EXCEPT ![c] = "delete"]
               /\ cur' = [cur EXCEPT ![c] = [id |-> i, row |-> [body |-> rows[i].body]]]
            \/ UNCHANGED <<pc, cur>>
  BY DEF DeleteGet, Valid
<1>5. i \in Ids /\ held[c] \ {i} \in SUBSET Ids
  BY <1>0, <1>4 DEF TypeOK
<1>6. /\ CallStep(c) /\ CopiesRead(c) /\ Shaped(c)'
      /\ pc'[c] \in {"idle", "delete"} /\ cand'[c] = cand[c]
  <2> DEFINE h == held[c] \ {i}
             v == [id |-> i, row |-> [body |-> rows[i].body]]
  <2>0. held' = [held EXCEPT ![c] = h] /\ h \in SUBSET Ids
    BY <1>4, <1>5
  <2>1. CASE rows[i] # None /\ pc' = [pc EXCEPT ![c] = "delete"] /\ cur' = [cur EXCEPT ![c] = v]
    <3>0. v.id = i /\ v.row.body = rows[i].body
      OBVIOUS
    <3> HIDE DEF h, v
    <3>1. CallStep(c) /\ pc'[c] = "delete" /\ cur'[c] = v /\ cand'[c] = cand[c]
      BY <1>0, <1>1, <2>0, <2>1, OwnCall
    <3>2. [id |-> i, row |-> rows[i]] \in AllCopies /\ rows[i].body \in Bodies
      BY <1>0, <1>5, <2>1, CopiesIn DEF TypeOK, Rows
    <3>3. CopiesRead(c)
      BY <1>0, <3>0, <3>1, <3>2, CopiesIn DEF CopiesRead
    <3> QED BY <1>0, <1>5, <3>0, <3>1, <3>2, <3>3 DEF Shaped
  <2>2. CASE UNCHANGED <<pc, cur>>
    <3> HIDE DEF h
    <3>1. CallStep(c) /\ pc'[c] = "idle" /\ cand'[c] = cand[c]
      BY <1>0, <1>1, <2>0, <2>2, OwnCall, OwnKept
    <3> QED BY <1>0, <3>1, CopiesIn DEF CopiesRead, Shaped
  <2> QED BY <1>4, <2>1, <2>2
<1> QED BY <1>0, <1>1, <1>2, <1>3, <1>6, CallerKeeps

\* A delete deletes, by the id it looked up: the body is handled.
LEMMA InvDelete == ASSUME SQSInv, NEW c \in Consumers, Delete(c) PROVE SQSInv'
<1>0. /\ TypeOK /\ CallsShaped /\ CopiesAgree /\ CountsEarned
      /\ c \in Callers /\ c \in Processes /\ c # Mover /\ c \notin Bodies
  BY Kinds DEF SQSInv, QueueInv
<1>1. /\ UNCHANGED <<queue, seqNum, dedup, send, cand, room, held, used, handed, prior,
                     acks, stored, sends, slips>>
      /\ pc[c] = "delete" /\ pc' = [pc EXCEPT ![c] = "idle"] /\ cur' = [cur EXCEPT ![c] = None]
  BY DEF Delete
<1>2. cur[c].id \in Ids /\ cur[c].row.body \in Bodies
  BY <1>0, <1>1 DEF CallsShaped
<1>3. rare' \in 0..MaxRare /\ rare <= rare'
  <2>1. rare' = rare \/ (rare < MaxRare /\ rare' = rare + 1)
    BY DEF Delete, Works, Fails, Rarely
  <2> QED BY <1>0, <2>1, SQSAssumption DEF TypeOK
<1>4. /\ stored' \subseteq Bodies /\ done' \subseteq Bodies
      /\ done \subseteq done' /\ \A b \in stored' : b \in stored
  <2>1. done' \in {done, done \cup {cur[c].row.body}}
    BY DEF Delete
  <2> QED BY <1>0, <1>1, <1>2, <2>1 DEF TypeOK
<1>5. RowStep /\ \A i \in Ids : Survives(i)
  <2>1. CASE UNCHANGED rows
    BY <1>0, <1>1, <2>1, RowsRead
  <2>2. CASE rows' = [rows EXCEPT ![cur[c].id] = None] /\ done' = done \cup {cur[c].row.body}
    <3>1. /\ rows' \in [Ids -> Rows(maxReceive) \cup {None}]
          /\ \A i \in Ids : rows'[i] = IF i = cur[c].id THEN None ELSE rows[i]
      BY <1>0, <1>2, <2>2 DEF TypeOK
    <3>2. RowStep
      BY <1>0, <1>1, <3>1, RowsDropped
    <3>3. ASSUME NEW i \in Ids, rows[i] # None, rows'[i] = None PROVE rows[i].body \in done'
      <4>1. i = cur[c].id /\ [id |-> i, row |-> rows[i]] \in AllCopies
        BY <3>1, <3>3, CopiesIn
      <4>2. rows[i].body = cur[c].row.body
        BY <1>0, <1>1, <4>1 DEF CopiesAgree
      <4> QED BY <2>2, <4>2
    <3> QED BY <3>2, <3>3 DEF Survives
  <2> QED BY <2>1, <2>2 DEF Delete, DeleteRow
<1>6. /\ CallStep(c) /\ CopiesRead(c) /\ Shaped(c)'
      /\ pc'[c] = "idle" /\ cand'[c] = cand[c]
  <2>1. CallStep(c) /\ pc'[c] = "idle" /\ cand'[c] = cand[c]
    BY <1>0, <1>1, OwnCall, OwnKept
  <2> QED BY <1>0, <2>1, CopiesIn DEF CopiesRead, Shaped
<1> QED BY <1>0, <1>1, <1>3, <1>4, <1>5, <1>6, CallerKeeps

\* A change of a timeout looks, and keeps a copy.
LEMMA InvChangeGet == ASSUME SQSInv, NEW c \in Consumers, ChangeGet(c) PROVE SQSInv'
<1>0. /\ TypeOK /\ CallsShaped /\ CopiesAgree /\ CountsEarned
      /\ c \in Callers /\ c \in Processes /\ c # Mover /\ c \notin Bodies /\ c # None
  BY Kinds DEF SQSInv, QueueInv
<1>1. /\ UNCHANGED <<queue, rows, seqNum, dedup, send, cand, room, held, used, handed, prior,
                     acks, stored, done, sends, slips>>
  BY DEF ChangeGet, histVars
<1>2. /\ stored' \subseteq Bodies /\ done' \subseteq Bodies
      /\ done \subseteq done' /\ \A b \in stored' : b \in stored
  BY <1>0, <1>1 DEF TypeOK
<1>3. rare' \in 0..MaxRare /\ rare <= rare'
  BY <1>0, SQSAssumption DEF ChangeGet, Rarely, TypeOK
<1>4. RowStep /\ \A i \in Ids : Survives(i)
  BY <1>0, <1>1, RowsRead
<1>5. PICK i \in held[c] : /\ rows[i] # None /\ rows[i].handle = c
                           /\ pc' = [pc EXCEPT ![c] = "change"]
                           /\ cur' = [cur EXCEPT ![c] = [id |-> i, row |-> rows[i]]]
  BY DEF ChangeGet, Valid, Copy
<1>6. /\ CallStep(c) /\ CopiesRead(c) /\ Shaped(c)'
      /\ pc'[c] = "change" /\ cand'[c] = cand[c]
  <2> DEFINE v == [id |-> i, row |-> rows[i]]
  <2>1. v \in AllCopies /\ v.row.handle # None
    BY <1>0, <1>5, CopiesIn DEF TypeOK
  <2>2. cur' = [cur EXCEPT ![c] = v]
    BY <1>5
  <2> HIDE DEF v
  <2>3. v \in Entries /\ Entries' = Entries
    BY <1>0, <1>1, <2>1, CopyTypes DEF Entries, queue
  <2>4. CallStep(c) /\ pc'[c] = "change" /\ cur'[c] = v /\ cand'[c] = cand[c]
    <3>1. held' = [held EXCEPT ![c] = held[c]] /\ held[c] \in SUBSET Ids
      BY <1>0, <1>1, OwnKept
    <3>2. pc' = [pc EXCEPT ![c] = "change"] /\ UNCHANGED <<cand, room, send>>
      BY <1>1, <1>5
    <3> QED BY <1>0, <2>2, <3>1, <3>2, OwnCall
  <2> QED BY <1>0, <2>1, <2>3, <2>4, CopiesIn DEF CopiesRead, Shaped
<1> QED BY <1>0, <1>1, <1>2, <1>3, <1>4, <1>6, CallerKeeps

\* A hidden copy with a handle is still a row of its message.
LEMMA HiddenRow ==
    ASSUME NEW r \in Rows(maxReceive), NEW h \in BOOLEAN
    PROVE  /\ [r EXCEPT !.hidden = h] \in Rows(maxReceive)
           /\ SameMessage(r, [r EXCEPT !.hidden = h])
           /\ [r EXCEPT !.hidden = h].count = r.count
           /\ [r EXCEPT !.hidden = h].handle = r.handle
           /\ [r EXCEPT !.hidden = h].hidden = h
<1>1. r.hidden \in BOOLEAN /\ r = [q |-> r.q, body |-> r.body, group |-> r.group, seq |-> r.seq,
            handle |-> r.handle, count |-> r.count, hidden |-> r.hidden]
  BY DEF Rows
<1>2. [r EXCEPT !.hidden = h] =
           [q |-> r.q, body |-> r.body, group |-> r.group, seq |-> r.seq,
            handle |-> r.handle, count |-> r.count, hidden |-> h]
  BY <1>1 DEF Rows
<1> QED BY <1>1, <1>2 DEF Rows, SameMessage

\* A copy is written back, however old it is and even if its message is deleted.
LEMMA InvChangePut == ASSUME SQSInv, NEW c \in Consumers, ChangePut(c) PROVE SQSInv'
<1>0. /\ TypeOK /\ CallsShaped /\ CopiesAgree /\ CountsEarned
      /\ c \in Callers /\ c \in Processes /\ c # Mover /\ c \notin Bodies
  BY Kinds DEF SQSInv, QueueInv
<1>1. /\ UNCHANGED <<queue, seqNum, dedup, send, cand, room, held, rare, used, handed, prior,
                     acks, stored, done, sends, slips>>
      /\ pc[c] = "change" /\ pc' = [pc EXCEPT ![c] = "idle"] /\ cur' = [cur EXCEPT ![c] = None]
  BY DEF ChangePut, histVars
<1>2. /\ stored' \subseteq Bodies /\ done' \subseteq Bodies
      /\ done \subseteq done' /\ \A b \in stored' : b \in stored
      /\ rare' \in 0..MaxRare /\ rare <= rare'
  BY <1>0, <1>1 DEF TypeOK
<1>3. cur[c] \in AllCopies /\ cur[c].id \in Ids /\ cur[c].row \in Rows(maxReceive) /\ cur[c].row.handle # None
  BY <1>0, <1>1, CopiesIn, CopyTypes DEF CallsShaped
<1>4. RowStep /\ \A i \in Ids : Survives(i)
  <2> DEFINE r == [cur[c].row EXCEPT !.hidden = TRUE]
  <2>1. /\ r \in Rows(maxReceive) /\ SameMessage(cur[c].row, r)
        /\ r.count = cur[c].row.count /\ r.handle = cur[c].row.handle
    BY <1>3, HiddenRow
  <2>2. Put(cur[c].id, r)
    BY DEF ChangePut
  <2> HIDE DEF r
  <2>3. handed' \in [Ids -> 0..maxReceive] /\ handed' = handed
    BY <1>0, <1>1 DEF TypeOK
  <2>4. handed[cur[c].id] \in Int
    BY <1>0, <1>3 DEF TypeOK
  <2>5. r.count <= handed[cur[c].id] /\ handed[cur[c].id] > 0
    BY <1>0, <1>3, <2>1 DEF CountsEarned
  <2> QED BY <1>0, <1>1, <1>3, <2>1, <2>2, <2>3, <2>4, <2>5, RowWritten
<1>5. /\ CallStep(c) /\ CopiesRead(c) /\ Shaped(c)'
      /\ pc'[c] = "idle" /\ cand'[c] = cand[c]
  <2>1. CallStep(c) /\ pc'[c] = "idle" /\ cand'[c] = cand[c]
    BY <1>0, <1>1, OwnCall, OwnKept
  <2> QED BY <1>0, <2>1, CopiesIn DEF CopiesRead, Shaped
<1> QED BY <1>0, <1>1, <1>2, <1>4, <1>5, CallerKeeps

\* A function has run.
LEMMA InvInvoked == ASSUME SQSInv, NEW c \in Consumers, Invoked(c) PROVE SQSInv'
<1>0. /\ TypeOK /\ CallsShaped /\ CopiesAgree /\ CountsEarned
      /\ c \in Callers /\ c \in Processes /\ c # Mover /\ c \notin Bodies
  BY Kinds DEF SQSInv, QueueInv
<1>1. /\ UNCHANGED <<queue, seqNum, dedup, send, cand, cur, room, rare, used, handed, prior,
                     acks, stored, sends, slips>>
      /\ pc[c] = "invoke"
  BY DEF Invoked
<1>2. rare' \in 0..MaxRare /\ rare <= rare' /\ stored' \subseteq Bodies /\ \A b \in stored' : b \in stored
  BY <1>0, <1>1 DEF TypeOK
<1>3. RowStep /\ (\A i \in Ids : Survives(i)) /\ done' \subseteq Bodies /\ done \subseteq done'
  <2>1. CASE UNCHANGED <<rows, done>>
    BY <1>0, <1>1, <2>1, RowsRead DEF TypeOK
  <2>2. CASE \E i \in held[c] :
               /\ rows' = [rows EXCEPT ![i] = None]
               /\ done' = IF rows[i] = None THEN done ELSE done \cup {rows[i].body}
    <3>1. PICK i \in held[c] :
               /\ rows' = [rows EXCEPT ![i] = None]
               /\ done' = IF rows[i] = None THEN done ELSE done \cup {rows[i].body}
      BY <2>2
    <3>2. i \in Ids /\ (rows[i] # None => rows[i].body \in Bodies)
      BY <1>0, <3>1 DEF TypeOK, Rows
    <3>3. /\ rows' \in [Ids -> Rows(maxReceive) \cup {None}]
          /\ \A j \in Ids : rows'[j] = IF j = i THEN None ELSE rows[j]
      BY <1>0, <3>1, <3>2 DEF TypeOK
    <3>4. RowStep
      BY <1>0, <1>1, <3>3, RowsDropped
    <3>5. \A j \in Ids : Survives(j)
      BY <3>1, <3>3 DEF Survives
    <3>6. done' \subseteq Bodies /\ done \subseteq done'
      BY <1>0, <3>1, <3>2 DEF TypeOK
    <3> QED BY <3>4, <3>5, <3>6
  <2> QED BY <2>1, <2>2 DEF Invoked, DeleteRow
<1>4. PICK h \in SUBSET Ids : held' = [held EXCEPT ![c] = h]
  <2>1. \/ held' = [held EXCEPT ![c] = held[c]]
        \/ held' = [held EXCEPT ![c] = {}]
        \/ \E i \in held[c] : held' = [held EXCEPT ![c] = held[c] \ {i}]
    BY <1>0, OwnKept DEF Invoked
  <2>2. held[c] \in SUBSET Ids /\ {} \in SUBSET Ids /\ \A i : held[c] \ {i} \in SUBSET Ids
    BY <1>0 DEF TypeOK
  <2> QED BY <2>1, <2>2
<1>5. PICK l \in {"idle", "invoke"} : pc' = [pc EXCEPT ![c] = l]
  <2>1. pc' = [pc EXCEPT ![c] = "idle"] \/ pc' = [pc EXCEPT ![c] = "invoke"]
    BY <1>0, <1>1, OwnKept DEF Invoked
  <2> QED BY <2>1
<1>6. /\ CallStep(c) /\ CopiesRead(c) /\ Shaped(c)'
      /\ pc'[c] \in {"idle", "invoke"} /\ cand'[c] = cand[c]
  <2>1. CallStep(c) /\ pc'[c] = l /\ cand'[c] = cand[c]
    BY <1>0, <1>1, <1>4, <1>5, OwnCall, OwnKept
  <2> QED BY <1>0, <2>1, CopiesIn DEF CopiesRead, Shaped
<1> QED BY <1>0, <1>1, <1>2, <1>3, <1>6, CallerKeeps

-----------------------------------------------------------------------------
(* The steps of the queues themselves, which are no caller's. *)

\* A step that touches no call.
LEMMA NoCall ==
    ASSUME TypeOK, CallsShaped, UNCHANGED <<pc, send, cand, cur, room, held, queue>>
    PROVE  /\ Mover \in Callers /\ Mover \notin Consumers /\ Mover \notin Clients
           /\ CallStep(Mover) /\ CopiesRead(Mover) /\ Shaped(Mover)'
           /\ cand'[Mover] = cand[Mover]
<1>1. Mover \in Callers /\ Mover \in Processes /\ Mover \notin Consumers /\ Mover \notin Clients
  BY Kinds
<1>2. CallStep(Mover)
  BY DEF CallStep, TypeOK
<1>3. CopiesRead(Mover)
  <2>1. pc[Mover] \in {"idle", "movePut", "moveDelete"}
    BY DEF CallsShaped
  <2> QED BY <1>1, <2>1, CopiesIn DEF CopiesRead
<1>4. Shaped(Mover)'
  <2>1. Entries' = Entries
    BY DEF Entries, queue
  <2>2. Shaped(Mover)
    BY <1>1, ShapedAll
  <2> QED BY <2>1, <2>2 DEF Shaped
<1> QED BY <1>1, <1>2, <1>3, <1>4

\* A purge.
LEMMA InvPurgeQueue == ASSUME SQSInv, NEW q \in {"src", "dlq"}, PurgeQueue(q) PROVE SQSInv'
<1>0. /\ TypeOK /\ CallsShaped /\ CopiesAgree /\ CountsEarned
  BY DEF SQSInv, QueueInv
<1>1. /\ UNCHANGED <<queue, seqNum, dedup, pc, send, cand, cur, room, held, used, handed, prior,
                     acks, stored, sends, slips>>
  BY DEF PurgeQueue, callVars
<1>2. rare' \in 0..MaxRare /\ rare <= rare' /\ stored' \subseteq Bodies /\ \A b \in stored' : b \in stored
  BY <1>0, <1>1, SQSAssumption DEF PurgeQueue, Rarely, TypeOK
<1>3. \A i \in Ids : rows'[i] = IF i \in In(q) THEN None ELSE rows[i]
  BY DEF PurgeQueue
<1>4. rows' \in [Ids -> Rows(maxReceive) \cup {None}]
  BY <1>0 DEF PurgeQueue, TypeOK
<1>5. RowStep
  BY <1>0, <1>1, <1>3, <1>4, RowsDropped
<1>6. \A i \in In(q) : i \in Ids /\ rows[i].body \in Bodies /\ rows[i].body \in done'
  BY <1>0 DEF In, TypeOK, Rows, PurgeQueue
<1>7. \A i \in Ids : Survives(i)
  BY <1>3, <1>6 DEF Survives
<1>8. done' \subseteq Bodies /\ done \subseteq done'
  BY <1>0, <1>6 DEF PurgeQueue, TypeOK
<1> QED BY <1>0, <1>1, <1>2, <1>5, <1>7, <1>8, NoCall, CallerKeeps

\* A visibility timeout or a delay ends.  In a group of a FIFO queue only a message
\* that was handed out is hidden.
LEMMA InvExpires == ASSUME SQSInv, NEW i \in Ids, Expires(i) PROVE SQSInv'
<1>0. /\ TypeOK /\ CallsShaped /\ CopiesAgree /\ CountsEarned
  BY DEF SQSInv, QueueInv
<1>1. /\ UNCHANGED <<queue, seqNum, dedup, pc, send, cand, cur, room, held, rare, used, handed,
                     prior, acks, stored, done, sends, slips>>
  BY DEF Expires, callVars, histVars
<1>2. /\ rare' \in 0..MaxRare /\ rare <= rare' /\ stored' \subseteq Bodies
      /\ done' \subseteq Bodies /\ done \subseteq done' /\ \A b \in stored' : b \in stored
  BY <1>0, <1>1 DEF TypeOK
<1>3. RowStep /\ \A j \in Ids : Survives(j)
  <2> DEFINE n == [id |-> i, row |-> rows[i]]
             r == [rows[i] EXCEPT !.hidden = FALSE]
  <2>1. n \in AllCopies /\ n.id = i /\ n.row = rows[i] /\ rows[i] \in Rows(maxReceive)
    BY <1>0, CopiesIn DEF Expires, TypeOK
  <2>2. /\ r \in Rows(maxReceive) /\ SameMessage(n.row, r)
        /\ r.count = n.row.count /\ r.handle = n.row.handle /\ r.hidden = FALSE
    BY <2>1, HiddenRow
  <2>3. Put(n.id, r) /\ rows[i].hidden
    BY <2>1 DEF Expires
  <2> HIDE DEF n, r
  <2>4. /\ n.row.count <= handed[n.id] /\ (n.row.handle # None => handed[n.id] > 0)
        /\ (fifo /\ n.row.group # None /\ handed[n.id] = 0 => ~n.row.hidden)
    BY <1>0, <2>1 DEF CountsEarned
  <2>5. handed' = handed /\ handed' \in [Ids -> 0..maxReceive] /\ handed[n.id] \in Int
    BY <1>0, <1>1, <2>1 DEF TypeOK
  <2>6. r.group = n.row.group
    BY <2>2 DEF SameMessage
  <2> QED BY <1>0, <1>1, <2>1, <2>2, <2>3, <2>4, <2>5, <2>6, RowWritten
<1> QED BY <1>0, <1>1, <1>2, <1>3, NoCall, CallerKeeps

\* A message without a group, a number and a deduplication id is stored.
LEMMA InvSendRaw == ASSUME SQSInv, NEW b \in Bodies, SendRaw(b) PROVE SQSInv'
<1>0. /\ TypeOK /\ CallsShaped /\ CopiesAgree /\ CountsEarned
  BY DEF SQSInv, QueueInv
<1>1. /\ UNCHANGED <<queue, seqNum, dedup, pc, send, cand, cur, room, held, handed,
                     prior, acks, done, sends, slips>>
      /\ stored' = stored \cup {b}
  BY DEF SendRaw, callVars
<1>2. /\ rare' \in 0..MaxRare /\ rare <= rare' /\ stored' \subseteq Bodies
      /\ done' \subseteq Bodies /\ done \subseteq done'
  BY <1>0, <1>1, SQSAssumption DEF SendRaw, Rarely, TypeOK
<1>9. PICK hidden \in BOOLEAN : PutNew(Fresh("src", b, None, 0, hidden))
  BY DEF SendRaw
<1> DEFINE r == Fresh("src", b, None, 0, hidden)
<1>3. r \in Rows(maxReceive) /\ r.count = 0 /\ r.handle = None /\ r.group = None /\ r.body = b
  BY <1>0, Zeros DEF Fresh, Rows, TypeOK
<1>4. PutNew(r)
  BY <1>9
<1> HIDE DEF r
<1>5. /\ RowStep /\ \A i \in Ids : Survives(i)
      /\ used' \in Ids /\ rows'[used'] = r /\ r # None
  BY <1>0, <1>1, <1>3, <1>4, RowAdded
<1>6. \A e \in stored' : e \in stored \/ Present(e)'
  BY <1>1, <1>3, <1>5 DEF Present
<1> QED BY <1>0, <1>1, <1>2, <1>5, <1>6, NoCall, CallerKeeps

-----------------------------------------------------------------------------
(* Senders. *)

\* A step of a sender, or of the deduplication window, keeps the invariant if it
\* keeps what is about numbers and deduplication ids.
LEMMA SenderKeeps ==
    ASSUME SQSInv, RowStep, NEW x \in Bodies \cup {Mover}, CallStep(x), CopiesRead(x), Shaped(x)',
           UNCHANGED <<queue, cand, cur, done>>, pc'[Mover] = pc[Mover],
           DedupSound', SeqsGrow',
           seqNum' \in 0..MaxSeq, dedup' \subseteq Bodies, rare' \in 0..MaxRare,
           prior' \in [Ids -> SUBSET Ids], acks' \subseteq Ids, stored' \subseteq Bodies,
           sends' \in [Bodies -> Nat], slips' \in [Bodies -> Nat],
           \A i \in Ids : Survives(i), \A b \in stored' : b \in stored \/ Present(b)',
           \A i \in Ids : i <= used => prior'[i] = prior[i]
    PROVE  SQSInv'
<1>0. /\ TypeOK /\ CallsShaped /\ DedupSound /\ CopiesAgree /\ CountsEarned /\ PutFirst
      /\ SeqsGrow /\ CandidatesComplete /\ NoMessageLost /\ DeadLetterEarned
      /\ x \in Processes /\ x \notin Consumers /\ x \notin Clients
  BY Kinds DEF SQSInv, QueueInv
<1>1. TypeOK'
  BY <1>0, TypesKept DEF TypeOK
<1>2. CallsShaped'
  BY <1>0, ShapeKept
<1>3. CopiesAgree' /\ CountsEarned'
  BY <1>0, AgreeKept, CountsKept
<1>4. PutFirst' /\ NoMessageLost'
  <2>1. x \in Callers => x = Mover
    BY Kinds
  <2> QED BY <1>0, <1>1, <2>1, BodiesKept
<1>5. DeadLetterEarned'
  BY <1>0, EarnedKept
<1>6. CandidatesComplete'
  BY <1>0, CandidatesKept
<1> QED BY <1>1, <1>2, <1>3, <1>4, <1>5, <1>6 DEF SQSInv, QueueInv

\* A step of a sender's own call.
LEMMA SenderCall ==
    ASSUME TypeOK, CallsShaped, NEW b \in Bodies, NEW l \in {"idle", "record", "put"},
           NEW s \in [group : Groups \cup {None}, seq : 0..MaxSeq, prior : SUBSET Ids],
           pc' = [pc EXCEPT ![b] = l], send' = [send EXCEPT ![b] = s],
           UNCHANGED <<cand, cur, room, held>>
    PROVE  /\ CallStep(b) /\ CopiesRead(b) /\ Shaped(b)'
           /\ pc'[b] = l /\ send'[b] = s /\ pc'[Mover] = pc[Mover]
           /\ \A d \in Bodies : d # b => pc'[d] = pc[d] /\ send'[d] = send[d]
<1>1. b \in Processes /\ b \notin Callers /\ b \notin Consumers /\ b # Mover /\ Mover \in Processes
  BY Kinds
<1>2. /\ pc' \in [Processes -> {"idle", "record", "put", "fetch", "each", "movePut",
                              "moveDelete", "delete", "change", "invoke"}]
      /\ pc'[b] = l /\ \A p \in Processes : p # b => pc'[p] = pc[p]
  BY <1>1 DEF TypeOK
<1>3. /\ send' \in [Bodies -> [group : Groups \cup {None}, seq : 0..MaxSeq, prior : SUBSET Ids]]
      /\ send'[b] = s /\ \A d \in Bodies : d # b => send'[d] = send[d]
  BY DEF TypeOK
<1>4. CallStep(b)
  BY <1>2, <1>3 DEF CallStep, TypeOK
<1>5. CopiesRead(b) /\ Shaped(b)'
  BY <1>1, <1>2 DEF CopiesRead, Shaped
<1>6. \A d \in Bodies : d # b => pc'[d] = pc[d] /\ send'[d] = send[d]
  BY <1>2, <1>3, Kinds
<1> QED BY <1>1, <1>2, <1>3, <1>4, <1>5, <1>6

\* A deduplication window ends: a number more may be given out.
LEMMA InvDedupExpires == ASSUME SQSInv, NEW b \in Bodies, DedupExpires(b) PROVE SQSInv'
<1>0. /\ TypeOK /\ CallsShaped /\ CopiesAgree /\ CountsEarned /\ DedupSound /\ SeqsGrow
      /\ Mover \in Processes
  BY Kinds DEF SQSInv, QueueInv
<1>1. /\ UNCHANGED <<queue, rows, seqNum, pc, send, cand, cur, room, held, used, handed,
                     prior, acks, stored, done>>
      /\ b \in dedup /\ pc[b] = "idle" /\ dedup' = dedup \ {b}
      /\ sends' = [sends EXCEPT ![b] = 0] /\ slips' = [slips EXCEPT ![b] = 0]
      /\ rare' = rare + 1 /\ rare' \in 0..MaxRare
  BY <1>0, SQSAssumption DEF DedupExpires, callVars, Rarely, TypeOK
<1>2. RowStep /\ \A i \in Ids : Survives(i)
  BY <1>0, <1>1, RowsRead
<1>3. CallStep(Mover) /\ CopiesRead(Mover) /\ Shaped(Mover)'
  BY <1>0, <1>1, NoCall
<1>4. SeqsGrow'
  <2>1. seqNum' \in 0..MaxSeq /\ seqNum <= seqNum'
    BY <1>0, <1>1 DEF TypeOK
  <2>2. \A d \in Bodies : send'[d].prior \subseteq acks /\ send'[d].seq <= seqNum'
    BY <1>0, <1>1 DEF SeqsGrow
  <2>3. \A d \in Bodies : pc'[d] # "idle" /\ fifo => send'[d].group # None
    BY <1>0, <1>1 DEF SeqsGrow
  <2> QED BY <1>0, <1>1, <1>2, <1>3, <2>1, <2>2, <2>3, SeqsKept
<1>5. DedupSound'
  <2>1. /\ IsFiniteSet(dedup) /\ Cardinality(dedup) \in Nat
        /\ Cardinality(Overlooked) \in Nat
    BY <1>0, OverlookedCount
  <2>2. Cardinality(dedup') = Cardinality(dedup) - 1
    BY <1>1, <2>1, FS_RemoveElement
  <2>3. Overlooked' = Overlooked
    BY <1>1 DEF Overlooked
  <2>4. seqNum' + Cardinality(Overlooked') <= Cardinality(dedup') + rare'
    BY <1>0, <1>1, <2>1, <2>2, <2>3 DEF DedupSound, TypeOK
  <2>5. /\ sends'[b] = 0 /\ slips'[b] = 0
        /\ \A d \in Bodies : d # b => sends'[d] = sends[d] /\ slips'[d] = slips[d]
    BY <1>0, <1>1 DEF TypeOK
  <2> QED BY <1>0, <1>1, <2>4, <2>5 DEF DedupSound, queue
<1>6. /\ sends' \in [Bodies -> Nat] /\ slips' \in [Bodies -> Nat]
      /\ dedup' \subseteq Bodies
  BY <1>0, <1>1 DEF TypeOK
<1> QED BY <1>0, <1>1, <1>2, <1>3, <1>4, <1>5, <1>6, SenderKeeps DEF TypeOK

\* A send begins, or is answered as a duplicate.
LEMMA InvSendMessage == ASSUME SQSInv, NEW b \in Bodies, SendMessage(b) PROVE SQSInv'
<1>0. /\ TypeOK /\ CallsShaped /\ CopiesAgree /\ CountsEarned /\ DedupSound /\ SeqsGrow
      /\ b \in Processes
  BY Kinds DEF SQSInv, QueueInv
<1>1. /\ UNCHANGED <<queue, rows, seqNum, dedup, cand, cur, room, held, used, handed,
                     prior, acks, stored, done, sends>>
      /\ pc[b] = "idle"
  BY DEF SendMessage, Idle
<1>2. RowStep /\ \A i \in Ids : Survives(i)
  BY <1>0, <1>1, RowsRead
<1>3. PICK l \in {"idle", "record", "put"},
           s \in [group : Groups \cup {None}, seq : 0..MaxSeq, prior : SUBSET Ids] :
         /\ pc' = [pc EXCEPT ![b] = l] /\ send' = [send EXCEPT ![b] = s]
         /\ s.prior \subseteq acks /\ s.seq <= seqNum
         /\ l = "record" => fifo /\ s.group # None /\ (IF b \in dedup THEN Slip(b) ELSE NoSlip)
         /\ l = "put" => ~fifo
         /\ l # "record" => NoSlip
  <2>0. /\ send[b] \in [group : Groups \cup {None}, seq : 0..MaxSeq, prior : SUBSET Ids]
        /\ send[b].prior \subseteq acks /\ send[b].seq <= seqNum
        /\ pc = [pc EXCEPT ![b] = "idle"] /\ send = [send EXCEPT ![b] = send[b]]
    BY <1>0, <1>1 DEF TypeOK, SeqsGrow
  <2>1. CASE fifo /\ b \in dedup /\ NoSlip /\ UNCHANGED <<pc, send>>
    BY <2>0, <2>1
  <2>2. CASE /\ fifo /\ IF b \in dedup THEN Slip(b) ELSE NoSlip
             /\ \E g \in Groups :
                  send' = [send EXCEPT ![b] = [group |-> g, seq |-> 0, prior |-> acks]]
             /\ pc' = [pc EXCEPT ![b] = "record"]
    <3>1. PICK g \in Groups : send' = [send EXCEPT ![b] = [group |-> g, seq |-> 0, prior |-> acks]]
      BY <2>2
    <3> DEFINE t == [group |-> g, seq |-> 0, prior |-> acks]
    <3>2. /\ t \in [group : Groups \cup {None}, seq : 0..MaxSeq, prior : SUBSET Ids]
          /\ t.prior \subseteq acks /\ t.seq <= seqNum /\ t.group # None
      BY <1>0, Zeros, SQSAssumption DEF TypeOK
    <3> QED BY <2>2, <3>1, <3>2
  <2>3. CASE ~fifo /\ pc' = [pc EXCEPT ![b] = "put"] /\ NoSlip /\ UNCHANGED send
    BY <2>0, <2>3
  <2> QED BY <2>1, <2>2, <2>3 DEF SendMessage
<1>4. /\ CallStep(b) /\ CopiesRead(b) /\ Shaped(b)'
      /\ pc'[b] = l /\ send'[b] = s /\ pc'[Mover] = pc[Mover]
      /\ \A d \in Bodies : d # b => pc'[d] = pc[d] /\ send'[d] = send[d]
  BY <1>0, <1>1, <1>3, SenderCall
<1>5. SeqsGrow'
  <2>1. seqNum' \in 0..MaxSeq /\ seqNum <= seqNum'
    BY <1>0, <1>1 DEF TypeOK
  <2>2. \A d \in Bodies : send'[d].prior \subseteq acks /\ send'[d].seq <= seqNum'
    BY <1>0, <1>1, <1>3, <1>4 DEF SeqsGrow
  <2>3. pc'[b] = "put" => send'[b].prior = {}
    BY <1>0, <1>3, <1>4 DEF SeqsGrow
  <2>4. \A d \in Bodies : pc'[d] # "idle" /\ fifo => send'[d].group # None
    BY <1>0, <1>3, <1>4 DEF SeqsGrow
  <2> QED BY <1>0, <1>1, <1>2, <1>4, <2>1, <2>2, <2>3, <2>4, SeqsKept
<1>6. DedupSound' /\ rare' \in 0..MaxRare /\ slips' \in [Bodies -> Nat]
  <2>1. CASE l = "record" /\ b \in dedup
    <3>1. /\ rare' = rare + 1 /\ rare' \in 0..MaxRare /\ slips' \in [Bodies -> Nat]
          /\ slips'[b] = slips[b] + 1 /\ \A d \in Bodies : d # b => slips'[d] = slips[d]
      BY <1>0, <1>3, <2>1, SQSAssumption DEF Slip, Fails, Rarely, TypeOK
    <3>2. Overlooked' = Overlooked \cup {b} /\ b \notin Overlooked
      BY <1>0, <1>1, <1>4, <2>1 DEF Overlooked, TypeOK
    <3>3. Cardinality(Overlooked') = Cardinality(Overlooked) + 1
      BY <1>0, <3>2, OverlookedCount, FS_AddElement
    <3>4. seqNum' + Cardinality(Overlooked') <= Cardinality(dedup') + rare'
      BY <1>0, <1>1, <3>1, <3>3, OverlookedCount DEF DedupSound, TypeOK
    <3>5. fifo /\ sends[b] <= slips[b] + 1 /\ sends[b] \in Nat /\ slips[b] \in Nat
      BY <1>0, <1>3, <2>1 DEF DedupSound, TypeOK
    <3> QED BY <1>0, <1>1, <1>4, <2>1, <3>1, <3>4, <3>5 DEF DedupSound, queue
  <2>2. CASE ~(l = "record" /\ b \in dedup)
    <3>1. UNCHANGED <<rare, slips>>
      BY <1>3, <2>2 DEF NoSlip, Works
    <3>2. Overlooked' = Overlooked
      BY <1>0, <1>1, <1>4, <2>2 DEF Overlooked, TypeOK
    <3>3. l = "record" => fifo /\ sends[b] <= slips[b]
      BY <1>0, <1>3, <2>2 DEF DedupSound, TypeOK
    <3> QED BY <1>0, <1>1, <1>3, <1>4, <3>1, <3>2, <3>3 DEF DedupSound, queue, TypeOK
  <2> QED BY <2>1, <2>2
<1> QED BY <1>0, <1>1, <1>2, <1>4, <1>5, <1>6, SenderKeeps DEF TypeOK

\* The deduplication id is recorded and the next number taken.
LEMMA InvRecord == ASSUME SQSInv, NEW b \in Bodies, Record(b) PROVE SQSInv'
<1>0. /\ TypeOK /\ CallsShaped /\ CopiesAgree /\ CountsEarned /\ DedupSound /\ SeqsGrow
      /\ b \in Processes
  BY Kinds DEF SQSInv, QueueInv
<1>1. /\ UNCHANGED <<queue, rows, cand, cur, room, held, used, handed,
                     prior, acks, stored, done, sends>>
      /\ pc[b] = "record" /\ pc' = [pc EXCEPT ![b] = "put"]
      /\ seqNum' = seqNum + 1
      /\ send' = [send EXCEPT ![b].seq = seqNum']
      /\ \/ dedup' = dedup \cup {b} /\ NoSlip
         \/ dedup' = dedup /\ Slip(b)
  BY DEF Record, RecordDedup, NextSeq
<1>2. RowStep /\ \A i \in Ids : Survives(i)
  BY <1>0, <1>1, RowsRead
<1>3. /\ fifo /\ sends[b] <= slips[b] /\ sends[b] \in Nat /\ slips[b] \in Nat
      /\ dedup' \subseteq Bodies /\ Overlooked' = Overlooked \ {b}
  BY <1>0, <1>1 DEF DedupSound, TypeOK, Overlooked
<1>4. /\ rare' \in 0..MaxRare /\ slips' \in [Bodies -> Nat]
      /\ \A d \in Bodies : d # b => slips'[d] = slips[d]
      /\ sends[b] < slips'[b] + (IF b \in dedup' THEN 1 ELSE 0)
  <2>1. CASE dedup' = dedup \cup {b} /\ NoSlip
    BY <1>0, <1>3, <2>1 DEF NoSlip, Works, TypeOK
  <2>2. CASE dedup' = dedup /\ Slip(b)
    BY <1>0, <1>3, <2>2, SQSAssumption DEF Slip, Fails, Rarely, TypeOK
  <2> QED BY <1>1, <2>1, <2>2
<1>5. /\ seqNum' + Cardinality(Overlooked') <= Cardinality(dedup') + rare'
      /\ Cardinality(dedup') \in Nat /\ Cardinality(Overlooked') \in Nat
  <2>1. /\ Cardinality(dedup) \in Nat /\ IsFiniteSet(dedup)
        /\ Cardinality(Overlooked) \in Nat /\ IsFiniteSet(Overlooked)
        /\ seqNum + Cardinality(Overlooked) <= Cardinality(dedup) + rare
        /\ seqNum \in Nat /\ rare \in Nat /\ rare' \in Nat
    BY <1>0, <1>4, OverlookedCount, SQSAssumption, Zeros DEF TypeOK, DedupSound
  <2>2. CASE b \in dedup
    <3>1. Cardinality(Overlooked') = Cardinality(Overlooked) - 1
      <4>1. b \in Overlooked
        BY <1>1, <2>2 DEF Overlooked
      <4> QED BY <1>3, <2>1, <4>1, FS_RemoveElement
    <3>2. dedup' = dedup /\ rare <= rare'
      BY <1>1, <2>1, <2>2 DEF NoSlip, Works, Slip, Fails, Rarely
    <3>3. Cardinality(Overlooked') \in Nat
      <4>1. IsFiniteSet(Overlooked')
        BY <1>3, <2>1, FS_Subset
      <4> QED BY <4>1, FS_CardinalityType
    <3> QED BY <1>1, <2>1, <3>1, <3>2, <3>3
  <2>3. CASE b \notin dedup
    <3>1. Overlooked' = Overlooked
      BY <1>3, <2>3 DEF Overlooked
    <3>2. CASE dedup' = dedup \cup {b} /\ NoSlip
      <4>1. Cardinality(dedup') = Cardinality(dedup) + 1
        BY <2>1, <2>3, <3>2, FS_AddElement
      <4> QED BY <1>1, <2>1, <3>1, <3>2, <4>1 DEF NoSlip, Works
    <3>3. CASE dedup' = dedup /\ Slip(b)
      BY <1>1, <2>1, <3>1, <3>3 DEF Slip, Fails, Rarely
    <3> QED BY <1>1, <3>2, <3>3
  <2> QED BY <2>2, <2>3
<1>6. seqNum' \in 0..MaxSeq /\ seqNum <= seqNum'
  <2>1. Cardinality(dedup') <= Cardinality(Bodies) /\ Cardinality(Bodies) \in Nat
    BY <1>3, KindsAssumption, FS_Subset, FS_CardinalityType
  <2>2. seqNum \in Nat /\ rare' \in Nat /\ rare' <= MaxRare
    BY <1>0, <1>4, SQSAssumption, Zeros DEF TypeOK
  <2> QED BY <1>1, <1>5, <2>1, <2>2, SQSAssumption DEF MaxSeq
<1> DEFINE s == [send[b] EXCEPT !.seq = seqNum']
<1>7. /\ s \in [group : Groups \cup {None}, seq : 0..MaxSeq, prior : SUBSET Ids]
      /\ s.seq = seqNum' /\ s.prior = send[b].prior /\ s.group = send[b].group
      /\ send' = [send EXCEPT ![b] = s]
  BY <1>0, <1>1, <1>6 DEF TypeOK
<1> HIDE DEF s
<1>8. /\ CallStep(b) /\ CopiesRead(b) /\ Shaped(b)'
      /\ pc'[b] = "put" /\ send'[b] = s /\ pc'[Mover] = pc[Mover]
      /\ \A d \in Bodies : d # b => pc'[d] = pc[d] /\ send'[d] = send[d]
  BY <1>0, <1>1, <1>7, SenderCall
<1>9. SeqsGrow'
  <2>0. seqNum \in Int /\ seqNum' \in Int /\ \A d \in Bodies : send[d].seq \in Int
    BY <1>0, <1>6 DEF TypeOK
  <2>1. \A d \in Bodies : send'[d].prior \subseteq acks /\ send'[d].seq <= seqNum'
    BY <1>0, <1>6, <1>7, <1>8, <2>0 DEF SeqsGrow
  <2>2. send'[b].seq > seqNum
    BY <1>1, <1>7, <1>8, <2>0
  <2>3. \A d \in Bodies : pc'[d] # "idle" /\ fifo => send'[d].group # None
    BY <1>0, <1>1, <1>7, <1>8 DEF SeqsGrow
  <2> QED BY <1>0, <1>1, <1>2, <1>6, <1>8, <2>1, <2>2, <2>3, SeqsKept
<1>10. DedupSound'
  <2>1. \A d \in Bodies : d # b => (d \in dedup' <=> d \in dedup)
    BY <1>1
  <2>2. sends'[b] <= slips'[b] + (IF b \in dedup' THEN 1 ELSE 0)
    <3>1. sends'[b] = sends[b]
      BY <1>1
    <3>2. sends[b] \in Int /\ slips'[b] \in Int
      BY <1>3, <1>4
    <3> QED BY <1>4, <3>1, <3>2
  <2> QED BY <1>0, <1>1, <1>3, <1>4, <1>5, <1>8, <2>1, <2>2 DEF DedupSound, queue
<1> QED BY <1>0, <1>1, <1>2, <1>3, <1>4, <1>6, <1>8, <1>9, <1>10, SenderKeeps DEF TypeOK

\* A message is stored and acknowledged: its number is above those of its group
\* that were acknowledged before it was sent.
LEMMA SeqsStored ==
    ASSUME TypeOK, CallsShaped, CopiesAgree, SeqsGrow, RowStep, NEW b \in Bodies,
           CallStep(b), CopiesRead(b), UNCHANGED <<queue, seqNum>>,
           pc[b] = "put", pc'[b] = "idle", send'[b] = NoSend,
           \A d \in Bodies : d # b => pc'[d] = pc[d] /\ send'[d] = send[d],
           used' = used + 1, used' \in Ids,
           rows'[used'] = Fresh("src", b, send[b].group, send[b].seq, ~fifo),
           prior' = [prior EXCEPT ![used'] =
              {i \in send[b].prior : rows[i] # None /\ rows[i].group = send[b].group}],
           acks' = IF fifo THEN acks \cup {used'} ELSE acks
    PROVE  SeqsGrow'
<1> DEFINE Old(m) == \E n \in AllCopies : n.id = m.id /\ SameMessage(n.row, m.row)
           New(m) == m.id = used' /\ m.row = rows'[m.id]
<1>0. /\ used \in Nat /\ used' \in Nat /\ used < used' /\ used <= used' /\ fifo' = fifo
      /\ seqNum \in Int /\ seqNum' = seqNum
      /\ \A i \in Ids : i \in Nat
      /\ acks \subseteq Ids /\ send[b].prior \subseteq acks /\ b \in Processes
  <2>1. \A i \in Ids : i \in Nat
    BY DEF Ids
  <2>2. used \in Nat /\ used' \in Nat /\ used < used' /\ used <= used'
    <3>1. used \in Nat
      BY SQSAssumption DEF TypeOK
    <3> QED BY <3>1
  <2>3. seqNum \in Int /\ seqNum' = seqNum /\ fifo' = fifo
    BY DEF TypeOK, queue
  <2>4. acks \subseteq Ids /\ send[b].prior \subseteq acks
    BY DEF TypeOK, SeqsGrow
  <2>5. b \in Processes
    BY Kinds
  <2> QED BY <2>1, <2>2, <2>3, <2>4, <2>5
<1>1. /\ prior'[used'] = {i \in send[b].prior : rows[i] # None /\ rows[i].group = send[b].group}
      /\ \A i \in Ids : i # used' => prior'[i] = prior[i]
  BY DEF TypeOK
<1>2. \A m \in AllCopies' : Old(m) \/ New(m)
  BY <1>0, Stems
<1>3. \A n \in AllCopies : n.id \in Ids /\ n.id <= used /\ n.row.seq \in Int
  <2>1. \A r \in Rows(maxReceive) : r.seq \in Int
    BY DEF Rows
  <2> QED BY <2>1, CopyTypes DEF CopiesAgree
<1>4. /\ rows'[used'].q = "src" /\ rows'[used'].seq = send[b].seq
      /\ rows'[used'].group = send[b].group
  BY DEF Fresh
<1>5. \A i \in acks : i \in Nat /\ i <= used /\ i # used'
  <2>1. \A i \in acks : i <= used
    BY DEF SeqsGrow
  <2>2. \A i \in Nat : i <= used => i # used'
    BY <1>0
  <2> QED BY <1>0, <2>1, <2>2
<1>6. acks \subseteq acks' /\ \A i \in acks' : i \in acks \/ i = used'
  BY <1>0
<1>14. \A d \in Bodies : pc'[d] # "idle" /\ fifo' => send'[d].group # None
  BY <1>0 DEF SeqsGrow
<1>7. ~fifo' => acks' = {} /\ \A i \in Ids : prior'[i] = {}
  <2>1. ~fifo => acks = {} /\ acks' = {} /\ \A i \in Ids : prior[i] = {}
    BY DEF SeqsGrow
  <2> QED BY <1>0, <1>1, <2>1
<1>8. \A i \in acks' : i <= used'
  BY <1>0, <1>5, <1>6
<1>9. ASSUME NEW i \in Ids, NEW p \in prior'[i] PROVE p <= used' /\ i <= used'
  <2>1. CASE i = used'
    <3>1. p \in acks
      BY <1>0, <1>1, <1>9, <2>1
    <3>2. p \in Nat /\ p <= used
      BY <1>5, <3>1
    <3> QED BY <1>0, <2>1, <3>2
  <2>2. CASE i # used'
    <3>1. p \in prior[i] /\ p \in Ids
      BY <1>1, <1>9, <2>2 DEF TypeOK
    <3>2. p <= used /\ i <= used
      BY <3>1 DEF SeqsGrow
    <3>3. p \in Nat /\ i \in Nat
      BY <1>0, <3>1
    <3> QED BY <1>0, <3>2, <3>3
  <2> QED BY <2>1, <2>2
<1>10. \A d \in Bodies : send'[d].prior \subseteq acks' /\ send'[d].seq <= seqNum'
  <2>1. NoSend.prior = {} /\ NoSend.seq = 0 /\ 0 <= seqNum
    BY DEF NoSend, TypeOK
  <2> QED BY <1>0, <1>6, <2>1 DEF SeqsGrow
<1>11. ASSUME NEW m \in AllCopies', m.id \in acks' PROVE m.row.seq <= seqNum' /\ m.row.q = "src"
  <2>1. CASE New(m)
    <3>1. send[b].seq <= seqNum
      BY DEF SeqsGrow
    <3> QED BY <1>0, <1>4, <2>1, <3>1
  <2>2. CASE Old(m)
    <3>1. PICK n \in AllCopies : n.id = m.id /\ SameMessage(n.row, m.row)
      BY <2>2
    <3>2. n.id \in acks
      BY <1>0, <1>3, <1>6, <1>11, <3>1
    <3>3. n.row.seq <= seqNum /\ n.row.q = "src"
      BY <3>2 DEF SeqsGrow
    <3> QED BY <1>0, <3>1, <3>3 DEF SameMessage
  <2> QED BY <1>2, <2>1, <2>2
<1>12. ASSUME NEW d \in Bodies, pc'[d] = "put", NEW m \in AllCopies', m.id \in send'[d].prior
       PROVE  m.row.seq < send'[d].seq
  <2>1. d # b /\ pc[d] = "put" /\ send'[d] = send[d]
    BY <1>12
  <2>2. m.id \in acks
    BY <1>12, <2>1 DEF SeqsGrow
  <2>3. PICK n \in AllCopies : n.id = m.id /\ SameMessage(n.row, m.row)
    BY <1>2, <1>5, <2>2
  <2>4. n.row.seq < send[d].seq
    BY <1>12, <2>1, <2>3 DEF SeqsGrow
  <2> QED BY <2>1, <2>3, <2>4 DEF SameMessage
<1>13. ASSUME NEW m \in AllCopies', NEW n \in AllCopies', n.id \in prior'[m.id]
       PROVE  /\ n.row.seq < m.row.seq /\ n.row.group = m.row.group /\ n.row.q = "src"
              /\ n.row.group # None
  <2>1. m.id \in Ids /\ n.id \in Ids
    BY <1>0, StemIds
  <2>2. CASE m.id = used'
    <3>1. /\ n.id \in send[b].prior /\ n.id \in acks
          /\ rows[n.id] # None /\ rows[n.id].group = send[b].group
      BY <1>0, <1>1, <1>13, <2>2
    <3>2. PICK k \in AllCopies : k.id = n.id /\ SameMessage(k.row, n.row)
      BY <1>2, <1>5, <3>1
    <3>3. [id |-> n.id, row |-> rows[n.id]] \in AllCopies
      BY <2>1, <3>1, CopiesIn
    <3>4. SameMessage(k.row, rows[n.id])
      BY <3>2, <3>3 DEF CopiesAgree
    <3>5. k.row.seq < send[b].seq /\ k.row.q = "src"
      BY <3>1, <3>2 DEF SeqsGrow
    <3>6. New(m)
      BY <1>0, <1>2, <1>3, <2>2
    <3>7. send[b].group # None
      BY <1>0, <3>1 DEF SeqsGrow
    <3> QED BY <1>4, <3>1, <3>2, <3>4, <3>5, <3>6, <3>7 DEF SameMessage
  <2>3. CASE m.id # used'
    <3>1. n.id \in prior[m.id]
      BY <1>1, <1>13, <2>1, <2>3
    <3>2. n.id <= used
      BY <2>1, <3>1 DEF SeqsGrow
    <3>3. n.id # used'
      BY <1>0, <2>1, <3>2
    <3>4. Old(m) /\ Old(n)
      BY <1>2, <2>3, <3>3
    <3>5. PICK p \in AllCopies : p.id = m.id /\ SameMessage(p.row, m.row)
      BY <3>4
    <3>6. PICK r \in AllCopies : r.id = n.id /\ SameMessage(r.row, n.row)
      BY <3>4
    <3>7. r.row.seq < p.row.seq /\ r.row.group = p.row.group /\ r.row.q = "src" /\ r.row.group # None
      BY <3>1, <3>5, <3>6 DEF SeqsGrow
    <3> QED BY <3>5, <3>6, <3>7 DEF SameMessage
  <2> QED BY <2>2, <2>3
<1> QED BY <1>7, <1>8, <1>9, <1>10, <1>11, <1>12, <1>13, <1>14 DEF SeqsGrow

\* The message is stored, or could not be.
LEMMA InvSendPut == ASSUME SQSInv, NEW b \in Bodies, SendPut(b) PROVE SQSInv'
<1>0. /\ TypeOK /\ CallsShaped /\ CopiesAgree /\ CountsEarned /\ DedupSound /\ SeqsGrow
      /\ b \in Processes
  BY Kinds DEF SQSInv, QueueInv
<1>1. /\ UNCHANGED <<queue, seqNum, dedup, cand, cur, room, held, handed, done, slips>>
      /\ pc[b] = "put" /\ pc' = [pc EXCEPT ![b] = "idle"]
      /\ send' = [send EXCEPT ![b] = NoSend]
  BY DEF SendPut
<1>2. NoSend \in [group : Groups \cup {None}, seq : 0..MaxSeq, prior : SUBSET Ids]
  BY <1>0, Zeros DEF NoSend, TypeOK
<1>3. /\ CallStep(b) /\ CopiesRead(b) /\ Shaped(b)'
      /\ pc'[b] = "idle" /\ send'[b] = NoSend /\ pc'[Mover] = pc[Mover]
      /\ \A d \in Bodies : d # b => pc'[d] = pc[d] /\ send'[d] = send[d]
  <2> HIDE DEF NoSend
  <2> QED BY <1>0, <1>1, <1>2, SenderCall
<1>4. /\ seqNum' \in 0..MaxSeq /\ dedup' \subseteq Bodies /\ seqNum <= seqNum'
      /\ slips' \in [Bodies -> Nat]
  BY <1>0, <1>1 DEF TypeOK
<1>7. Overlooked' = Overlooked
  BY <1>0, <1>1, <1>3 DEF Overlooked, TypeOK
<1> DEFINE r == Fresh("src", b, send[b].group, send[b].seq, ~fifo)
<1>5. CASE /\ Works
           /\ PutNew(r)
           /\ prior' = [prior EXCEPT ![used'] =
                 {i \in send[b].prior : rows[i] # None /\ rows[i].group = send[b].group}]
           /\ acks' = IF fifo THEN acks \cup {used'} ELSE acks
           /\ sends' = IF fifo THEN [sends EXCEPT ![b] = @ + 1] ELSE sends
           /\ stored' = stored \cup {b}
  <2>1. /\ r \in Rows(maxReceive) /\ r.count = 0 /\ r.handle = None /\ (fifo => ~r.hidden)
        /\ r.body = b
    <3>1. fifo \in BOOLEAN /\ send[b].group \in Groups \cup {None} /\ send[b].seq \in 0..MaxSeq
      BY <1>0 DEF TypeOK
    <3> QED BY <1>0, <3>1, Zeros DEF Fresh, Rows, TypeOK
  <2> HIDE DEF r
  <2>2. /\ RowStep /\ \A i \in Ids : Survives(i)
        /\ used' = used + 1 /\ used' \in Ids /\ rows'[used'] = r /\ r # None
    BY <1>0, <1>1, <1>5, <2>1, RowAdded
  <2>3. SeqsGrow'
    BY <1>0, <1>1, <1>3, <1>5, <2>2, SeqsStored DEF r
  <2>4. DedupSound'
    <3>1. sends'[b] = (IF fifo THEN sends[b] + 1 ELSE sends[b])
      BY <1>0, <1>5 DEF TypeOK
    <3>2. \A d \in Bodies : d # b => sends'[d] = sends[d]
      BY <1>0, <1>5 DEF TypeOK
    <3>3. rare' = rare
      BY <1>5 DEF Works
    <3>4. sends'[b] <= slips[b] + (IF b \in dedup THEN 1 ELSE 0)
      BY <1>0, <1>1, <3>1 DEF DedupSound, TypeOK
    <3> QED BY <1>0, <1>1, <1>3, <1>7, <3>2, <3>3, <3>4 DEF DedupSound, queue
  <2>5. /\ prior' \in [Ids -> SUBSET Ids] /\ acks' \subseteq Ids /\ stored' \subseteq Bodies
        /\ sends' \in [Bodies -> Nat] /\ rare' \in 0..MaxRare
    <3>1. {i \in send[b].prior : rows[i] # None /\ rows[i].group = send[b].group} \in SUBSET Ids
      BY <1>0 DEF TypeOK
    <3>2. prior' \in [Ids -> SUBSET Ids]
      BY <1>0, <1>5, <3>1 DEF TypeOK
    <3>3. sends' \in [Bodies -> Nat]
      BY <1>0, <1>5 DEF TypeOK
    <3> QED BY <1>0, <1>5, <2>2, <3>2, <3>3 DEF TypeOK, Works
  <2>6. \A e \in stored' : e \in stored \/ Present(e)'
    BY <1>5, <2>1, <2>2 DEF Present
  <2>7. \A i \in Ids : i <= used => prior'[i] = prior[i]
    <3>1. used \in Int /\ ~(used + 1 <= used)
      BY <1>0 DEF TypeOK
    <3> QED BY <1>0, <1>5, <2>2, <3>1 DEF TypeOK
  <2> QED BY <1>0, <1>1, <1>3, <1>4, <2>2, <2>3, <2>4, <2>5, <2>6, <2>7, SenderKeeps
<1>6. CASE Fails /\ UNCHANGED <<rows, used, prior, acks, sends, stored>>
  <2>1. RowStep /\ \A i \in Ids : Survives(i)
    BY <1>0, <1>1, <1>6, RowsRead
  <2>2. rare' = rare + 1 /\ rare' \in 0..MaxRare
    BY <1>0, <1>6, SQSAssumption DEF Fails, Rarely, TypeOK
  <2>3. SeqsGrow'
    <3>1. \A d \in Bodies : send'[d].prior \subseteq acks /\ send'[d].seq <= seqNum'
      <4>1. NoSend.prior = {} /\ NoSend.seq = 0 /\ 0 <= seqNum
        BY <1>0 DEF NoSend, TypeOK
      <4> QED BY <1>0, <1>1, <1>3, <4>1 DEF SeqsGrow
    <3>2. \A d \in Bodies : pc'[d] # "idle" /\ fifo => send'[d].group # None
      BY <1>0, <1>3 DEF SeqsGrow
    <3> QED BY <1>0, <1>1, <1>3, <1>4, <1>6, <2>1, <3>1, <3>2, SeqsKept
  <2>4. DedupSound'
    <3>2. seqNum' + Cardinality(Overlooked') <= Cardinality(dedup') + rare'
      BY <1>0, <1>1, <1>7, <2>2, OverlookedCount DEF DedupSound, TypeOK
    <3> QED BY <1>0, <1>1, <1>3, <1>6, <3>2 DEF DedupSound, queue
  <2> QED BY <1>0, <1>1, <1>3, <1>4, <1>6, <2>1, <2>2, <2>3, <2>4, SenderKeeps DEF TypeOK
<1> QED BY <1>5, <1>6 DEF SendPut

-----------------------------------------------------------------------------
(* The crash, the beginning, and all steps. *)

\* After a crash the rows are the only copies.
LEMMA InvCrash == ASSUME SQSInv, Crash PROVE SQSInv'
<1>0. /\ TypeOK /\ CallsShaped /\ CopiesAgree /\ CountsEarned /\ DedupSound /\ SeqsGrow
      /\ NoMessageLost
  BY DEF SQSInv, QueueInv
<1>1. /\ UNCHANGED <<queue, rows, dedup, used, handed, prior, stored, done, sends, slips>>
      /\ seqNum' = 0 /\ acks' = {} /\ rare' = rare + 1 /\ rare' \in 0..MaxRare
      /\ fifo' = fifo /\ maxReceive' = maxReceive
  BY <1>0, SQSAssumption DEF Crash, Rarely, TypeOK, queue
<1>2. /\ \A p \in Processes : pc'[p] = "idle"
      /\ \A b \in Bodies : send'[b] = NoSend
      /\ \A x \in Callers : cand'[x] = {} /\ pc'[x] = "idle"
      /\ \A b \in Bodies : pc'[b] = "idle"
      /\ \A c \in Consumers : pc'[c] = "idle" /\ room'[c] = 0
      /\ pc'[Mover] = "idle"
  BY Kinds DEF Crash, Callers
<1>3. \A m \in AllCopies' : m \in AllCopies
  <2> TAKE m \in AllCopies'
  <2>1. \E i \in Ids : rows'[i] # None /\ m = [id |-> i, row |-> rows'[i]]
    BY <1>2, CopyCasesAfter
  <2> QED BY <1>1, <2>1, CopiesIn
<1>4. TypeOK'
  <2>1. Entries' = Entries /\ Rows(maxReceive)' = Rows(maxReceive)
    BY <1>1 DEF Entries, Rows
  <2>2. 0 \in 0..MaxSeq /\ 0 \in 0..Batch
    BY <1>0, Zeros, SQSAssumption DEF TypeOK
  <2>3. pc' \in [Processes -> {"idle", "record", "put", "fetch", "each", "movePut",
                             "moveDelete", "delete", "change", "invoke"}]
    BY DEF Crash
  <2>4. send' \in [Bodies -> [group : Groups \cup {None}, seq : 0..MaxSeq, prior : SUBSET Ids]]
    BY <2>2 DEF Crash, NoSend
  <2>5. cand' \in [Callers -> SUBSET Entries] /\ cur' = [x \in Callers |-> cur'[x]]
    BY DEF Crash, Callers
  <2>6. held' \in [Consumers -> SUBSET Ids] /\ room' \in [Consumers -> 0..Batch]
    BY <1>0, <2>2 DEF Crash, TypeOK
  <2> QED BY <1>0, <1>1, <2>1, <2>2, <2>3, <2>4, <2>5, <2>6 DEF TypeOK
<1>5. CallsShaped'
  BY <1>2 DEF CallsShaped, Moving
<1>6. DedupSound'
  <2>1. Cardinality(dedup) \in Nat
    BY <1>0, OverlookedCount
  <2>2. Overlooked' = {}
    BY <1>0, <1>1, <1>2 DEF Overlooked, TypeOK
  <2>3. seqNum' + Cardinality(Overlooked') <= Cardinality(dedup') + rare'
    BY <1>1, <2>1, <2>2, FS_EmptySet, SQSAssumption
  <2> QED BY <1>0, <1>1, <1>2, <2>3 DEF DedupSound
<1>7. CopiesAgree'
  BY <1>0, <1>1, <1>2, <1>3 DEF CopiesAgree
<1>8. CountsEarned'
  BY <1>0, <1>1, <1>3 DEF CountsEarned
<1>9. PutFirst'
  BY <1>2 DEF PutFirst
<1>10. SeqsGrow'
  <2>1. NoSend.prior = {} /\ NoSend.seq = 0
    BY DEF NoSend
  <2>2. \A b \in Bodies : send'[b].prior \subseteq acks' /\ send'[b].seq <= seqNum'
    BY <1>1, <1>2, <2>1
  <2>3. \A i \in Ids : \A p \in prior'[i] : p <= used' /\ i <= used'
    BY <1>0, <1>1 DEF SeqsGrow
  <2>4. \A m, n \in AllCopies' : n.id \in prior'[m.id] =>
           /\ n.row.seq < m.row.seq /\ n.row.group = m.row.group /\ n.row.q = "src"
           /\ n.row.group # None
    BY <1>0, <1>1, <1>3 DEF SeqsGrow
  <2>5. ~fifo' => \A i \in Ids : prior'[i] = {}
    BY <1>0, <1>1 DEF SeqsGrow
  <2> QED BY <1>1, <1>2, <2>2, <2>3, <2>4, <2>5 DEF SeqsGrow
<1>11. CandidatesComplete'
  <2>1. \A c \in Clients : cand'[c] = {}
    BY <1>2, Kinds
  <2> QED BY <2>1 DEF CandidatesComplete
<1>12. NoMessageLost'
  <2>1. In("src")' = In("src") /\ In("dlq")' = In("dlq")
    BY <1>1 DEF In
  <2> QED BY <1>0, <1>1, <2>1 DEF NoMessageLost
<1>13. DeadLetterEarned'
  BY <1>2 DEF DeadLetterEarned
<1> QED BY <1>4, <1>5, <1>6, <1>7, <1>8, <1>9, <1>10, <1>11, <1>12, <1>13 DEF SQSInv, QueueInv

\* Nothing is stored, and nobody is in a call.
LEMMA InvInit == ASSUME Init PROVE SQSInv
<1>1. /\ \A i \in Ids : rows[i] = None
      /\ \A x \in Callers : pc[x] = "idle" /\ cand[x] = {}
      /\ \A b \in Bodies : pc[b] = "idle" /\ send[b] = NoSend
      /\ \A c \in Consumers : pc[c] = "idle"
      /\ pc[Mover] = "idle"
  BY Kinds DEF Init, Callers
<1>2. AllCopies = {}
  <2> SUFFICES ASSUME NEW m \in AllCopies PROVE FALSE
    OBVIOUS
  <2> QED BY <1>1, CopyCases
<1>3. maxReceive \in Limits
  BY DEF Init
<1>4. TypeOK
  <2>1. 0 \in 0..MaxSeq /\ 0 \in 0..Batch /\ 0 \in 0..maxReceive /\ 0 \in 0..MaxRare /\ 0 \in 0..MaxId
    BY <1>3, Zeros, SQSAssumption
  <2>2. /\ fifo \in BOOLEAN /\ rows \in [Ids -> Rows(maxReceive) \cup {None}]
        /\ seqNum \in 0..MaxSeq /\ dedup \subseteq Bodies
    BY <2>1 DEF Init
  <2>3. pc \in [Processes -> {"idle", "record", "put", "fetch", "each", "movePut",
                             "moveDelete", "delete", "change", "invoke"}]
    BY DEF Init
  <2>4. send \in [Bodies -> [group : Groups \cup {None}, seq : 0..MaxSeq, prior : SUBSET Ids]]
    BY <2>1 DEF Init, NoSend
  <2>5. cand \in [Callers -> SUBSET Entries] /\ cur = [x \in Callers |-> cur[x]]
    BY DEF Init, Callers
  <2>6. held \in [Consumers -> SUBSET Ids] /\ room \in [Consumers -> 0..Batch]
    BY <2>1 DEF Init
  <2>7. /\ handed \in [Ids -> 0..maxReceive] /\ prior \in [Ids -> SUBSET Ids] 
        /\ sends \in [Bodies -> Nat] /\ slips \in [Bodies -> Nat]
    BY <2>1 DEF Init
  <2> QED BY <1>3, <2>1, <2>2, <2>3, <2>4, <2>5, <2>6, <2>7 DEF TypeOK, Init
<1>5. CallsShaped
  BY <1>1 DEF CallsShaped, Moving
<1>6. DedupSound
  <2>1. seqNum = 0 /\ dedup = {} /\ rare = 0 /\ Overlooked = {}
    BY DEF Init, Overlooked
  <2>2. /\ seqNum + Cardinality(Overlooked) <= Cardinality(dedup) + rare
        /\ \A b \in Bodies : sends[b] = 0 /\ slips[b] = 0
    BY <2>1, FS_EmptySet DEF Init
  <2> QED BY <1>1, <2>2 DEF DedupSound
<1>7. CopiesAgree /\ CountsEarned /\ PutFirst /\ CandidatesComplete
  <2>1. \A c \in Clients : cand[c] = {}
    BY <1>1, Kinds
  <2> QED BY <1>1, <1>2, <2>1 DEF CopiesAgree, CountsEarned, PutFirst, CandidatesComplete
<1>8. SeqsGrow
  <2>1. /\ acks = {} /\ seqNum = 0 /\ \A i \in Ids : prior[i] = {}
    BY DEF Init
  <2>2. NoSend.prior = {} /\ NoSend.seq = 0
    BY DEF NoSend
  <2> QED BY <1>1, <1>2, <2>1, <2>2 DEF SeqsGrow
<1>9. NoMessageLost /\ DeadLetterEarned
  BY <1>1 DEF NoMessageLost, DeadLetterEarned, Init
<1> QED BY <1>4, <1>5, <1>6, <1>7, <1>8, <1>9 DEF SQSInv, QueueInv

\* A step that changes nothing.
LEMMA InvStutter == ASSUME SQSInv, UNCHANGED vars PROVE SQSInv'
<1>0. /\ TypeOK /\ CallsShaped /\ CopiesAgree /\ CountsEarned
  BY DEF SQSInv, QueueInv
<1>1. UNCHANGED <<queue, rows, seqNum, dedup, pc, send, cand, cur, room, held, rare, used, handed,
                  prior, acks, stored, done, sends, slips>>
  BY DEF vars, callVars, histVars
<1>2. /\ rare' \in 0..MaxRare /\ rare <= rare' /\ stored' \subseteq Bodies
      /\ done' \subseteq Bodies /\ done \subseteq done' /\ \A b \in stored' : b \in stored
  BY <1>0, <1>1 DEF TypeOK
<1>3. RowStep /\ \A j \in Ids : Survives(j)
  BY <1>0, <1>1, RowsRead
<1> QED BY <1>0, <1>1, <1>2, <1>3, NoCall, CallerKeeps

\* Every step keeps the invariant.
LEMMA InvStep == ASSUME SQSInv, [Next]_vars PROVE SQSInv'
<1>1. CASE UNCHANGED vars
  BY <1>1, InvStutter
<1>2. ASSUME NEW b \in Bodies,
             SendMessage(b) \/ Record(b) \/ SendPut(b) \/ SendRaw(b) \/ DedupExpires(b)
      PROVE  SQSInv'
  BY <1>2, InvSendMessage, InvRecord, InvSendPut, InvSendRaw, InvDedupExpires
<1>3. ASSUME NEW c \in Consumers,
             \/ Receive(c) \/ Fetch(c) \/ Each(c) \/ DeleteGet(c) \/ Delete(c)
             \/ ChangeGet(c) \/ ChangePut(c) \/ Invoked(c)
      PROVE  SQSInv'
  BY <1>3, InvReceive, InvEach, InvDeleteGet, InvDelete, InvChangeGet, InvChangePut, InvInvoked
<1>4. ASSUME NEW x \in Callers, MovePut(x) \/ MoveDelete(x) PROVE SQSInv'
  BY <1>4, InvMovePut, InvMoveDelete
<1>5. CASE StartMove
  BY <1>5, InvStartMove
<1>6. ASSUME NEW q \in {"src", "dlq"}, PurgeQueue(q) PROVE SQSInv'
  BY <1>6, InvPurgeQueue
<1>7. ASSUME NEW i \in Ids, Expires(i) PROVE SQSInv'
  BY <1>7, InvExpires
<1>8. CASE Crash
  BY <1>8, InvCrash
<1> QED BY <1>1, <1>2, <1>3, <1>4, <1>5, <1>6, <1>7, <1>8 DEF Next, Callers

LEMMA SQSInvHolds == Spec => []SQSInv
<1>1. Init => SQSInv
  BY InvInit
<1>2. SQSInv /\ [Next]_vars => SQSInv'
  BY InvStep
<1> QED BY <1>1, <1>2, PTL DEF Spec

-----------------------------------------------------------------------------
(* The results. *)

\* The invariant of sends, receives, moves and deletes holds in every behaviour:
\* whatever copy of a row a call of selectVisibleMessages, moveToDLQ or
\* ChangeMessageVisibility acts on, it agrees with the others on the message.
THEOREM InvariantHolds == Spec => []QueueInv
<1>1. SQSInv => QueueInv
  BY DEF SQSInv
<1> QED BY <1>1, SQSInvHolds, PTL

\* Conservation: between the putMessage and the deleteMessage of moveToDLQ, with
\* failing store calls and crashes, no stored body is ever in neither queue.
THEOREM NothingLost == Spec => []NoMessageLost
<1>1. SQSInv => NoMessageLost
  BY DEF SQSInv
<1> QED BY <1>1, SQSInvHolds, PTL

\* Redrive: what selectVisibleMessages and ReceiveMessages move was handed out as
\* often as the redrive policy asks.
THEOREM DeadLettersEarned == Spec => []DeadLetterEarned
<1>1. SQSInv => DeadLetterEarned
  BY DEF SQSInv
<1> QED BY <1>1, SQSInvHolds, PTL

\* Only a receive hands messages out.
LEMMA OnlyEachHands ==
    ASSUME Next, handed' # handed PROVE \E c \in Consumers : Each(c)
<1>1. ASSUME NEW b \in Bodies,
             SendMessage(b) \/ Record(b) \/ SendPut(b) \/ SendRaw(b) \/ DedupExpires(b)
      PROVE  FALSE
  BY <1>1 DEF SendMessage, Record, SendPut, SendRaw, DedupExpires
<1>2. ASSUME NEW c \in Consumers,
             \/ Receive(c) \/ Fetch(c) \/ DeleteGet(c) \/ Delete(c)
             \/ ChangeGet(c) \/ ChangePut(c) \/ Invoked(c)
      PROVE  FALSE
  BY <1>2 DEF Receive, Fetch, DeleteGet, Delete, ChangeGet, ChangePut, Invoked, histVars
<1>3. ASSUME NEW x \in Callers, MovePut(x) \/ MoveDelete(x) PROVE FALSE
  BY <1>3 DEF MovePut, MoveDelete, histVars
<1>4. CASE StartMove
  BY <1>4 DEF StartMove, histVars
<1>5. ASSUME NEW q \in {"src", "dlq"}, PurgeQueue(q) PROVE FALSE
  BY <1>5 DEF PurgeQueue
<1>6. ASSUME NEW i \in Ids, Expires(i) PROVE FALSE
  BY <1>6 DEF Expires, histVars
<1>7. CASE Crash
  BY <1>7 DEF Crash
<1> QED BY <1>1, <1>2, <1>3, <1>4, <1>5, <1>6, <1>7 DEF Next, Callers

\* A client that is handed a message for the first time by a FIFO queue's receive
\* had the earlier ones of its group, if nobody was given them, before it.
LEMMA FifoStep ==
    ASSUME SQSInv, [Next]_vars, NEW i \in Ids, handed[i] = 0, handed'[i] = 1,
           NEW c \in Clients, i \in held'[c] \ held[c], NEW p \in prior[i]
    PROVE  rows[p] = None \/ handed[p] > 0
<1>0. /\ TypeOK /\ CallsShaped /\ CopiesAgree /\ SeqsGrow /\ CandidatesComplete
      /\ c \in Consumers /\ c \in Callers
  BY Kinds DEF SQSInv, QueueInv
<1>1. handed' # handed /\ Next
  BY DEF vars, histVars
<1>2. PICK d \in Consumers : Each(d)
  BY <1>1, OnlyEachHands
<1>3. PICK m \in NextCandidates(d) :
         /\ handed' = [handed EXCEPT ![m.id] = Upto(@ + 1)]
         /\ Proceed(d, cand[d] \ {m}, room[d] - 1, held[d] \cup {m.id})
  BY <1>1, <1>2 DEF Each
<1>4. i = m.id
  BY <1>0, <1>3 DEF TypeOK
<1>5. c = d
  <2>1. held' = [held EXCEPT ![d] = held[d] \cup {m.id}]
    BY <1>3 DEF Proceed
  <2> QED BY <1>0, <2>1 DEF TypeOK
<1>6. m \in cand[c] /\ m \in AllCopies
  BY <1>0, <1>3, <1>5, CopiesIn DEF NextCandidates
<1>7. fifo /\ p \in Ids
  BY <1>0, <1>4 DEF SeqsGrow, TypeOK
<1>8. SUFFICES ASSUME rows[p] # None, ~(handed[p] > 0) PROVE FALSE
  OBVIOUS
<1>9. handed[p] = 0
  <2>1. handed[p] \in 0..maxReceive /\ maxReceive \in Nat
    BY <1>0, <1>7, SQSAssumption DEF TypeOK
  <2> QED BY <1>8, <2>1
<1>10. [id |-> p, row |-> rows[p]] \in cand[c]
  BY <1>0, <1>4, <1>6, <1>8, <1>9 DEF CandidatesComplete, Copy
<1>11. m.row.seq <= rows[p].seq
  BY <1>3, <1>5, <1>7, <1>10 DEF NextCandidates
<1>12. rows[p].seq < m.row.seq
  <2>1. [id |-> p, row |-> rows[p]] \in AllCopies
    BY <1>7, <1>8, CopiesIn
  <2> QED BY <1>0, <1>4, <1>6, <2>1 DEF SeqsGrow
<1>13. m.row.seq \in Int /\ rows[p].seq \in Int
  BY <1>0, <1>6, <1>7, <1>8, CopyTypes DEF TypeOK, Rows
<1> QED BY <1>11, <1>12, <1>13

\* Order in a group of a FIFO queue, as selectVisibleMessages hands messages out:
\* of the messages that were acknowledged by this process before the one a client
\* is first given was sent, none is still waiting for its first receive.
THEOREM GroupsInOrder == Spec => FifoOrder
<1>1. ASSUME SQSInv, [Next]_vars
      PROVE  \A i \in Ids :
                (/\ handed[i] = 0 /\ handed'[i] = 1
                 /\ \E c \in Clients : i \in held'[c] \ held[c])
                => \A p \in prior[i] : rows[p] = None \/ handed[p] > 0
  BY <1>1, FifoStep
<1> QED BY <1>1, SQSInvHolds, PTL DEF FifoOrder, Spec

=============================================================================

--------------------------------- MODULE SQS ---------------------------------
(* sqs: a source queue with a redrive policy and its dead-letter queue.  Senders
   (SendMessage, SendMessageBatch and the internal enqueuer), HTTP consumers
   (ReceiveMessage, DeleteMessage, ChangeMessageVisibility), the Lambda poller's
   receiver, redrive, purge, expiring visibility timeouts, failing store calls
   and a crash.

   No lock spans two calls of the message backend, so each call is a step of its
   own.  A visibility timeout is a flag that expires at any time, at once when
   the timeout is zero.  A receipt handle is the name of the consumer that
   received last: a client keeps the handles of its latest receive only.  Sends
   of one body do not overlap.  The queues are shorter than the fetch limit of a
   receive, which therefore makes one round.  The key-value store with the
   deduplication ids keeps what it was given across a crash, as the message
   table does; what a store may lose is HybridStore's matter.                *)

EXTENDS Integers, FiniteSets

CONSTANTS
    Bodies,        \* messages that clients send, each with a deduplication id
    Groups,        \* message groups
    Clients,       \* HTTP consumers
    Pollers,       \* event source mappings
    Limits,        \* values of maxReceiveCount
    Batch,         \* bound: messages per receive
    MaxId,         \* bound: message ids
    MaxCalls,      \* bound: receives
    MaxActive,     \* bound: calls in progress at a time
    MaxRare,       \* bound: store calls that fail, crashes, purges, changed
                   \* timeouts, expired deduplication windows, raw sends, together
    None

ASSUME SQSAssumption ==
    /\ Clients \cap Pollers = {}
    /\ Limits \subseteq Nat \ {0} /\ Batch \in Nat \ {0} /\ MaxId \in Nat
    /\ MaxRare \in Nat /\ MaxActive \in Nat /\ MaxCalls \in Nat
    /\ None \notin Bodies \cup Groups \cup Clients \cup Pollers

Consumers == Clients \cup Pollers
Ids == 1..MaxId
Mover == "mover"
Processes == Bodies \cup Consumers \cup {Mover}

\* A new number needs a new deduplication id, or one that has expired.
MaxSeq == Cardinality(Bodies) + MaxRare

\* The rows of a queue whose redrive policy allows n receives.
Rows(n) ==
    [q : {"src", "dlq"}, body : Bodies, group : Groups \cup {None}, seq : 0..MaxSeq,
     handle : Consumers \cup {None}, count : 0..n, hidden : BOOLEAN]

\* Senders, consumers and the mover are different, and nil is not a row.
ASSUME KindsAssumption ==
    /\ IsFiniteSet(Bodies) /\ Bodies \cap Consumers = {} /\ Mover \notin Bodies \cup Consumers
    /\ \A n \in Limits : \A r \in Rows(n) : r # None

VARIABLES
    fifo,          \* the kind of the source queue
    maxReceive,    \* maxReceiveCount of its redrive policy
    rows,          \* id -> its row, or None
    seqNum,        \* Handler.seqNum
    dedup,         \* the bodies whose deduplication id is recorded
    \* --- calls
    pc,
    send,          \* sender -> [group, seq, prior] of its call
    cand,          \* consumer or mover -> rows its call has left, with their ids
    cur,           \* consumer or mover -> the row it works on, or None
    room,          \* consumer -> how many more messages its call returns
    held,          \* consumer -> the ids that its latest receive returned
    calls,         \* how many receives there were
    rare,          \* how many rare events have happened
    \* --- history variables
    used,          \* how many ids were given out
    handed,        \* id -> how often a receive has marked it, up to maxReceive
    prior,         \* id -> ids of its group that were acknowledged before it was sent
    acks,          \* ids that this process has acknowledged
    stored,        \* bodies that were stored
    done,          \* bodies a holder has deleted or a purge has removed
    sends,         \* body -> times SendMessage stored it in a deduplication window
    slips          \* body -> failed calls of the deduplication store in that window

queue == <<fifo, maxReceive>>
callVars == <<pc, send, cand, cur, room, held>>
histVars == <<used, handed, prior, acks, stored, done, sends, slips>>
vars == <<calls, queue, rows, seqNum, dedup, callVars, rare, histVars>>

NoSend == [group |-> None, seq |-> 0, prior |-> {}]

Init ==
    /\ fifo \in BOOLEAN /\ maxReceive \in Limits
    /\ rows = [i \in Ids |-> None]
    /\ seqNum = 0 /\ dedup = {}
    /\ pc = [p \in Processes |-> "idle"]
    /\ send = [b \in Bodies |-> NoSend]
    /\ cand = [c \in Consumers \cup {Mover} |-> {}]
    /\ cur = [c \in Consumers \cup {Mover} |-> None]
    /\ room = [c \in Consumers |-> 0] /\ held = [c \in Consumers |-> {}]
    /\ calls = 0 /\ rare = 0 /\ used = 0
    /\ handed = [i \in Ids |-> 0] /\ prior = [i \in Ids |-> {}]
    /\ acks = {} /\ stored = {} /\ done = {}
    /\ sends = [b \in Bodies |-> 0] /\ slips = [b \in Bodies |-> 0]

Idle(p) == pc[p] = "idle" /\ Cardinality({x \in Processes : pc[x] # "idle"}) < MaxActive

-----------------------------------------------------------------------------
(* The message backend. *)

In(q) == {i \in Ids : rows[i] # None /\ rows[i].q = q}
Copy(i) == [id |-> i, row |-> rows[i]]
Copies(q) == {Copy(i) : i \in In(q)}
Visible(S) == {m \in S : ~m.row.hidden}
BlockedGroups(q) == {rows[i].group : i \in {j \in In(q) : rows[j].hidden}} \ {None}

\* A message that is new to queue q: its own id, no receives, no handle that a
\* client knows.
Fresh(q, b, group, seq, hidden) ==
    [q |-> q, body |-> b, group |-> group, seq |-> seq, handle |-> None,
     count |-> 0, hidden |-> hidden]

\* putMessage of a new message, if an id is left.
PutNew(row) ==
    /\ used < MaxId /\ used' = used + 1
    /\ rows' = [rows EXCEPT ![used + 1] = row]

\* putMessage of a copy: an upsert.
Put(i, row) == rows' = [rows EXCEPT ![i] = row]
DeleteRow(i) == rows' = [rows EXCEPT ![i] = None]
Rarely == rare < MaxRare /\ rare' = rare + 1
Fails == Rarely
Works == UNCHANGED rare

-----------------------------------------------------------------------------
(* Sending. *)

\* Mutant: the deduplication id is not recorded.
RecordNothing(b) == UNCHANGED dedup

RecordDedup(b) == dedup' = dedup \cup {b}

\* A call of the deduplication store whose error is dropped.
Slip(b) == Fails /\ slips' = [slips EXCEPT ![b] = @ + 1]
NoSlip == Works /\ UNCHANGED slips

\* SendMessage: isDuplicate answers a duplicate without storing it, and takes an
\* id that it cannot look up for a new one, which makes a difference to one that
\* is recorded.  A client of a standard queue only retries what failed.
SendMessage(b) ==
    /\ Idle(b)
    /\ \/ /\ fifo /\ b \in dedup
          /\ NoSlip /\ UNCHANGED <<pc, send>>
       \/ /\ fifo
          /\ IF b \in dedup THEN Slip(b) ELSE NoSlip
          /\ \E g \in Groups :
               send' = [send EXCEPT ![b] = [group |-> g, seq |-> 0, prior |-> acks]]
          /\ pc' = [pc EXCEPT ![b] = "record"]
       \/ /\ ~fifo /\ b \notin stored
          /\ pc' = [pc EXCEPT ![b] = "put"] /\ NoSlip /\ UNCHANGED send
    /\ UNCHANGED <<calls, queue, rows, seqNum, dedup, cand, cur, room, held, used, handed,
                   prior, acks, stored, done, sends>>

NextSeq == seqNum' = seqNum + 1

\* recordDedup, which drops the error of the store, and the sequence number.
Record(b) ==
    /\ pc[b] = "record"
    /\ \/ RecordDedup(b) /\ NoSlip
       \/ Slip(b) /\ UNCHANGED dedup
    /\ NextSeq
    /\ send' = [send EXCEPT ![b].seq = seqNum']
    /\ pc' = [pc EXCEPT ![b] = "put"]
    /\ UNCHANGED <<calls, queue, rows, cand, cur, room, held, used, handed, prior, acks,
                   stored, done, sends>>

\* putMessage, and the answer.  A message of a standard queue may be delayed.
SendPut(b) ==
    /\ pc[b] = "put"
    /\ \/ /\ Works
          /\ PutNew(Fresh("src", b, send[b].group, send[b].seq, ~fifo))
          /\ prior' = [prior EXCEPT ![used'] =
                          {i \in send[b].prior : rows[i] # None /\ rows[i].group = send[b].group}]
          /\ acks' = IF fifo THEN acks \cup {used'} ELSE acks
          /\ sends' = IF fifo THEN [sends EXCEPT ![b] = @ + 1] ELSE sends
          /\ stored' = stored \cup {b}
       \/ Fails /\ UNCHANGED <<rows, used, prior, acks, sends, stored>>
    /\ pc' = [pc EXCEPT ![b] = "idle"] /\ send' = [send EXCEPT ![b] = NoSend]
    /\ UNCHANGED <<calls, queue, seqNum, dedup, cand, cur, room, held, handed, done, slips>>

\* SendMessageBatch, whose entries may be delayed on any queue, and EnqueueRaw: no
\* group, number or deduplication id.
SendRaw(b) ==
    /\ Rarely
    /\ pc[b] = "idle"
    /\ \E hidden \in BOOLEAN : PutNew(Fresh("src", b, None, 0, hidden))
    /\ stored' = stored \cup {b}
    /\ UNCHANGED <<calls, queue, seqNum, dedup, callVars, handed, prior, acks,
                   done, sends, slips>>

\* The five minutes of the deduplication window pass; no call takes as long.
DedupExpires(b) ==
    /\ Rarely
    /\ b \in dedup /\ pc[b] = "idle"
    /\ dedup' = dedup \ {b}
    /\ sends' = [sends EXCEPT ![b] = 0] /\ slips' = [slips EXCEPT ![b] = 0]
    /\ UNCHANGED <<calls, queue, rows, seqNum, callVars, used, handed, prior,
                   acks, stored, done>>

-----------------------------------------------------------------------------
(* Receiving: selectVisibleMessages for a client, ReceiveMessages for a poller. *)

Mark(m, c) == [m.row EXCEPT !.handle = c, !.hidden = TRUE, !.count = @ + 1]

\* A receive goes on with the candidates that are left, or returns what it has
\* got; a poller then invokes the function.
Proceed(c, left, n, got) ==
    LET over == left = {} \/ n = 0
    IN  /\ pc' = [pc EXCEPT ![c] = CASE ~over -> "each"
                                     [] over /\ c \in Pollers /\ got # {} -> "invoke"
                                     [] OTHER -> "idle"]
        /\ cand' = [cand EXCEPT ![c] = IF over THEN {} ELSE left]
        /\ room' = [room EXCEPT ![c] = IF over THEN 0 ELSE n]
        /\ held' = [held EXCEPT ![c] = got] /\ cur' = [cur EXCEPT ![c] = None]

\* receiveCandidates, or the visible part of listMessages.
Candidates(blocked) == {m \in Visible(Copies("src")) : m.row.group \notin blocked}

\* A receive for up to n messages.  A client of a FIFO queue first asks which
\* groups are blocked; a poller never does.
Receive(c) ==
    /\ Idle(c) /\ calls < MaxCalls /\ calls' = calls + 1
    /\ \E n \in 1..Batch :
         IF c \in Clients /\ fifo
         THEN /\ pc' = [pc EXCEPT ![c] = "fetch"]
              /\ cur' = [cur EXCEPT ![c] = BlockedGroups("src")]
              /\ held' = [held EXCEPT ![c] = {}] /\ room' = [room EXCEPT ![c] = n]
              /\ UNCHANGED cand
         ELSE Proceed(c, Candidates({}), n, {})
    /\ UNCHANGED <<queue, rows, seqNum, dedup, send, rare, histVars>>

\* A call that an error ends: what it had marked stays in flight, unknown.
GiveUp(c) ==
    /\ pc' = [pc EXCEPT ![c] = "idle"]
    /\ held' = [held EXCEPT ![c] = {}] /\ room' = [room EXCEPT ![c] = 0]
    /\ cand' = [cand EXCEPT ![c] = {}] /\ cur' = [cur EXCEPT ![c] = None]

\* receiveCandidates of a client.
Fetch(c) ==
    /\ pc[c] = "fetch"
    /\ \/ Works /\ Proceed(c, Candidates(cur[c]), room[c], {})
       \/ Fails /\ GiveUp(c)
    /\ UNCHANGED <<calls, queue, rows, seqNum, dedup, send, histVars>>

\* Mutant: candidates in any order.
NextUnordered(c) == cand[c]

\* A client of a FIFO queue takes them by sequence number, ties in any order.
NextCandidates(c) ==
    {m \in cand[c] : c \in Clients /\ fifo => \A n \in cand[c] : m.row.seq <= n.row.seq}

\* Mutant: the receive that reaches the limit is not delivered to a client either.
DeadEarly(c, m) == m.row.count + 1 >= maxReceive

Dead(c, m) ==
    IF c \in Clients THEN m.row.count + 1 > maxReceive ELSE m.row.count + 1 >= maxReceive

Upto(n) == IF n < maxReceive THEN n ELSE maxReceive

\* The next candidate is handed out, or is to go to the dead-letter queue.
Each(c) ==
    /\ pc[c] = "each"
    /\ \E m \in NextCandidates(c) :
         \/ /\ Dead(c, m) /\ Works
            /\ pc' = [pc EXCEPT ![c] = "movePut"] /\ cur' = [cur EXCEPT ![c] = m]
            /\ cand' = [cand EXCEPT ![c] = @ \ {m}]
            /\ UNCHANGED <<rows, held, room, handed>>
         \/ /\ ~Dead(c, m) /\ Works
            /\ Put(m.id, Mark(m, c))
            /\ handed' = [handed EXCEPT ![m.id] = Upto(@ + 1)]
            /\ Proceed(c, cand[c] \ {m}, room[c] - 1, held[c] \cup {m.id})
         \/ /\ ~Dead(c, m) /\ Fails
            /\ GiveUp(c) /\ UNCHANGED <<rows, handed>>
    /\ UNCHANGED <<calls, queue, seqNum, dedup, send, used, prior, acks,
                   stored, done, sends, slips>>

-----------------------------------------------------------------------------
(* moveToDLQ, and the same steps of a redrive: the new message is put first. *)

Target(x) == IF x = Mover THEN "src" ELSE "dlq"

\* A redrive takes the next message of those that are left, if any.
MoveNext(left) ==
    \/ /\ left = {}
       /\ pc' = [pc EXCEPT ![Mover] = "idle"] /\ cur' = [cur EXCEPT ![Mover] = None]
       /\ cand' = [cand EXCEPT ![Mover] = {}]
    \/ \E m \in left :
         /\ pc' = [pc EXCEPT ![Mover] = "movePut"] /\ cur' = [cur EXCEPT ![Mover] = m]
         /\ cand' = [cand EXCEPT ![Mover] = left \ {m}]

\* Where a move leaves its caller: at the next message.
AfterMove(x) ==
    IF x # Mover THEN Proceed(x, cand[x], room[x], held[x])
    ELSE MoveNext(cand[x]) /\ UNCHANGED <<room, held>>

\* An error ends a client's receive and a redrive; a poller goes on.
MoveError(x) ==
    CASE x \in Clients -> GiveUp(x)
      [] x \in Pollers -> AfterMove(x)
      [] OTHER -> MoveNext({}) /\ UNCHANGED <<room, held>>

\* Mutant: the old message goes before the new one is there.
DeleteThenPut(x) ==
    /\ pc[x] = "movePut" /\ rows[cur[x].id] # None /\ Works
    /\ DeleteRow(cur[x].id)
    /\ UNCHANGED <<calls, queue, seqNum, dedup, callVars, histVars>>

MovePut(x) ==
    /\ pc[x] = "movePut"
    /\ \/ /\ Works /\ PutNew(Fresh(Target(x), cur[x].row.body, None, 0, FALSE))
          /\ pc' = [pc EXCEPT ![x] = "moveDelete"]
          /\ UNCHANGED <<cand, cur, room, held>>
       \/ Fails /\ MoveError(x) /\ UNCHANGED <<rows, used>>
    /\ UNCHANGED <<calls, queue, seqNum, dedup, send, handed, prior, acks,
                   stored, done, sends, slips>>

MoveDelete(x) ==
    /\ pc[x] = "moveDelete"
    /\ \/ /\ Works /\ DeleteRow(cur[x].id)
          /\ AfterMove(x)
       \/ Fails /\ MoveError(x) /\ UNCHANGED rows
    /\ UNCHANGED <<calls, queue, seqNum, dedup, send, histVars>>

\* startMessageMoveTask lists the dead-letter queue and moves what it has seen.
StartMove ==
    /\ Idle(Mover) /\ In("dlq") # {}
    /\ MoveNext(Copies("dlq"))
    /\ UNCHANGED <<calls, queue, rows, seqNum, dedup, send, room, held, rare, histVars>>

-----------------------------------------------------------------------------
(* What consumers do with what they hold. *)

\* getMessage, and the comparison of the handles.
Valid(c, i) == rows[i] # None /\ rows[i].handle = c

\* DeleteMessage: looks, then deletes; a stale handle is refused.
DeleteGet(c) ==
    /\ Idle(c) /\ c \in Clients
    /\ \E i \in held[c] :
         /\ held' = [held EXCEPT ![c] = @ \ {i}]
         /\ IF Valid(c, i)
            THEN pc' = [pc EXCEPT ![c] = "delete"]
                 /\ cur' = [cur EXCEPT ![c] = [id |-> i, row |-> [body |-> rows[i].body]]]
            ELSE UNCHANGED <<pc, cur>>
    /\ UNCHANGED <<calls, queue, rows, seqNum, dedup, send, cand, room, rare, histVars>>

Delete(c) ==
    /\ pc[c] = "delete"
    /\ \/ /\ Works /\ DeleteRow(cur[c].id)
          /\ done' = done \cup {cur[c].row.body}
       \/ Fails /\ UNCHANGED <<rows, done>>
    /\ pc' = [pc EXCEPT ![c] = "idle"] /\ cur' = [cur EXCEPT ![c] = None]
    /\ UNCHANGED <<calls, queue, seqNum, dedup, send, cand, room, held, used, handed,
                   prior, acks, stored, sends, slips>>

\* ChangeMessageVisibility: looks, then writes its copy back.  (If that fails
\* nothing has happened.)
ChangeGet(c) ==
    /\ Idle(c) /\ c \in Clients /\ Rarely
    /\ \E i \in held[c] :
         /\ Valid(c, i)
         /\ pc' = [pc EXCEPT ![c] = "change"] /\ cur' = [cur EXCEPT ![c] = Copy(i)]
    /\ UNCHANGED <<calls, queue, rows, seqNum, dedup, send, cand, room, held, histVars>>

ChangePut(c) ==
    /\ pc[c] = "change"
    /\ Put(cur[c].id, [cur[c].row EXCEPT !.hidden = TRUE])
    /\ pc' = [pc EXCEPT ![c] = "idle"] /\ cur' = [cur EXCEPT ![c] = None]
    /\ UNCHANGED <<calls, queue, seqNum, dedup, send, cand, room, held, rare, histVars>>

\* The function fails and the batch is left in flight, or DeleteMessages removes
\* the messages it has handled one by one, whoever has received them since.
Invoked(c) ==
    /\ pc[c] = "invoke"
    /\ \/ held[c] = {} /\ pc' = [pc EXCEPT ![c] = "idle"] /\ UNCHANGED <<rows, held, done>>
       \/ held' = [held EXCEPT ![c] = {}] /\ UNCHANGED <<pc, rows, done>>
       \/ \E i \in held[c] :
            /\ DeleteRow(i) /\ held' = [held EXCEPT ![c] = @ \ {i}]
            /\ done' = IF rows[i] = None THEN done ELSE done \cup {rows[i].body}
            /\ UNCHANGED pc
    /\ UNCHANGED <<calls, queue, seqNum, dedup, send, cand, cur, room, rare, used, handed,
                   prior, acks, stored, sends, slips>>

-----------------------------------------------------------------------------
(* The queue's own steps. *)

PurgeQueue(q) ==
    /\ Rarely
    /\ In(q) # {}
    /\ rows' = [i \in Ids |-> IF i \in In(q) THEN None ELSE rows[i]]
    /\ done' = done \cup {rows[i].body : i \in In(q)}
    /\ UNCHANGED <<calls, queue, seqNum, dedup, callVars, used, handed, prior,
                   acks, stored, sends, slips>>

\* A visibility timeout or a delay ends.
Expires(i) ==
    /\ rows[i] # None /\ rows[i].hidden
    /\ Put(i, [rows[i] EXCEPT !.hidden = FALSE])
    /\ UNCHANGED <<calls, queue, seqNum, dedup, callVars, rare, histVars>>

\* The process is killed and restarted: calls and seqNum are gone; a client keeps
\* the handles of a receive that had returned.
Crash ==
    /\ Rarely
    /\ seqNum' = 0 /\ acks' = {}
    /\ held' = [c \in Consumers |->
                   IF c \in Clients /\ pc[c] \in {"idle", "delete", "change"} THEN held[c] ELSE {}]
    /\ pc' = [p \in Processes |-> "idle"] /\ send' = [b \in Bodies |-> NoSend]
    /\ cand' = [c \in Consumers \cup {Mover} |-> {}]
    /\ cur' = [c \in Consumers \cup {Mover} |-> None]
    /\ room' = [c \in Consumers |-> 0]
    /\ UNCHANGED <<calls, queue, rows, dedup, used, handed, prior, stored, done, sends, slips>>

Next ==
    \/ \E b \in Bodies : \/ SendMessage(b) \/ Record(b) \/ SendPut(b)
                         \/ SendRaw(b) \/ DedupExpires(b)
    \/ \E c \in Consumers : \/ Receive(c) \/ Fetch(c) \/ Each(c)
                            \/ DeleteGet(c) \/ Delete(c) \/ ChangeGet(c) \/ ChangePut(c)
                            \/ Invoked(c)
    \/ \E x \in Consumers \cup {Mover} : MovePut(x) \/ MoveDelete(x)
    \/ StartMove
    \/ \E q \in {"src", "dlq"} : PurgeQueue(q)
    \/ \E i \in Ids : Expires(i)
    \/ Crash

Spec == Init /\ [][Next]_vars

-----------------------------------------------------------------------------
(* Properties. *)

Callers == Consumers \cup {Mover}
Entries == [id : Ids, row : Rows(maxReceive)]
Moving == {x \in Callers : pc[x] \in {"movePut", "moveDelete"}}

\* The variables have their types; no stored message was received more often
\* than the redrive policy allows.
TypeOK ==
    /\ fifo \in BOOLEAN /\ maxReceive \in Limits
    /\ rows \in [Ids -> Rows(maxReceive) \cup {None}]
    /\ seqNum \in 0..MaxSeq /\ dedup \subseteq Bodies
    /\ pc \in [Processes -> {"idle", "record", "put", "fetch", "each", "movePut",
                             "moveDelete", "delete", "change", "invoke"}]
    /\ send \in [Bodies -> [group : Groups \cup {None}, seq : 0..MaxSeq, prior : SUBSET Ids]]
    /\ cand \in [Callers -> SUBSET Entries] /\ cur = [x \in Callers |-> cur[x]]
    /\ held \in [Consumers -> SUBSET Ids] /\ room \in [Consumers -> 0..Batch]
    /\ rare \in 0..MaxRare /\ used \in 0..MaxId
    /\ handed \in [Ids -> 0..maxReceive] /\ prior \in [Ids -> SUBSET Ids]
    /\ acks \subseteq Ids /\ stored \subseteq Bodies /\ done \subseteq Bodies
    /\ sends \in [Bodies -> Nat] /\ slips \in [Bodies -> Nat]

\* Conservation: a body that was stored is in one of the queues until a consumer
\* that received it deletes it, or a purge does, whatever fails or crashes on
\* its way to the dead-letter queue and back.
NoMessageLost ==
    stored \subseteq done \cup {rows[i].body : i \in In("src") \cup In("dlq")}

\* Redrive: a message on its way to the dead-letter queue was handed out as often
\* as the policy says, once less if a poller moves it, although receives may
\* overlap and overwrite each other's count.
DeadLetterEarned ==
    \A c \in Consumers : pc[c] \in {"movePut", "moveDelete"} =>
        handed[cur[c].id] >= (IF c \in Clients THEN maxReceive ELSE maxReceive - 1)

\* Each kind of caller keeps to its own code and has what that code works on.
CallsShaped ==
    /\ \A b \in Bodies : pc[b] \in {"idle", "record", "put"}
    /\ \A c \in Consumers : pc[c] \notin {"record", "put"}
    /\ pc[Mover] \in {"idle", "movePut", "moveDelete"}
    /\ \A c \in Consumers :
          pc[c] \in {"fetch", "each", "movePut", "moveDelete"} => room[c] > 0
    /\ \A x \in Moving : cur[x] \in Entries
    /\ \A c \in Consumers :
          /\ pc[c] = "change" => cur[c] \in Entries /\ cur[c].row.handle # None
          /\ pc[c] = "delete" => cur[c].id \in Ids /\ cur[c].row.body \in Bodies

\* Bodies whose send goes on although their id is recorded: it could not be read.
Overlooked == {b \in dedup : pc[b] = "record"}

\* Deduplication: within a window a body is stored once, and once more only for
\* each call of the deduplication store that failed, however often it is retried
\* and the process crashes: whoever finds no id records it before the message is
\* put.
DedupSound ==
    /\ seqNum + Cardinality(Overlooked) <= Cardinality(dedup) + rare
    /\ \A b \in Bodies :
          LET excused == slips[b] + (IF b \in dedup THEN 1 ELSE 0)
          IN  /\ sends[b] <= excused
              /\ pc[b] = "record" => fifo /\ sends[b] <= slips[b]
              /\ pc[b] = "put" /\ fifo => sends[b] < excused

\* The rows there are, and the copies that calls have read and act upon.
AllCopies ==
    {Copy(i) : i \in {j \in Ids : rows[j] # None}} \cup (UNION {cand[x] : x \in Callers})
    \cup {cur[x] : x \in Moving \cup {c \in Consumers : pc[c] = "change"}}

\* What never changes of a message.
SameMessage(r, s) == r.q = s.q /\ r.body = s.body /\ r.group = s.group /\ r.seq = s.seq

\* Copies of one message differ in what receiving changes only, however stale
\* they are, and an id is not used again.
CopiesAgree ==
    LET all == AllCopies
    IN  /\ \A m, n \in all : m.id = n.id => SameMessage(m.row, n.row)
        /\ \A m \in all : m.id <= used
        /\ \A c \in Consumers : pc[c] = "delete" =>
              /\ cur[c].id <= used
              /\ \A m \in all : m.id = cur[c].id => m.row.body = cur[c].row.body

\* Whatever receives overwrite, no copy has a count, a handle or, in a group, a
\* timeout that its message was not handed out for.  (A message without a group
\* may have been sent with a delay.)
CountsEarned ==
    \A m \in AllCopies :
        /\ m.row.count <= handed[m.id]
        /\ m.row.handle # None => handed[m.id] > 0
        /\ fifo /\ m.row.group # None /\ handed[m.id] = 0 => ~m.row.hidden

\* Before a moved message is deleted a newer one has its body.
PutFirst ==
    \A x \in Callers : pc[x] = "moveDelete" =>
        \/ cur[x].row.body \in done
        \/ \E j \in Ids : j > cur[x].id /\ rows[j] # None /\ rows[j].body = cur[x].row.body

\* Sequence numbers grow from an acknowledged message to those of its group that
\* are sent later by the same process.
SeqsGrow ==
    LET all == AllCopies
    IN  /\ ~fifo => acks = {} /\ \A i \in Ids : prior[i] = {}
        /\ \A i \in acks : i <= used
        /\ \A i \in Ids : \A p \in prior[i] : p <= used /\ i <= used
        /\ \A b \in Bodies : send[b].prior \subseteq acks /\ send[b].seq <= seqNum
        /\ \A b \in Bodies : pc[b] # "idle" /\ fifo => send[b].group # None
        /\ \A m \in all : m.id \in acks => m.row.seq <= seqNum /\ m.row.q = "src"
        /\ \A b \in Bodies : pc[b] = "put" =>
              \A m \in all : m.id \in send[b].prior => m.row.seq < send[b].seq
        /\ \A m, n \in all : n.id \in prior[m.id] =>
              /\ n.row.seq < m.row.seq /\ n.row.group = m.row.group /\ n.row.q = "src"
              /\ n.row.group # None

\* A client's receive that has a message among its candidates has the earlier
\* ones of the group that nobody was given.
CandidatesComplete ==
    \A c \in Clients : \A m \in cand[c] : \A p \in prior[m.id] :
        rows[p] # None /\ handed[p] = 0 => Copy(p) \in cand[c]

\* The invariant of the queues, their senders and their consumers.
QueueInv ==
    /\ TypeOK /\ CallsShaped /\ DedupSound /\ CopiesAgree /\ CountsEarned
    /\ PutFirst /\ SeqsGrow /\ CandidatesComplete

\* Order in a group: when a client is first given a message, every message of its
\* group that was acknowledged before this one was sent, by the same process,
\* has been handed out or is gone.
FifoOrder ==
    [][\A i \in Ids :
          (/\ handed[i] = 0 /\ handed'[i] = 1
           /\ \E c \in Clients : i \in held'[c] \ held[c])
          => \A p \in prior[i] : rows[p] = None \/ handed[p] > 0]_vars

\* What SendMessage answers as a duplicate of a message that was sent is stored:
\* no send is acknowledged whose message there never was.
AcknowledgedIsStored ==
    \A b \in Bodies : fifo /\ b \in dedup /\ pc[b] = "idle" => b \in stored

\* "Returns true if the message is a duplicate" (store.go:423): nothing is stored
\* twice within its deduplication window.
StoredOnce == \A b \in Bodies : sends[b] <= 1

=============================================================================

----------------------------- MODULE EventStream -----------------------------
(* The event stream (GET /_overcast/events) and one of its clients: the replay
   of the history, the live tail behind a bounded channel, and the resume token
   with which the client comes back after its connection has dropped.

   Events are their sequence numbers.  The bus (module EventBus) is reduced to
   what the stream uses: numbered events, a bounded history that forgets one
   event whenever it is full, and deliveries that several workers complete in
   any order.  Frames are on the wire from the moment the handler writes them
   until the client reads them, and are lost with the connection.            *)

EXTENDS Integers, Sequences, FiniteSets, FiniteSetsExt

CONSTANTS
    Wanted,        \* the events the client's source filter lets through
    HistoryCap,    \* HistoryCapacity
    Buffer,        \* the capacity of the handler's channel
    MaxAhead,      \* maxPendingAhead
    MaxSeq,        \* bound: events of one run
    MaxRun,        \* bound: runs of the server
    MaxConn        \* bound: connections of the client

ASSUME StreamAssumption ==
    /\ Wanted \subseteq Nat
    /\ {HistoryCap, Buffer, MaxAhead, MaxRun} \subseteq Nat \ {0}
    /\ {MaxSeq, MaxConn} \subseteq Nat

VARIABLES
    \* --- the server
    run,           \* RunID
    seq, history,  \* the last number, and the events still buffered
    \* --- the connection's handler
    conn,          \* "off", "replay", "live"
    conns,         \* connections made
    resumeFrom,    \* the point the client named
    snapshot,      \* what is left of the snapshot
    highest,       \* highestSeq(snapshot)
    inflight,      \* deliveries that the bus's workers have not made yet
    ch,            \* the channel
    point, ahead,  \* resumeTracker
    wire,          \* frames: the event, and the point in its id
    \* --- the client
    token,         \* the last id it has read: a run and a point
    received,      \* the events of this run that it has read
    \* --- history variable
    given          \* events that a full tracker has jumped over

serverVars == <<run, seq, history>>
connVars == <<conn, conns, resumeFrom, snapshot, highest, inflight, ch, point,
              ahead, wire>>
clientVars == <<token, received>>
vars == <<serverVars, connVars, clientVars, given>>

Init ==
    /\ run = 1 /\ seq = 0 /\ history = {}
    /\ conn = "off" /\ conns = 0 /\ resumeFrom = 0 /\ snapshot = {} /\ highest = 0
    /\ inflight = {} /\ ch = <<>> /\ point = 0 /\ ahead = {} /\ wire = <<>>
    /\ token = [run |-> 1, point |-> 0] /\ received = {} /\ given = {}

-----------------------------------------------------------------------------
(* resumeTracker: the mark, and the events dealt with above it. *)

\* advanceTo: the end of the contiguous run that starts at n.
AdvanceTo(n, a) == Max({k \in n..(n + Cardinality(a)) : (n + 1)..k \subseteq a})

\* Mutant: the mark is the newest event seen.
SawNewest(s, p, a) == [point |-> Max({s, p}), ahead |-> {}]

\* saw, and reach when the bookkeeping is full.
Saw(s, p, a) ==
    LET a1 == a \cup {s}
        n  == IF s = p + 1 THEN s
              ELSE IF Cardinality(a1) > MaxAhead THEN Max(a1)
              ELSE p
        m  == AdvanceTo(n, a1)
    IN  IF s <= p THEN [point |-> p, ahead |-> a]
                  ELSE [point |-> m, ahead |-> {k \in a1 : k > m}]

Reach(n, p, a) ==
    LET m == AdvanceTo(n, a)
    IN  IF n <= p THEN [point |-> p, ahead |-> a]
                  ELSE [point |-> m, ahead |-> {k \in a : k > m}]

\* What a full tracker gives up: what is missing below the newest event seen.
GivenUp(s) ==
    LET seen == ahead \cup {s}
    IN  IF conn = "live" /\ s > point + 1 /\ Cardinality(seen) > MaxAhead
        THEN ((point + 1)..Max(seen)) \ seen ELSE {}

\* Mutant: no frame unless the mark, and so the id, has moved.
WriteNewIds(s) ==
    LET t == Saw(s, point, ahead)
    IN  /\ point' = t.point /\ ahead' = t.ahead
        /\ wire' = IF s \in Wanted /\ t.point > point
                   THEN Append(wire, [event |-> s, point |-> t.point]) ELSE wire
        /\ given' = given

\* writeSSEEvent
Write(s) ==
    LET t == Saw(s, point, ahead)
    IN  /\ point' = t.point /\ ahead' = t.ahead
        /\ wire' = IF s \in Wanted
                   THEN Append(wire, [event |-> s, point |-> t.point]) ELSE wire
        /\ given' = given \cup GivenUp(s)

-----------------------------------------------------------------------------
(* The bus. *)

\* Publish, and History.Append: room is made before the event goes in.
Publish ==
    /\ seq < MaxSeq
    /\ seq' = seq + 1
    /\ \E old \in SUBSET history :
         /\ Cardinality(old) = IF Cardinality(history) >= HistoryCap THEN 1 ELSE 0
         /\ history' = (history \ old) \cup {seq + 1}
    /\ inflight' = IF conn = "off" THEN {} ELSE inflight \cup {seq + 1}
    /\ UNCHANGED <<run, conn, conns, resumeFrom, snapshot, highest, ch, point,
                   ahead, wire, clientVars, given>>

\* A worker runs the handler's callback: a full channel drops the event.
Deliver(s) ==
    /\ s \in inflight
    /\ inflight' = inflight \ {s}
    /\ ch' = IF Len(ch) < Buffer THEN Append(ch, s) ELSE ch
    /\ UNCHANGED <<serverVars, conn, conns, resumeFrom, snapshot, highest, point,
                   ahead, wire, clientVars, given>>

-----------------------------------------------------------------------------
(* eventsHandler. *)

\* Mutant: the token is believed whichever run it is from.
ResumeAnyRun(t) == t.point

\* parseResumePoint
ParseResumePoint(t) == IF t.run = run THEN t.point ELSE 0

\* highestSeq
Highest(S) == IF S = {} THEN 0 ELSE Max(S)

\* The client connects: parseResumePoint and SnapshotAndSubscribeAll.
Connect ==
    /\ conn = "off" /\ conns < MaxConn
    /\ conn' = "replay" /\ conns' = conns + 1
    /\ resumeFrom' = ParseResumePoint(token)
    /\ snapshot' = history /\ highest' = Highest(history)
    /\ point' = 0 /\ ahead' = {}
    /\ UNCHANGED <<serverVars, inflight, ch, wire, clientVars, given>>

Backlog == {s \in snapshot : s > resumeFrom}

\* The next event of the snapshot that the client has not had.
Replay ==
    /\ conn = "replay" /\ Backlog # {}
    /\ LET s == Min(Backlog)
       IN  /\ Write(s)
           /\ snapshot' = snapshot \ {s}
    /\ UNCHANGED <<serverVars, conn, conns, resumeFrom, highest, inflight, ch,
                   clientVars>>

\* The end of the replay: progress.reach.
GoLive ==
    /\ conn = "replay" /\ Backlog = {}
    /\ conn' = "live" /\ snapshot' = {}
    /\ LET t == Reach(Max({resumeFrom, highest}), point, ahead)
       IN  point' = t.point /\ ahead' = t.ahead
    /\ UNCHANGED <<serverVars, conns, resumeFrom, highest, inflight, ch, wire,
                   clientVars, given>>

Live ==
    /\ conn = "live" /\ ch # <<>>
    /\ Write(Head(ch))
    /\ ch' = Tail(ch)
    /\ UNCHANGED <<serverVars, conn, conns, resumeFrom, snapshot, highest,
                   inflight, clientVars>>

\* What a connection leaves behind: nothing.
Closed ==
    /\ conn' = "off" /\ snapshot' = {} /\ inflight' = {} /\ ch' = <<>>
    /\ wire' = <<>> /\ point' = 0 /\ ahead' = {} /\ highest' = 0 /\ resumeFrom' = 0

\* The connection drops, or the client leaves: cancel.
Disconnect ==
    /\ conn # "off"
    /\ Closed
    /\ UNCHANGED <<serverVars, conns, clientVars, given>>

\* The server restarts: a new run, whose numbers start again.
Restart ==
    /\ run < MaxRun
    /\ run' = run + 1 /\ seq' = 0 /\ history' = {}
    /\ Closed
    /\ received' = {} /\ given' = {}
    /\ UNCHANGED <<conns, token>>

-----------------------------------------------------------------------------
(* The client. *)

Receive ==
    /\ wire # <<>>
    /\ LET f == Head(wire)
       IN  /\ received' = received \cup {f.event}
           /\ token' = [run |-> run, point |-> f.point]
    /\ wire' = Tail(wire)
    /\ UNCHANGED <<serverVars, conn, conns, resumeFrom, snapshot, highest,
                   inflight, ch, point, ahead, given>>

DeliverSome == \E s \in inflight : Deliver(s)

Next ==
    \/ Publish \/ DeliverSome
    \/ Connect \/ Replay \/ GoLive \/ Live \/ Disconnect \/ Restart
    \/ Receive

\* The handler goroutine, the workers and the client go on.
Fairness == WF_vars(Replay) /\ WF_vars(GoLive) /\ WF_vars(Live)
                /\ WF_vars(DeliverSome) /\ WF_vars(Receive)

Spec == Init /\ [][Next]_vars /\ Fairness

-----------------------------------------------------------------------------
(* Properties. *)

\* The variables have their types.
TypeOK ==
    /\ run \in 1..MaxRun /\ seq \in 0..MaxSeq
    /\ history \subseteq 1..seq /\ Cardinality(history) <= HistoryCap
    /\ conn \in {"off", "replay", "live"} /\ conns \in 0..MaxConn
    /\ {resumeFrom, highest, point} \subseteq 0..seq
    /\ snapshot \subseteq 1..seq /\ inflight \subseteq 1..seq /\ ahead \subseteq 1..seq
    /\ ch \in Seq(1..seq) /\ Len(ch) <= Buffer
    /\ wire \in Seq([event : 1..seq, point : 0..seq])
    /\ token \in [run : 1..run, point : 0..MaxSeq]
    /\ received \subseteq 1..seq /\ given \subseteq 1..seq

\* A client that comes back loses nothing that the history still has: an event
\* it wants and has not read is above the point its token names, however the
\* workers reordered, the channel dropped, the history forgot and the
\* connection cut off before.  The tracker gives events up only when it is full.
NothingStranded ==
    \A s \in (history \cap Wanted) \ (received \cup given) : s > ParseResumePoint(token)

\* Where an event of this connection may be: on its way, or written.
Waiting == inflight \cup {ch[i] : i \in DOMAIN ch}
Written == {wire[i].event : i \in DOMAIN wire}

\* The point in a frame covers nothing that is still to come on its connection,
\* other than what a full tracker has given up.
MarkIsContiguous == (Waiting \cup Backlog) \cap (1..point) \subseteq given

\* Replay and live tail meet without an overlap: nothing reaches a connection
\* twice.
OncePerConnection ==
    /\ snapshot \cap Waiting = {}
    /\ Backlog \cap Written = {} /\ Waiting \cap Written = {}
    /\ \A i, j \in DOMAIN wire : wire[i].event = wire[j].event => i = j

\* The invariant of a connection.
StreamInv == TypeOK /\ MarkIsContiguous /\ OncePerConnection

-----------------------------------------------------------------------------
(* The inductive invariant behind StreamInv and NothingStranded. *)

\* The newest event is in the history, so that the snapshot ends where the live
\* tail begins, and the points of a run stay within it.
Meeting ==
    /\ seq > 0 => seq \in history
    /\ token.run = run => token.point <= seq
    /\ resumeFrom <= highest /\ snapshot \subseteq 1..highest
    /\ \A s \in Waiting : s > highest
    /\ conn = "off" => /\ inflight = {} /\ ch = <<>> /\ wire = <<>>
                       /\ point = 0 /\ ahead = {}
    /\ conn # "replay" => snapshot = {}

\* An event waits in one place, and not once the tracker has seen it.
WaitsOnce ==
    /\ \A i, j \in DOMAIN ch : ch[i] = ch[j] => i = j
    /\ \A i \in DOMAIN ch : ch[i] \notin inflight
    /\ Waiting \cap ahead = {}

\* The replay goes up: what it has dealt with is below what it has yet to write.
InOrder ==
    conn = "replay" =>
        \A s \in ahead \cup Written \cup {point} :
            s <= highest /\ \A b \in Backlog : s < b

\* An event that the client has read, will read on this connection, or has lost
\* to a full tracker; and one that it has coming.
Dealt == received \cup given \cup Written
Owed == history \cap Wanted

\* What the connection began after, what the mark covers and what the tracker
\* has seen is dealt with, apart from the backlog; and a frame's point covers
\* what is dealt with by the time the client reads it.
Accounted ==
    /\ \A s \in Owed : s <= highest => s \in Dealt \cup Backlog
    /\ \A s \in Owed : (s <= point \/ s \in ahead) => s \in Dealt
    /\ \A i \in DOMAIN wire : \A s \in Owed : s <= wire[i].point =>
           s \in received \cup given \cup {wire[j].event : j \in 1..i}

ResumeInv == /\ StreamInv /\ NothingStranded
             /\ Meeting /\ WaitsOnce /\ InOrder /\ Accounted

\* What was in the history when a client connected reaches it, unless the
\* connection ends first.
BacklogArrives ==
    \A s \in Wanted : (conn = "replay" /\ s \in Backlog) ~> (s \in received \/ conn = "off")

=============================================================================

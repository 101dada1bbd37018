---------------------------- MODULE EventStream ----------------------------
(* The live events of the panel: EventStreamBroker (application/event_stream.py) with
   its bounded replay and queue, EventStreamView (realtime_api.py) that writes them
   to one client, the connection, and the client of the panel
   (frontend/hausman-hub-pagination.js) that comes back with its cursor.

   Events are numbered in the order of publishing, over all brokers: an identifier of
   an earlier broker, of a hello, a heartbeat or a gap notice is in no replay, and is
   the number 0.  A handler that its client has left only fills a queue that nobody
   reads, and is left out.                                                      *)

EXTENDS Integers, Sequences

CONSTANTS None,          \* no cursor; no message that is being processed
          QueueSize,     \* EVENT_STREAM_QUEUE_SIZE, of a subscriber
          ReplaySize,    \* EVENT_STREAM_REPLAY_SIZE, and of the client's memory
          ClientQueue,   \* SSE_DELIVERY_QUEUE_LIMIT
          WireSize,      \* messages that the connection holds
          MaxEvents, MaxDrops, MaxCloses

ASSUME StreamAssumption ==
    /\ QueueSize \in Nat \ {0} /\ ReplaySize \in Nat \ {0} /\ ClientQueue \in Nat \ {0}
    /\ WireSize \in Nat \ {0}
    /\ MaxEvents \in Nat /\ MaxDrops \in Nat /\ MaxCloses \in Nat
    /\ None \notin Int

Events == 1..MaxEvents
Ids == 0..MaxEvents

\* A gap notice stands for the events up to a number.
Messages == [kind : {"event", "gap", "session", "end"}, id : Ids, upto : Ids]

Event(n) == [kind |-> "event", id |-> n, upto |-> 0]
Gap(id, upto) == [kind |-> "gap", id |-> id, upto |-> upto]
Session == [kind |-> "session", id |-> 0, upto |-> 0]     \* hello, heartbeat
End == [kind |-> "end", id |-> 0, upto |-> 0]             \* the None of close

VARIABLES up,          \* the entry's broker is open
          published, oldest,   \* the last event, the oldest one of _replay
          conn,        \* the connection, at the await of its handler
          asked,       \* its Last-Event-ID
          missed,      \* the events that no replay gives it: None, or up to this one
          queue,       \* its queue in the broker
          wire,        \* what was written and not read
          cursor, pending, busy, seen,   \* the client; busy: the event in its handler
          drops, closes,
          \* observation only:
          owed,        \* events the client has to get, or to be told of
          handled, repeated

broker == <<up, published, oldest>>
session == <<conn, asked, missed>>
client == <<cursor, pending, busy, seen>>
bounds == <<drops, closes>>
observed == <<owed, handled, repeated>>
vars == <<broker, session, queue, wire, client, bounds, observed>>

\* Its queue is one of the broker's: the last message of a closed one is its end.
Subscribed == conn \in {"hello", "gap", "loop"} /\ (queue = <<>> \/ queue[Len(queue)] # End)

TypeOK ==
    /\ up \in BOOLEAN /\ published \in Ids /\ oldest \in 1..(MaxEvents + 1)
    /\ conn \in {"none", "prepare", "hello", "gap", "loop", "over"}
    /\ {asked, missed} \subseteq Ids \union {None}
    /\ queue \in Seq(Messages) /\ Len(queue) <= QueueSize
    /\ wire \in Seq(Messages) /\ Len(wire) <= WireSize
    /\ cursor \in Ids \union {None}
    /\ pending \in Seq(Messages) /\ Len(pending) <= ClientQueue
    /\ busy \in Ids \union {None}
    /\ seen \in Seq(Ids) /\ Len(seen) <= ReplaySize
    /\ drops \in 0..MaxDrops /\ closes \in 0..MaxCloses
    /\ {owed, handled, repeated} \subseteq SUBSET Events

Init ==
    /\ up = TRUE /\ published = 0 /\ oldest = 1
    /\ conn = "none" /\ asked = None /\ missed = None
    /\ queue = <<>> /\ wire = <<>>
    /\ cursor = None /\ pending = <<>> /\ busy = None /\ seen = <<>>
    /\ drops = 0 /\ closes = 0
    /\ owed = {} /\ handled = {} /\ repeated = {}

---------------------------------------------------------------------------
(* The broker.                                                               *)

\* Mutant of Queued: a full queue loses its oldest message.
QueuedSilently(n) ==
    IF Len(queue) >= QueueSize THEN Append(Tail(queue), Event(n)) ELSE Append(queue, Event(n))

\* A full queue is emptied, and the event replaced by a gap notice with its identifier.
Queued(n) ==
    IF Len(queue) >= QueueSize THEN <<Gap(n, n)>> ELSE Append(queue, Event(n))

\* publish.  What happens in the house while the entry is down is no event, but the
\* client has to learn of it, too.
Publish ==
    /\ published < MaxEvents
    /\ published' = published + 1
    /\ oldest' = IF up /\ published + 1 - oldest >= ReplaySize THEN oldest + 1 ELSE oldest
    /\ queue' = IF Subscribed THEN Queued(published + 1) ELSE queue
    /\ owed' = IF Subscribed \/ cursor # None THEN owed \union {published + 1} ELSE owed
    /\ UNCHANGED <<up, session, wire, client, bounds, handled, repeated>>

\* The end takes the place of the oldest message of a full queue; who subscribes later
\* meets a closed broker.
Closed ==
    /\ queue' = IF ~Subscribed THEN queue
                ELSE Append(IF Len(queue) >= QueueSize THEN Tail(queue) ELSE queue, End)
    /\ conn' = IF conn = "prepare" THEN "none" ELSE conn
    /\ UNCHANGED <<asked, missed>>

\* clear_event_stream, at the unload or before a reload
Close ==
    /\ up /\ closes < MaxCloses
    /\ up' = FALSE /\ closes' = closes + 1
    /\ Closed
    /\ UNCHANGED <<published, oldest, wire, client, drops, observed>>

\* register_event_stream: a new broker, with a stream of its own.
Setup ==
    /\ ~up
    /\ up' = TRUE
    /\ oldest' = published + 1
    /\ UNCHANGED <<published, session, queue, wire, client, bounds, observed>>

---------------------------------------------------------------------------
(* The handler of a connection: EventStreamView.get.                         *)

Retained(id) == id \in oldest..published

\* _resume_window: the cursor is in the replay, and the queue holds what came after it.
Resumable(id) == id = None \/ (Retained(id) /\ published - id <= QueueSize)

Replay(id) ==
    IF id # None /\ Resumable(id)
      THEN [i \in 1..(published - id) |-> Event(id + i)] ELSE <<>>

\* connect(cursor); without a runtime the request is refused, and comes again.
Connect ==
    /\ conn = "none" /\ up
    /\ conn' = "prepare" /\ asked' = cursor
    /\ UNCHANGED <<broker, missed, queue, wire, client, bounds, observed>>

\* subscribe_with_resume.  A client without a cursor gets no replay and no notice: what
\* it has not got is the business of its first snapshot.
Subscribe ==
    /\ conn = "prepare"
    /\ conn' = "hello"
    /\ missed' = IF Resumable(asked) THEN None ELSE published
    /\ queue' = Replay(asked)
    /\ owed' = IF asked = None THEN {} ELSE owed
    /\ UNCHANGED <<broker, asked, wire, client, bounds, handled, repeated>>

Write(m) == Len(wire) < WireSize /\ wire' = Append(wire, m)

WriteHello ==
    /\ conn = "hello"
    /\ Write(Session)
    /\ conn' = IF missed = None THEN "loop" ELSE "gap"
    /\ UNCHANGED <<broker, asked, missed, queue, client, bounds, observed>>

WriteGap ==
    /\ conn = "gap"
    /\ Write(Gap(0, missed))
    /\ conn' = "loop"
    /\ UNCHANGED <<broker, asked, missed, queue, client, bounds, observed>>

\* queue.get and the write of what it gave; the end ends the response.
WriteNext ==
    /\ conn = "loop" /\ queue # <<>>
    /\ queue' = Tail(queue)
    /\ IF Head(queue) = End
         THEN conn' = "over" /\ UNCHANGED wire
         ELSE Write(Head(queue)) /\ UNCHANGED conn
    /\ UNCHANGED <<broker, asked, missed, client, bounds, observed>>

\* Nothing came for a while.
Heartbeat ==
    /\ conn = "loop" /\ queue = <<>> /\ wire = <<>>
    /\ Write(Session)
    /\ UNCHANGED <<broker, session, queue, client, bounds, observed>>

\* The connection is closed, by either side, and the client waits to reconnect.
Closes == conn' = "none" /\ queue' = <<>> /\ wire' = <<>> /\ UNCHANGED <<asked, missed>>

Drop ==
    /\ conn # "none" /\ drops < MaxDrops
    /\ drops' = drops + 1
    /\ Closes
    /\ UNCHANGED <<broker, client, closes, observed>>

\* The client has read the end of the response.
Ended ==
    /\ conn = "over" /\ wire = <<>>
    /\ Closes
    /\ UNCHANGED <<broker, client, bounds, observed>>

---------------------------------------------------------------------------
(* The client: createEventStreamClient.  Its pump processes one message at a time, and
   awaits onDomainEvent.                                                      *)

\* rememberSeen
Remembered(ids, id) ==
    LET all == Append(ids, id) IN IF Len(all) > ReplaySize THEN Tail(all) ELSE all

Knows(ids, id) == \E i \in 1..Len(ids) : ids[i] = id

\* Mutant of Processed: an event that was seen is handled again.
ProcessedAgain(m, at, ids) ==
    /\ cursor' = IF m.kind = "event" THEN at ELSE m.id
    /\ seen' = IF m.kind = "event" THEN ids ELSE Remembered(ids, m.id)
    /\ busy' = IF m.kind = "event" THEN m.id ELSE 0
    /\ owed' = owed \ (IF m.kind = "event" THEN {m.id} ELSE IF m.kind = "gap" THEN 1..m.upto ELSE {})
    /\ handled' = IF m.kind = "event" THEN handled \union {m.id} ELSE handled
    /\ repeated' = IF m.kind = "event" THEN repeated \union (handled \intersect {m.id}) ELSE repeated

\* process, up to its await, of a client at a cursor: what was seen is left aside, an
\* event goes to its handler, and its identifier becomes the cursor when that is over.
Processed(m, at, ids) ==
    IF m.id # 0 /\ Knows(ids, m.id)
      THEN /\ cursor' = at /\ seen' = ids /\ busy' = 0
           /\ UNCHANGED observed
    ELSE IF m.kind = "event"
      THEN /\ cursor' = at /\ seen' = ids /\ busy' = m.id
           /\ owed' = owed \ {m.id}
           /\ handled' = handled \union {m.id}
           /\ repeated' = repeated \union (handled \intersect {m.id})
      ELSE /\ cursor' = m.id /\ seen' = Remembered(ids, m.id) /\ busy' = 0
           /\ owed' = IF m.kind = "gap" THEN owed \ (1..m.upto) ELSE owed
           /\ UNCHANGED <<handled, repeated>>

\* A message arrives, and is processed at once if the pump is idle.
Read ==
    /\ wire # <<>>
    /\ \/ /\ busy = None
          /\ Processed(Head(wire), cursor, seen) /\ UNCHANGED pending
       \/ /\ busy # None /\ Len(pending) < ClientQueue
          /\ pending' = Append(pending, Head(wire))
          /\ UNCHANGED <<cursor, busy, seen, observed>>
    /\ wire' = Tail(wire)
    /\ UNCHANGED <<broker, session, queue, bounds>>

\* handleOverflow: what is waiting is given up, and the snapshot refreshed.
Overflow ==
    /\ wire # <<>> /\ busy # None /\ Len(pending) >= ClientQueue
    /\ pending' = <<>> /\ cursor' = None
    /\ Closes
    /\ owed' = {}
    /\ UNCHANGED <<broker, busy, seen, bounds, handled, repeated>>

\* The handler is over, and the next message is processed.
Pump ==
    /\ busy # None
    /\ LET at == IF busy = 0 THEN cursor ELSE busy
           ids == IF busy = 0 THEN seen ELSE Remembered(seen, busy)
       IN  IF pending = <<>>
             THEN /\ cursor' = at /\ seen' = ids /\ busy' = None
                  /\ UNCHANGED <<pending, observed>>
             ELSE Processed(Head(pending), at, ids) /\ pending' = Tail(pending)
    /\ UNCHANGED <<broker, session, queue, wire, bounds>>

Next ==
    \/ Publish \/ Close \/ Setup
    \/ Connect \/ Subscribe \/ WriteHello \/ WriteGap \/ WriteNext \/ Heartbeat
    \/ Drop \/ Ended
    \/ Read \/ Overflow \/ Pump

Spec == Init /\ [][Next]_vars

\* The event loops of both sides go on, the connection carries what it holds, handlers
\* end, the client reconnects, and an entry that was unloaded is set up again.
FairSpec ==
    /\ Spec
    /\ WF_vars(Setup) /\ WF_vars(Connect) /\ WF_vars(Subscribe)
    /\ WF_vars(WriteHello \/ WriteGap \/ WriteNext) /\ WF_vars(Ended)
    /\ WF_vars(Read \/ Overflow) /\ WF_vars(Pump)

---------------------------------------------------------------------------
(* Properties.                                                               *)

\* "A repeated event ID makes no second notice" (CHANGELOG.md): no event goes to
\* onDomainEvent twice, although a replay overlaps what the client still has waiting and
\* the client remembers the last ReplaySize identifiers only.
HandledOnce == repeated = {}

\* "A long break does not hide lost events" (CHANGELOG.md): every event since the client
\* had a cursor or a subscription reaches it, or a gap notice for it does, however often
\* it is disconnected or too slow, and across a reload of the entry.
EventsArrive == \A n \in Events : n \in owed ~> n \notin owed
=============================================================================

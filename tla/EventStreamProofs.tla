------------------------- MODULE EventStreamProofs -------------------------
(* No event is lost silently: a client that is subscribed, and has processed whatever
   waits for it, is owed nothing.  For any sizes of the replay, of the queues and of
   the connection, any number of events, lost connections and reloads.          *)

EXTENDS EventStream, TLAPS

USE StreamAssumption DEF Ids, Events

---------------------------------------------------------------------------
(* Types.                                                                    *)

\* What a call makes of the messages.
LEMMA MessageFacts ==
    /\ Session \in Messages /\ End \in Messages
    /\ \A n \in Ids : Event(n) \in Messages
    /\ \A n, upto \in Ids : Gap(n, upto) \in Messages
  BY DEF Messages, Session, End, Event, Gap

LEMMA ReplayFacts ==
    ASSUME TypeOK, asked # None, Resumable(asked)
    PROVE  /\ Replay(asked) \in Seq(Messages)
           /\ Len(Replay(asked)) = published - asked
           /\ published - asked \in 0..QueueSize
           /\ \A i \in 1..(published - asked) :
                Replay(asked)[i] = Event(asked + i) /\ asked + i \in Events
<1>1. asked \in Ids /\ asked <= published /\ published - asked \in 0..QueueSize
  BY DEF TypeOK, Resumable, Retained
<1>2. \A i \in 1..(published - asked) : asked + i \in Events /\ Event(asked + i) \in Messages
  BY <1>1, MessageFacts DEF TypeOK
<1>3. Replay(asked) = [i \in 1..(published - asked) |-> Event(asked + i)]
  BY DEF Replay
<1> QED
  BY <1>1, <1>2, <1>3

LEMMA NoReplay ==
    ASSUME asked = None \/ ~Resumable(asked)
    PROVE  Replay(asked) = <<>>
  BY DEF Replay

LEMMA RememberedFacts ==
    ASSUME NEW ids \in Seq(Ids), Len(ids) <= ReplaySize, NEW id \in Ids
    PROVE  /\ Remembered(ids, id) \in Seq(Ids)
           /\ Len(Remembered(ids, id)) <= ReplaySize
           /\ \A i \in 1..Len(Remembered(ids, id)) :
                \/ Remembered(ids, id)[i] = id
                \/ \E j \in 1..Len(ids) : Remembered(ids, id)[i] = ids[j]
<1>1. /\ Append(ids, id) \in Seq(Ids) /\ Len(Append(ids, id)) = Len(ids) + 1
      /\ \A i \in 1..Len(ids) : Append(ids, id)[i] = ids[i]
      /\ Append(ids, id)[Len(ids) + 1] = id
  OBVIOUS
<1>2. CASE Len(ids) + 1 > ReplaySize
  <2>1. Remembered(ids, id) = Tail(Append(ids, id))
    BY <1>1, <1>2 DEF Remembered
  <2>2. /\ Tail(Append(ids, id)) \in Seq(Ids) /\ Len(Tail(Append(ids, id))) = Len(ids)
        /\ \A i \in 1..Len(ids) : Tail(Append(ids, id))[i] = Append(ids, id)[i + 1]
    BY <1>1
  <2> QED
    BY <1>1, <2>1, <2>2
<1>3. CASE ~(Len(ids) + 1 > ReplaySize)
  BY <1>1, <1>3 DEF Remembered
<1> QED
  BY <1>2, <1>3

LEMMA ProcessedTypes ==
    ASSUME NEW m \in Messages, NEW at \in Ids \union {None},
           NEW ids \in Seq(Ids), Len(ids) <= ReplaySize,
           {owed, handled, repeated} \subseteq SUBSET Events,
           m.kind = "event" => m.id # 0,
           Processed(m, at, ids)
    PROVE  /\ cursor' \in Ids \union {None} /\ busy' \in Ids \union {None}
           /\ seen' \in Seq(Ids) /\ Len(seen') <= ReplaySize
           /\ {owed', handled', repeated'} \subseteq SUBSET Events
<1>1. m.id \in Ids /\ m.upto \in Ids
  BY DEF Messages
<1>2. Remembered(ids, m.id) \in Seq(Ids) /\ Len(Remembered(ids, m.id)) <= ReplaySize
  BY <1>1, RememberedFacts
<1>3. /\ cursor' \in Ids \union {None} /\ busy' \in Ids \union {None}
      /\ seen' \in Seq(Ids) /\ Len(seen') <= ReplaySize
  BY <1>1, <1>2 DEF Processed
<1>4. owed' \subseteq owed /\ handled' \subseteq handled \union {m.id}
      /\ repeated' \subseteq repeated \union handled
      /\ (m.kind # "event" => handled' = handled)
  BY DEF Processed, observed
<1> QED
  BY <1>1, <1>3, <1>4

---------------------------------------------------------------------------
(* The invariant.                                                            *)

\* A message of the first n events.
Fits(m, n) ==
    /\ m.kind = "event" => m.id \in 1..n
    /\ m.kind = "gap" => m.upto <= n /\ m.id \in {0, m.upto}
    /\ m.kind \in {"session", "end"} => m.id = 0

AllFit(s, n) == \A i \in 1..Len(s) : Fits(s[i], n)

Shapes == AllFit(pending, published) /\ AllFit(wire, published) /\ AllFit(queue, published)

Marks ==
    /\ \A c \in {cursor, busy, asked, missed} : c # None => c <= published
    /\ \A i \in 1..Len(seen) : seen[i] <= published /\ seen[i] \notin owed
    /\ busy \notin owed
    /\ \A n \in owed : n <= published
    /\ conn = "prepare" => up
    /\ conn = "gap" => missed # None
    /\ busy = None => pending = <<>>

\* No message before the i-th one of the sequence has the identifier g.
Before(s, i, g) == \A j \in 1..(i - 1) : s[j].id # g

\* The notice of an overflow comes before its event, if that comes at all: it is not
\* left aside as one that was seen.
NewToClient(g) == busy # g /\ \A i \in 1..Len(seen) : seen[i] # g

Fresh ==
    /\ \A i \in 1..Len(pending) : pending[i].kind = "gap" /\ pending[i].id # 0 =>
         /\ NewToClient(pending[i].id)
         /\ Before(pending, i, pending[i].id)
    /\ \A i \in 1..Len(wire) : wire[i].kind = "gap" /\ wire[i].id # 0 =>
         /\ NewToClient(wire[i].id)
         /\ Before(pending, Len(pending) + 1, wire[i].id)
         /\ Before(wire, i, wire[i].id)
    /\ \A i \in 1..Len(queue) : queue[i].kind = "gap" /\ queue[i].id # 0 =>
         /\ NewToClient(queue[i].id)
         /\ Before(pending, Len(pending) + 1, queue[i].id)
         /\ Before(wire, Len(wire) + 1, queue[i].id)
         /\ Before(queue, i, queue[i].id)

\* The message brings the event n, or tells of it; so does one of the first k.
Covers(m, n) == (m.kind = "event" /\ m.id = n) \/ (m.kind = "gap" /\ n <= m.upto)
Within(s, k, n) == \E i \in 1..k : Covers(s[i], n)
All(s, n) == Within(s, Len(s), n)
Told(n) == conn \in {"hello", "gap"} /\ missed # None /\ n <= missed

\* The broker of the entry still knows the identifier as one of its own.
Useful(c) == up /\ c # None /\ oldest <= c

\* What an identifier stands for may be forgotten when it is the cursor: whatever the
\* client is owed up to there waits in it, or comes before it.
BehindClient == \A n \in owed :
    /\ Useful(cursor) /\ n <= cursor => All(pending, n)
    /\ Useful(busy) /\ n <= busy => All(pending, n)
    /\ \A i \in 1..Len(pending) : Useful(pending[i].id) /\ n <= pending[i].id => All(pending, n)
    /\ conn = "prepare" /\ Useful(asked) /\ n <= asked => All(pending, n)

BehindWire == \A n \in owed, i \in 1..Len(wire) :
    Useful(wire[i].id) /\ n <= wire[i].id => All(pending, n) \/ Within(wire, i, n)

BehindQueue == \A n \in owed, i \in 1..Len(queue) :
    Useful(queue[i].id) /\ n <= queue[i].id =>
        All(pending, n) \/ All(wire, n) \/ Told(n) \/ Within(queue, i, n)

\* What a subscriber is owed is on its way.
OnItsWay == \A n \in owed :
    Subscribed => All(pending, n) \/ All(wire, n) \/ Told(n) \/ All(queue, n)

IInv == TypeOK /\ Shapes /\ Marks /\ Fresh
        /\ BehindClient /\ BehindWire /\ BehindQueue /\ OnItsWay

---------------------------------------------------------------------------
(* Sequences of messages.                                                    *)

LEMMA Appended ==
    ASSUME NEW s \in Seq(Messages), NEW m \in Messages
    PROVE  /\ Append(s, m) \in Seq(Messages)
           /\ Len(Append(s, m)) = Len(s) + 1
           /\ \A i \in 1..Len(s) : Append(s, m)[i] = s[i]
           /\ Append(s, m)[Len(s) + 1] = m
           /\ \A n : All(Append(s, m), n) <=> All(s, n) \/ Covers(m, n)
           /\ \A n : \A k \in 1..Len(s) : Within(Append(s, m), k, n) <=> Within(s, k, n)
<1>1. /\ Append(s, m) \in Seq(Messages) /\ Len(Append(s, m)) = Len(s) + 1
      /\ \A i \in 1..Len(s) : Append(s, m)[i] = s[i]
      /\ Append(s, m)[Len(s) + 1] = m
  OBVIOUS
<1>2. Len(s) \in Nat
  OBVIOUS
<1>3. \A n : \A k \in 1..Len(s) : Within(Append(s, m), k, n) <=> Within(s, k, n)
  BY <1>1, <1>2 DEF Within
<1>4. \A n : All(Append(s, m), n) <=> All(s, n) \/ Covers(m, n)
  BY <1>1, <1>2 DEF Within, All
<1> QED
  BY <1>1, <1>3, <1>4

LEMMA Tailed ==
    ASSUME NEW s \in Seq(Messages), s # <<>>
    PROVE  /\ Head(s) \in Messages /\ Head(s) = s[1]
           /\ Tail(s) \in Seq(Messages)
           /\ Len(s) \in Nat \ {0} /\ Len(Tail(s)) = Len(s) - 1
           /\ \A i \in 1..Len(Tail(s)) : Tail(s)[i] = s[i + 1] /\ i + 1 \in 1..Len(s)
           /\ \A n : All(s, n) <=> Covers(Head(s), n) \/ All(Tail(s), n)
           /\ \A n : Within(s, 1, n) <=> Covers(Head(s), n)
           /\ \A n : \A k \in 1..Len(Tail(s)) :
                Within(s, k + 1, n) <=> Covers(Head(s), n) \/ Within(Tail(s), k, n)
<1>1. /\ Head(s) \in Messages /\ Head(s) = s[1]
      /\ Tail(s) \in Seq(Messages)
      /\ Len(s) \in Nat \ {0} /\ Len(Tail(s)) = Len(s) - 1
      /\ \A i \in 1..Len(Tail(s)) : Tail(s)[i] = s[i + 1]
  OBVIOUS
<1>2. \A n : \A k \in 0..Len(Tail(s)) :
         Within(s, k + 1, n) <=> Covers(Head(s), n) \/ Within(Tail(s), k, n)
  <2> TAKE n
  <2> TAKE k \in 0..Len(Tail(s))
  <2>1. ASSUME Within(s, k + 1, n)
        PROVE  Covers(Head(s), n) \/ Within(Tail(s), k, n)
    <3>1. PICK i \in 1..(k + 1) : Covers(s[i], n)
      BY <2>1 DEF Within
    <3>2. CASE i = 1
      BY <1>1, <3>1, <3>2
    <3>3. CASE i # 1
      <4>1. i - 1 \in 1..k /\ Tail(s)[i - 1] = s[i]
        BY <1>1, <3>3
      <4> QED
        BY <3>1, <4>1 DEF Within
    <3> QED
      BY <3>2, <3>3
  <2>2. ASSUME Covers(Head(s), n)
        PROVE  Within(s, k + 1, n)
    BY <1>1, <2>2 DEF Within
  <2>3. ASSUME Within(Tail(s), k, n)
        PROVE  Within(s, k + 1, n)
    <3>1. PICK i \in 1..k : Covers(Tail(s)[i], n)
      BY <2>3 DEF Within
    <3>2. i + 1 \in 1..(k + 1) /\ Tail(s)[i] = s[i + 1]
      BY <1>1
    <3> QED
      BY <3>1, <3>2 DEF Within
  <2> QED
    BY <2>1, <2>2, <2>3
<1>3. \A n : Within(s, 1, n) <=> Covers(Head(s), n)
  BY <1>1 DEF Within
<1>4. \A n : All(s, n) <=> Covers(Head(s), n) \/ All(Tail(s), n)
  <2>1. Len(Tail(s)) \in 0..Len(Tail(s)) /\ Len(Tail(s)) + 1 = Len(s)
    BY <1>1
  <2> QED
    BY <1>2, <2>1 DEF All
<1>5. \A n : \A k \in 1..Len(Tail(s)) :
         Within(s, k + 1, n) <=> Covers(Head(s), n) \/ Within(Tail(s), k, n)
  BY <1>1, <1>2
<1>6. \A i \in 1..Len(Tail(s)) : i + 1 \in 1..Len(s)
  BY <1>1
<1> QED
  BY <1>1, <1>3, <1>4, <1>5, <1>6

LEMMA Nowhere == \A n : ~All(<<>>, n)
  BY DEF All, Within

LEMMA Whole ==
    ASSUME NEW s \in Seq(Messages), NEW n, NEW i \in 1..Len(s), Within(s, i, n)
    PROVE  All(s, n)
  BY DEF All, Within

LEMMA Lengths ==
    ASSUME TypeOK
    PROVE  Len(pending) \in Nat /\ Len(wire) \in Nat /\ Len(queue) \in Nat /\ Len(seen) \in Nat
  BY DEF TypeOK

LEMMA CoverFacts ==
    ASSUME NEW m \in Messages, NEW n \in Ids
    PROVE  /\ m.kind \in {"session", "end"} => ~Covers(m, n)
           /\ m.kind = "event" => (Covers(m, n) <=> m.id = n)
           /\ m.kind = "gap" => (Covers(m, n) <=> n <= m.upto)
           /\ m.kind \in {"event", "gap", "session", "end"}
           /\ m.id \in Ids /\ m.upto \in Ids
  BY DEF Covers, Messages

---------------------------------------------------------------------------
(* The steps.                                                                *)

\* What an invariant says of the messages, in the form the steps use.
LEMMA MessagesFit ==
    ASSUME TypeOK, Shapes
    PROVE  /\ \A i \in 1..Len(pending) : pending[i] \in Messages /\ Fits(pending[i], published)
                                         /\ pending[i].id \in 0..published
           /\ \A i \in 1..Len(wire) : wire[i] \in Messages /\ Fits(wire[i], published)
                                      /\ wire[i].id \in 0..published
           /\ \A i \in 1..Len(queue) : queue[i] \in Messages /\ Fits(queue[i], published)
                                       /\ queue[i].id \in 0..published
<1>1. \A m \in Messages : Fits(m, published) => m.id \in 0..published
  BY DEF Fits, Messages, TypeOK
<1>2. /\ \A i \in 1..Len(pending) : pending[i] \in Messages
      /\ \A i \in 1..Len(wire) : wire[i] \in Messages
      /\ \A i \in 1..Len(queue) : queue[i] \in Messages
  BY DEF TypeOK
<1> QED
  BY <1>1, <1>2 DEF Shapes, AllFit

LEMMA InitStep == Init => IInv
<1> SUFFICES ASSUME Init PROVE IInv
  OBVIOUS
<1>1. TypeOK
  BY DEF Init, TypeOK
<1>2. Shapes /\ Marks /\ Fresh
  BY DEF Init, Shapes, AllFit, Marks, Fresh
<1>3. BehindClient /\ BehindWire /\ BehindQueue /\ OnItsWay
  BY DEF Init, BehindClient, BehindWire, BehindQueue, OnItsWay
<1> QED
  BY <1>1, <1>2, <1>3 DEF IInv

LEMMA SetupStep ==
    ASSUME IInv, Setup
    PROVE  IInv'
<1>1. TypeOK'
  BY DEF IInv, TypeOK, Setup, session, client, bounds, observed
<1>2. Shapes' /\ Marks' /\ Fresh'
  BY DEF IInv, Shapes, Marks, Fresh, NewToClient, Setup, session, client, bounds, observed
<1>3. \A c \in 0..published : ~Useful(c)'
  BY DEF IInv, TypeOK, Setup, Useful
<1>4. BehindClient'
  BY <1>3, MessagesFit
  DEF IInv, BehindClient, Marks, TypeOK, Useful, Setup, session, client, bounds, observed
<1>5. BehindWire' /\ BehindQueue'
  BY <1>3, MessagesFit
  DEF IInv, BehindWire, BehindQueue, Setup, session, client, bounds, observed
<1>6. OnItsWay'
  BY DEF IInv, OnItsWay, Subscribed, Told, Setup, session, client, bounds, observed
<1> QED
  BY <1>1, <1>2, <1>4, <1>5, <1>6 DEF IInv

LEMMA ConnectStep ==
    ASSUME IInv, Connect
    PROVE  IInv'
<1>1. TypeOK'
  BY DEF IInv, TypeOK, Connect, broker, client, bounds, observed
<1>2. Shapes' /\ Fresh'
  BY DEF IInv, Shapes, Fresh, NewToClient, Connect, broker, client, bounds, observed
<1>3. Marks'
  BY DEF IInv, Marks, Connect, broker, client, bounds, observed
<1>4. BehindClient' /\ BehindWire'
  BY DEF IInv, BehindClient, BehindWire, Useful, Connect, broker, client, bounds, observed
<1>5. BehindQueue' /\ OnItsWay'
  BY DEF IInv, BehindQueue, OnItsWay, Told, Subscribed, Useful, Connect, broker, client,
         bounds, observed
<1> QED
  BY <1>1, <1>2, <1>3, <1>4, <1>5 DEF IInv

\* The connection is gone, and what it held.
LEMMA ClosesStep ==
    ASSUME IInv, Closes, UNCHANGED <<broker, client, observed>>, drops' \in 0..MaxDrops,
           closes' \in 0..MaxCloses
    PROVE  IInv'
<1>1. TypeOK'
  BY DEF IInv, TypeOK, Closes, broker, client, observed
<1>2. Shapes' /\ Fresh'
  BY DEF IInv, Shapes, AllFit, Fresh, NewToClient, Closes, broker, client, observed
<1>3. Marks'
  BY DEF IInv, Marks, Closes, broker, client, observed
<1>4. BehindClient' /\ BehindWire' /\ BehindQueue'
  BY DEF IInv, BehindClient, BehindWire, BehindQueue, Useful, Closes, broker, client, observed
<1>5. OnItsWay'
  BY DEF OnItsWay, Subscribed, Closes
<1> QED
  BY <1>1, <1>2, <1>3, <1>4, <1>5 DEF IInv

LEMMA DropStep ==
    ASSUME IInv, Drop
    PROVE  IInv'
<1>1. drops' \in 0..MaxDrops /\ closes' \in 0..MaxCloses
  BY DEF IInv, TypeOK, Drop
<1> QED
  BY <1>1, ClosesStep DEF Drop

LEMMA EndedStep ==
    ASSUME IInv, Ended
    PROVE  IInv'
<1>1. drops' \in 0..MaxDrops /\ closes' \in 0..MaxCloses
  BY DEF IInv, TypeOK, Ended, bounds
<1> QED
  BY <1>1, ClosesStep DEF Ended

LEMMA OverflowStep ==
    ASSUME IInv, Overflow
    PROVE  IInv'
<1>1. TypeOK'
  BY DEF IInv, TypeOK, Overflow, Closes, broker, bounds
<1>2. Shapes' /\ Fresh'
  BY DEF IInv, Shapes, AllFit, Fresh, Overflow, Closes, broker
<1>3. Marks'
  BY DEF IInv, Marks, TypeOK, Overflow, Closes, broker
<1>4. BehindClient' /\ BehindWire' /\ BehindQueue' /\ OnItsWay'
  BY DEF BehindClient, BehindWire, BehindQueue, OnItsWay, Overflow
<1> QED
  BY <1>1, <1>2, <1>3, <1>4 DEF IInv

\* The end of a closed broker may take the place of a message; no identifier is of use
\* after that.
LEMMA CloseStep ==
    ASSUME IInv, Close
    PROVE  IInv'
<1>0. /\ closes' \in 0..MaxCloses /\ drops' = drops /\ up' = FALSE
      /\ UNCHANGED <<published, oldest, wire, client, observed, asked, missed>>
      /\ conn' \in {"none", "hello", "gap", "loop", "over"}
  BY DEF IInv, TypeOK, Close, Closed
<1>1. CASE Subscribed
  <2> DEFINE rest == IF Len(queue) >= QueueSize THEN Tail(queue) ELSE queue
  <2>1. queue' = Append(rest, End)
    BY <1>1 DEF Close, Closed
  <2>2. /\ rest \in Seq(Messages) /\ Len(rest) + 1 <= QueueSize
        /\ \A i \in 1..Len(rest) : \E j \in 1..Len(queue) : rest[i] = queue[j] /\ j >= i
        /\ rest = queue \/ (queue # <<>> /\ rest = Tail(queue))
    <3>1. CASE Len(queue) >= QueueSize
      <4>1. queue # <<>> /\ rest = Tail(queue) /\ queue \in Seq(Messages) /\ Len(queue) = QueueSize
        BY <3>1 DEF IInv, TypeOK
      <4> QED
        BY <4>1, Tailed
    <3>2. CASE ~(Len(queue) >= QueueSize)
      BY <3>2 DEF IInv, TypeOK
    <3> QED
      BY <3>1, <3>2
  <2> HIDE DEF rest
  <2>3. /\ queue' \in Seq(Messages) /\ Len(queue') = Len(rest) + 1
        /\ \A i \in 1..Len(rest) : queue'[i] = rest[i]
        /\ queue'[Len(rest) + 1] = End /\ queue' # <<>>
    BY <2>1, <2>2, MessageFacts, Appended
  <2>4. TypeOK'
    BY <1>0, <2>2, <2>3 DEF IInv, TypeOK, client, observed
  <2>5. Shapes'
    <3>1. Fits(End, published)
      BY DEF Fits, End
    <3>2. \A i \in 1..Len(queue') : queue'[i] = End \/ \E j \in 1..Len(queue) : queue'[i] = queue[j]
      BY <2>2, <2>3
    <3> QED
      BY <3>1, <3>2 DEF IInv, Shapes, AllFit, Close, client
  <2>6. Marks'
    BY DEF IInv, Marks, Close, Closed, client, observed
  <2>7. Fresh'
    <3>1. ASSUME NEW i \in 1..Len(queue'), queue'[i].kind = "gap", queue'[i].id # 0
          PROVE  /\ NewToClient(queue'[i].id)
                 /\ Before(pending, Len(pending) + 1, queue'[i].id)
                 /\ Before(wire, Len(wire) + 1, queue'[i].id)
                 /\ Before(queue', i, queue'[i].id)
      <4>1. i \in 1..Len(rest) /\ queue'[i] = rest[i]
        BY <2>3, <3>1 DEF End
      <4>2. CASE rest = queue
        BY <2>3, <3>1, <4>1, <4>2 DEF IInv, Fresh, Before
      <4>3. CASE queue # <<>> /\ rest = Tail(queue)
        <5>1. queue'[i] = queue[i + 1] /\ i + 1 \in 1..Len(queue)
          BY <4>1, <4>3, Tailed DEF IInv, TypeOK
        <5>2. \A j \in 1..(i - 1) : queue'[j] = queue[j + 1] /\ j + 1 \in 1..i
          BY <2>3, <4>1, <4>3, Tailed DEF IInv, TypeOK
        <5>3. /\ NewToClient(queue[i + 1].id)
              /\ Before(pending, Len(pending) + 1, queue[i + 1].id)
              /\ Before(wire, Len(wire) + 1, queue[i + 1].id)
              /\ Before(queue, i + 1, queue[i + 1].id)
          BY <3>1, <5>1 DEF IInv, Fresh
        <5> QED
          BY <5>1, <5>2, <5>3 DEF Before
      <4> QED
        BY <2>2, <4>2, <4>3
    <3> QED
      BY <3>1 DEF IInv, Fresh, NewToClient, Close, client, observed
  <2>8. BehindClient' /\ BehindWire' /\ BehindQueue'
    BY DEF BehindClient, BehindWire, BehindQueue, Useful, Close
  <2>9. ~Subscribed'
    BY <2>2, <2>3 DEF Subscribed
  <2> QED
    BY <2>4, <2>5, <2>6, <2>7, <2>8, <2>9 DEF IInv, OnItsWay
<1>2. CASE ~Subscribed
  <2>1. TypeOK'
    <3>1. queue' = queue
      BY <1>2 DEF Close, Closed
    <3> QED
      BY <1>0, <3>1 DEF IInv, TypeOK, client, observed
  <2>2. Shapes' /\ Marks' /\ Fresh'
    BY <1>2 DEF IInv, Shapes, Marks, Fresh, NewToClient, Close, Closed, client, observed
  <2>3. BehindClient' /\ BehindWire' /\ BehindQueue'
    BY DEF BehindClient, BehindWire, BehindQueue, Useful, Close
  <2>4. ~Subscribed'
    BY <1>2 DEF Subscribed, Close, Closed
  <2> QED
    BY <2>1, <2>2, <2>3, <2>4 DEF IInv, OnItsWay
<1> QED
  BY <1>1, <1>2

\* The replay brings what came after the cursor, and the client has the rest; or the
\* notice is for everything.
LEMMA SubscribeStep ==
    ASSUME IInv, Subscribe
    PROVE  IInv'
<1>0. UNCHANGED <<broker, asked, wire, client, bounds, handled, repeated>> /\ conn' = "hello"
      /\ conn = "prepare"
  BY DEF Subscribe
<1>1. CASE asked # None /\ Resumable(asked)
  <2>1. /\ queue' = Replay(asked) /\ missed' = None /\ owed' = owed
        /\ queue' \in Seq(Messages) /\ Len(queue') = published - asked
        /\ published - asked \in 0..QueueSize
        /\ \A i \in 1..Len(queue') : queue'[i] = Event(asked + i) /\ asked + i \in Events
    BY <1>1, ReplayFacts DEF Subscribe, IInv
  <2>2. asked \in Ids /\ asked <= published /\ oldest <= asked /\ up
    BY <1>0, <1>1 DEF Resumable, Retained, IInv, TypeOK, Marks
  <2>3. TypeOK'
    BY <1>0, <2>1 DEF IInv, TypeOK, broker, client, bounds
  <2>4. Shapes'
    <3>1. ASSUME NEW i \in 1..Len(queue')
          PROVE  Fits(queue'[i], published)
      <4>1. queue'[i] = Event(asked + i) /\ asked + i \in 1..published
        BY <2>1, <2>2 DEF IInv, TypeOK
      <4> QED
        BY <4>1 DEF Fits, Event
    <3> QED
      BY <1>0, <3>1 DEF IInv, Shapes, AllFit, broker, client
  <2>5. Marks'
    BY <1>0, <2>1 DEF IInv, Marks, broker, client
  <2>6. Fresh'
    BY <1>0, <2>1 DEF IInv, Fresh, NewToClient, Event, broker, client
  <2>7. BehindClient' /\ BehindWire'
    BY <1>0, <2>1 DEF IInv, BehindClient, BehindWire, Useful, broker, client
  <2>8. ASSUME NEW n \in owed, NEW k \in 0..Len(queue'), n <= asked + k
        PROVE  All(pending, n) \/ Within(queue', k, n)
    <3>1. n \in Events
      BY DEF IInv, TypeOK
    <3>2. CASE n <= asked
      BY <1>0, <1>1, <2>2, <3>2 DEF IInv, BehindClient, Useful
    <3>3. CASE n > asked
      <4>1. n - asked \in 1..k /\ queue'[n - asked] = Event(n)
        BY <2>1, <2>2, <2>8, <3>1, <3>3
      <4> QED
        BY <4>1 DEF Within, Covers, Event
    <3> QED
      BY <2>2, <3>1, <3>2, <3>3
  <2>9. BehindQueue'
    <3>1. \A i \in 1..Len(queue') : queue'[i].id = asked + i
      BY <2>1 DEF Event
    <3> QED
      BY <1>0, <2>1, <2>8, <3>1 DEF BehindQueue, broker, client
  <2>10. OnItsWay'
    <3>1. ASSUME NEW n \in owed
          PROVE  All(pending, n) \/ All(queue', n)
      <4>1. n <= asked + Len(queue') /\ Len(queue') \in 0..Len(queue')
        BY <2>1, <2>2 DEF IInv, TypeOK, Marks
      <4> QED
        BY <2>8, <4>1 DEF All
    <3> QED
      BY <1>0, <2>1, <3>1 DEF OnItsWay, broker, client
  <2> QED
    BY <2>3, <2>4, <2>5, <2>6, <2>7, <2>9, <2>10 DEF IInv
<1>2. CASE asked = None \/ ~Resumable(asked)
  <2>1. queue' = <<>>
    BY <1>2, NoReplay DEF Subscribe
  <2>2. missed' \in Ids \union {None} /\ (missed' # None => missed' = published)
        /\ owed' \subseteq owed
    BY DEF Subscribe, IInv, TypeOK
  <2>3. TypeOK'
    BY <1>0, <2>1, <2>2 DEF IInv, TypeOK, broker, client, bounds
  <2>4. Shapes' /\ Fresh'
    BY <1>0, <2>1 DEF IInv, Shapes, AllFit, Fresh, NewToClient, broker, client
  <2>5. Marks'
    BY <1>0, <2>2 DEF IInv, TypeOK, Marks, broker, client
  <2>6. BehindClient' /\ BehindWire' /\ BehindQueue'
    BY <1>0, <2>1, <2>2 DEF IInv, BehindClient, BehindWire, BehindQueue, Useful, broker, client
  <2>7. owed' = {} \/ missed' = published
    BY <1>2 DEF Subscribe
  <2>8. published # None /\ \A n \in owed' : n <= published
    BY <2>2 DEF IInv, TypeOK, Marks
  <2>9. OnItsWay'
    BY <1>0, <2>7, <2>8 DEF OnItsWay, Told
  <2> QED
    BY <2>3, <2>4, <2>5, <2>6, <2>9 DEF IInv
<1> QED
  BY <1>1, <1>2

FreshIn(g) ==
    /\ NewToClient(g)
    /\ Before(pending, Len(pending) + 1, g)
    /\ Before(wire, Len(wire) + 1, g)

\* A message goes to the connection: what the client is owed up to its identifier waits,
\* is on the connection, or is what it brings.
LEMMA Wrote ==
    ASSUME IInv, NEW m \in Messages, Fits(m, published), Write(m),
           UNCHANGED <<broker, client, owed>>,
           m.kind = "gap" /\ m.id # 0 => FreshIn(m.id),
           \A n \in owed : Useful(m.id) /\ n <= m.id =>
                All(pending, n) \/ All(wire, n) \/ Covers(m, n)
    PROVE  /\ wire' \in Seq(Messages) /\ Len(wire') <= WireSize
           /\ AllFit(wire', published)
           /\ \A i \in 1..Len(wire') : wire'[i].kind = "gap" /\ wire'[i].id # 0 =>
                /\ NewToClient(wire'[i].id)
                /\ Before(pending, Len(pending) + 1, wire'[i].id)
                /\ Before(wire', i, wire'[i].id)
           /\ BehindWire'
           /\ \A n : All(wire', n) <=> All(wire, n) \/ Covers(m, n)
           /\ \A g : Before(wire', Len(wire') + 1, g) <=>
                       Before(wire, Len(wire) + 1, g) /\ m.id # g
<1>1. wire \in Seq(Messages) /\ Len(wire) < WireSize /\ wire' = Append(wire, m)
      /\ Len(wire) \in Nat
  BY DEF IInv, TypeOK, Write
<1>2. /\ wire' \in Seq(Messages) /\ Len(wire') = Len(wire) + 1
      /\ \A i \in 1..Len(wire) : wire'[i] = wire[i]
      /\ wire'[Len(wire) + 1] = m
      /\ \A n : All(wire', n) <=> All(wire, n) \/ Covers(m, n)
      /\ \A n : \A k \in 1..Len(wire) : Within(wire', k, n) <=> Within(wire, k, n)
  BY <1>1, Appended
<1>3. \A i \in 1..Len(wire') : i \in 1..Len(wire) \/ (i = Len(wire) + 1 /\ wire'[i] = m)
  BY <1>1, <1>2
<1>4. AllFit(wire', published)
  BY <1>2, <1>3 DEF IInv, Shapes, AllFit
<1>5. ASSUME NEW i \in 1..Len(wire'), wire'[i].kind = "gap", wire'[i].id # 0
      PROVE  /\ NewToClient(wire'[i].id)
             /\ Before(pending, Len(pending) + 1, wire'[i].id)
             /\ Before(wire', i, wire'[i].id)
  <2>1. CASE i \in 1..Len(wire)
    <3>1. /\ wire'[i] = wire[i]
          /\ NewToClient(wire[i].id)
          /\ Before(pending, Len(pending) + 1, wire[i].id)
          /\ Before(wire, i, wire[i].id)
      BY <1>2, <1>5, <2>1 DEF IInv, Fresh
    <3>2. \A j \in 1..(i - 1) : wire'[j] = wire[j]
      BY <1>1, <1>2, <2>1
    <3> QED
      BY <3>1, <3>2 DEF Before
  <2>2. CASE i = Len(wire) + 1 /\ wire'[i] = m
    <3>1. FreshIn(m.id)
      BY <1>5, <2>2
    <3>2. \A j \in 1..(i - 1) : wire'[j] = wire[j]
      BY <1>1, <1>2, <2>2
    <3> QED
      BY <2>2, <3>1, <3>2 DEF FreshIn, Before
  <2> QED
    BY <1>3, <2>1, <2>2
<1>6. ASSUME NEW n \in owed, NEW i \in 1..Len(wire'), Useful(wire'[i].id), n <= wire'[i].id
      PROVE  All(pending, n) \/ Within(wire', i, n)
  <2>1. CASE i \in 1..Len(wire)
    BY <1>2, <1>6, <2>1 DEF IInv, BehindWire
  <2>2. CASE i = Len(wire) + 1 /\ wire'[i] = m
    BY <1>2, <1>6, <2>2 DEF All
  <2> QED
    BY <1>3, <2>1, <2>2
<1>7. BehindWire'
  BY <1>6 DEF BehindWire, Useful, broker, client
<1>8. ASSUME NEW g
      PROVE  Before(wire', Len(wire') + 1, g) <=> Before(wire, Len(wire) + 1, g) /\ m.id # g
  <2>1. Len(wire') + 1 - 1 = Len(wire) + 1 /\ Len(wire) + 1 - 1 = Len(wire)
    BY <1>1, <1>2
  <2> QED
    BY <1>1, <1>2, <2>1 DEF Before
<1> QED
  BY <1>1, <1>2, <1>4, <1>5, <1>7, <1>8

\* A hello, a heartbeat or the first notice: a message without an identifier of its own.
LEMMA SessionWrote ==
    ASSUME IInv, NEW m \in Messages, Fits(m, published), m.id = 0, Write(m),
           UNCHANGED <<broker, asked, missed, queue, client, bounds, observed>>,
           conn \in {"hello", "gap", "loop"}, conn' \in {"gap", "loop"},
           conn' = "gap" => missed # None,
           \A n \in owed : Told(n) => Told(n)' \/ Covers(m, n)
    PROVE  IInv'
<1>1. ~Useful(m.id)
  BY DEF Useful, IInv, TypeOK
<1>2. /\ wire' \in Seq(Messages) /\ Len(wire') <= WireSize
      /\ AllFit(wire', published)
      /\ \A i \in 1..Len(wire') : wire'[i].kind = "gap" /\ wire'[i].id # 0 =>
           /\ NewToClient(wire'[i].id)
           /\ Before(pending, Len(pending) + 1, wire'[i].id)
           /\ Before(wire', i, wire'[i].id)
      /\ BehindWire'
      /\ \A n : All(wire', n) <=> All(wire, n) \/ Covers(m, n)
      /\ \A g : Before(wire', Len(wire') + 1, g) <=> Before(wire, Len(wire) + 1, g) /\ m.id # g
  BY <1>1, Wrote DEF observed
<1>3. TypeOK'
  BY <1>2 DEF IInv, TypeOK, broker, client, bounds, observed
<1>4. Shapes'
  BY <1>2 DEF IInv, Shapes, broker, client
<1>5. Marks'
  BY DEF IInv, Marks, broker, client, observed
<1>6. Fresh'
  BY <1>2 DEF IInv, Fresh, NewToClient, client
<1>7. BehindClient'
  BY DEF IInv, BehindClient, Useful, broker, client, observed
<1>8. BehindQueue'
  BY <1>2 DEF IInv, BehindQueue, Useful, broker, client, observed
<1>9. OnItsWay'
  BY <1>2 DEF IInv, OnItsWay, Subscribed, client, observed
<1> QED
  BY <1>2, <1>3, <1>4, <1>5, <1>6, <1>7, <1>8, <1>9 DEF IInv

LEMMA WriteHelloStep ==
    ASSUME IInv, WriteHello
    PROVE  IInv'
<1>1. Session \in Messages /\ Fits(Session, published) /\ Session.id = 0
  BY MessageFacts DEF Fits, Session
<1>2. /\ conn \in {"hello", "gap", "loop"} /\ conn' \in {"gap", "loop"}
      /\ conn' = "gap" => missed # None
  BY DEF WriteHello
<1>3. \A n \in owed : Told(n) => Told(n)'
  BY DEF WriteHello, Told
<1> QED
  BY <1>1, <1>2, <1>3, SessionWrote DEF WriteHello

LEMMA WriteGapStep ==
    ASSUME IInv, WriteGap
    PROVE  IInv'
<1>0. missed # None => missed \in Ids /\ missed <= published
  BY DEF IInv, TypeOK, Marks
<1>1. CASE missed # None
  <2> DEFINE m == Gap(0, missed)
  <2>1. m \in Messages /\ Fits(m, published) /\ m.id = 0
    BY <1>0, <1>1, MessageFacts DEF Fits, Gap
  <2>2. conn \in {"hello", "gap", "loop"} /\ conn' = "loop"
    BY DEF WriteGap
  <2>3. \A n \in owed : Told(n) => Covers(m, n)
    BY DEF Told, Covers, Gap
  <2>4. Write(m) /\ UNCHANGED <<broker, asked, missed, queue, client, bounds, observed>>
    BY DEF WriteGap
  <2> HIDE DEF m
  <2> QED
    BY <2>1, <2>2, <2>3, <2>4, SessionWrote
<1> QED
  BY <1>1 DEF IInv, Marks, WriteGap

LEMMA HeartbeatStep ==
    ASSUME IInv, Heartbeat
    PROVE  IInv'
<1>1. Session \in Messages /\ Fits(Session, published) /\ Session.id = 0
  BY MessageFacts DEF Fits, Session
<1>2. conn \in {"hello", "gap", "loop"} /\ conn' = "loop" /\ UNCHANGED <<asked, missed>>
  BY DEF Heartbeat, session
<1>3. \A n \in owed : Told(n) => Told(n)'
  BY DEF Heartbeat, Told, session
<1> QED
  BY <1>1, <1>2, <1>3, SessionWrote DEF Heartbeat

\* The queue without its first message.
LEMMA Dequeued ==
    ASSUME IInv, queue # <<>>, queue' = Tail(queue)
    PROVE  /\ queue' \in Seq(Messages) /\ Len(queue') <= QueueSize
           /\ AllFit(queue', published)
           /\ Head(queue) = queue[1] /\ 1 \in 1..Len(queue)
           /\ Head(queue) \in Messages /\ Fits(Head(queue), published)
           /\ \A i \in 1..Len(queue') : queue'[i] = queue[i + 1] /\ i + 1 \in 1..Len(queue)
           /\ \A i \in 1..Len(queue') : \A g :
                Before(queue, i + 1, g) => Before(queue', i, g) /\ Head(queue).id # g
           /\ \A n : All(queue, n) <=> Covers(Head(queue), n) \/ All(queue', n)
           /\ \A n : Within(queue, 1, n) <=> Covers(Head(queue), n)
           /\ \A n : \A k \in 1..Len(queue') :
                Within(queue, k + 1, n) <=> Covers(Head(queue), n) \/ Within(queue', k, n)
           /\ queue' # <<>> => queue'[Len(queue')] = queue[Len(queue)]
           /\ queue' = <<>> => queue[Len(queue)] = Head(queue)
<1>1. queue \in Seq(Messages) /\ Len(queue) <= QueueSize
  BY DEF IInv, TypeOK
<1>2. /\ Head(queue) \in Messages /\ Head(queue) = queue[1]
      /\ queue' \in Seq(Messages)
      /\ Len(queue) \in Nat \ {0} /\ Len(queue') = Len(queue) - 1
      /\ \A i \in 1..Len(queue') : queue'[i] = queue[i + 1] /\ i + 1 \in 1..Len(queue)
      /\ \A n : All(queue, n) <=> Covers(Head(queue), n) \/ All(queue', n)
      /\ \A n : Within(queue, 1, n) <=> Covers(Head(queue), n)
      /\ \A n : \A k \in 1..Len(queue') :
           Within(queue, k + 1, n) <=> Covers(Head(queue), n) \/ Within(queue', k, n)
  BY <1>1, Tailed
<1>3. AllFit(queue', published) /\ Fits(Head(queue), published)
  BY <1>2 DEF IInv, Shapes, AllFit
<1>4. ASSUME NEW i \in 1..Len(queue'), NEW g, Before(queue, i + 1, g)
      PROVE  Before(queue', i, g) /\ Head(queue).id # g
  <2>1. \A j \in 1..i : queue[j].id # g
    BY <1>2, <1>4 DEF Before
  <2>2. \A j \in 1..(i - 1) : queue'[j] = queue[j + 1] /\ j + 1 \in 1..i
    BY <1>2
  <2> QED
    BY <1>2, <2>1, <2>2 DEF Before
<1>5. queue' # <<>> => queue'[Len(queue')] = queue[Len(queue)]
  <2>1. queue' # <<>> => Len(queue') \in 1..Len(queue')
    BY <1>2
  <2> QED
    BY <1>2, <2>1
<1>6. queue' = <<>> => queue[Len(queue)] = Head(queue)
  BY <1>2
<1> QED
  BY <1>1, <1>2, <1>3, <1>4, <1>5, <1>6

LEMMA WriteNextStep ==
    ASSUME IInv, WriteNext
    PROVE  IInv'
<1> DEFINE m == Head(queue)
<1>1. conn = "loop" /\ queue # <<>> /\ queue' = Tail(queue)
      /\ UNCHANGED <<broker, asked, missed, client, bounds, observed>>
  BY DEF WriteNext
<1>2. /\ queue' \in Seq(Messages) /\ Len(queue') <= QueueSize
      /\ AllFit(queue', published)
      /\ m = queue[1] /\ 1 \in 1..Len(queue)
      /\ m \in Messages /\ Fits(m, published)
      /\ \A i \in 1..Len(queue') : queue'[i] = queue[i + 1] /\ i + 1 \in 1..Len(queue)
      /\ \A i \in 1..Len(queue') : \A g :
           Before(queue, i + 1, g) => Before(queue', i, g) /\ m.id # g
      /\ \A n : All(queue, n) <=> Covers(m, n) \/ All(queue', n)
      /\ \A n : Within(queue, 1, n) <=> Covers(m, n)
      /\ \A n : \A k \in 1..Len(queue') :
           Within(queue, k + 1, n) <=> Covers(m, n) \/ Within(queue', k, n)
      /\ queue' # <<>> => queue'[Len(queue')] = queue[Len(queue)]
      /\ queue' = <<>> => queue[Len(queue)] = m
  BY <1>1, Dequeued
<1> HIDE DEF m
<1>3. Marks'
  BY <1>1 DEF IInv, Marks, WriteNext, broker, client, observed
<1>4. BehindClient'
  BY <1>1 DEF IInv, BehindClient, Useful, WriteNext, broker, client, observed
<1>5. \A n \in owed : ~Told(n)
  BY <1>1 DEF Told
<1>6. CASE m = End
  <2>1. conn' = "over" /\ wire' = wire
    BY <1>6 DEF WriteNext, m
  <2>2. TypeOK' /\ Shapes'
    BY <1>1, <1>2, <2>1 DEF IInv, TypeOK, Shapes, broker, client, bounds, observed
  <2>3. Fresh'
    BY <1>1, <1>2, <2>1 DEF IInv, Fresh, NewToClient, client
  <2>4. BehindWire'
    BY <1>1, <2>1 DEF IInv, BehindWire, Useful, broker, client, observed
  <2>5. \A n : ~Covers(m, n)
    BY <1>6 DEF Covers, End
  <2>6. BehindQueue'
    BY <1>1, <1>2, <1>5, <2>1, <2>5 DEF IInv, BehindQueue, Useful, broker, client, observed
  <2>7. OnItsWay'
    BY <2>1 DEF OnItsWay, Subscribed
  <2> QED
    BY <1>3, <1>4, <2>2, <2>3, <2>4, <2>6, <2>7 DEF IInv
<1>7. CASE m # End
  <2>0. conn' = conn /\ Write(m)
    BY <1>7 DEF WriteNext, m
  <2>1. m.kind = "gap" /\ m.id # 0 => FreshIn(m.id)
    BY <1>2 DEF IInv, Fresh, FreshIn
  <2>2. \A n \in owed : Useful(m.id) /\ n <= m.id =>
           All(pending, n) \/ All(wire, n) \/ Covers(m, n)
    BY <1>2, <1>5 DEF IInv, BehindQueue
  <2>3. UNCHANGED <<broker, client, owed>>
    BY <1>1 DEF observed
  <2>4. /\ wire' \in Seq(Messages) /\ Len(wire') <= WireSize
        /\ AllFit(wire', published)
        /\ \A i \in 1..Len(wire') : wire'[i].kind = "gap" /\ wire'[i].id # 0 =>
             /\ NewToClient(wire'[i].id)
             /\ Before(pending, Len(pending) + 1, wire'[i].id)
             /\ Before(wire', i, wire'[i].id)
        /\ BehindWire'
        /\ \A n : All(wire', n) <=> All(wire, n) \/ Covers(m, n)
        /\ \A g : Before(wire', Len(wire') + 1, g) <=>
                    Before(wire, Len(wire) + 1, g) /\ m.id # g
    BY <1>2, <2>0, <2>1, <2>2, <2>3, Wrote
  <2>5. TypeOK' /\ Shapes'
    BY <1>1, <1>2, <2>0, <2>4 DEF IInv, TypeOK, Shapes, broker, client, bounds, observed
  <2>6. Fresh'
    BY <1>1, <1>2, <2>4 DEF IInv, Fresh, NewToClient, client
  <2>7. BehindQueue'
    BY <1>1, <1>2, <1>5, <2>4 DEF IInv, BehindQueue, Useful, broker, client, observed
  <2>8. Subscribed' => Subscribed
    BY <1>1, <1>2, <1>7, <2>0 DEF Subscribed
  <2>9. OnItsWay'
    BY <1>1, <1>2, <1>5, <2>4, <2>8 DEF IInv, OnItsWay, client, observed
  <2> QED
    BY <1>3, <1>4, <2>4, <2>5, <2>6, <2>7, <2>9 DEF IInv
<1> QED
  BY <1>6, <1>7

\* What is published is new to everybody.
LEMMA PublishStep ==
    ASSUME IInv, Publish
    PROVE  IInv'
<1> DEFINE new == published + 1
<1>0. /\ new \in Events /\ published' = new /\ published \in Ids /\ published < new
      /\ owed' \subseteq owed \union {new}
      /\ oldest' \in 1..(MaxEvents + 1) /\ oldest' >= oldest
      /\ UNCHANGED <<up, session, wire, client, bounds, handled, repeated>>
  BY DEF IInv, TypeOK, Publish
<1> HIDE DEF new
<1>1. Event(new) \in Messages /\ Gap(new, new) \in Messages
      /\ Fits(Event(new), new) /\ Fits(Gap(new, new), new)
  BY <1>0, MessageFacts DEF Fits, Event, Gap
<1>2. \A s \in Seq(Messages) : AllFit(s, published) => AllFit(s, new)
  <2>1. \A m \in Messages : Fits(m, published) => Fits(m, new)
    BY <1>0 DEF Fits, Messages
  <2> QED
    BY <2>1 DEF AllFit
<1>3. Marks'
  <2>1. /\ \A c \in {cursor, busy, asked, missed} : c = None \/ (c \in Ids /\ c <= published)
        /\ \A i \in 1..Len(seen) : seen[i] \in Ids /\ seen[i] <= published /\ seen[i] \notin owed
        /\ busy \notin owed
        /\ \A n \in owed : n \in Ids /\ n <= published
    BY DEF IInv, TypeOK, Marks
  <2>2. /\ \A c \in {cursor, busy, asked, missed} : c # None => c <= new
        /\ \A i \in 1..Len(seen) : seen[i] <= new /\ seen[i] \notin owed'
        /\ busy \notin owed'
        /\ \A n \in owed' : n <= new
    BY <1>0, <2>1
  <2> QED
    BY <1>0, <2>2 DEF IInv, Marks, session, client
<1>4. owed \subseteq Events /\ \A n \in owed : n <= published
  BY DEF IInv, TypeOK, Marks
<1>5. \A c \in Ids : Useful(c)' => Useful(c)
  BY <1>0 DEF IInv, TypeOK, Useful
<1>6. /\ \A i \in 1..Len(pending) : pending[i].id \in 0..published
      /\ \A i \in 1..Len(wire) : wire[i].id \in 0..published
      /\ \A i \in 1..Len(queue) : queue[i].id \in 0..published
  BY MessagesFit DEF IInv
<1>7. \A n \in owed' : n \in owed \/ (n = new /\ n > published)
  BY <1>0
<1>8. BehindClient'
  <2>1. \A c \in {cursor, busy, asked} : c = None \/ (c \in Ids /\ c <= published)
    BY DEF IInv, TypeOK, Marks
  <2>2. ASSUME NEW n \in owed', NEW c, Useful(c)', n <= c, c = None \/ (c \in Ids /\ c <= published)
        PROVE  n \in owed /\ Useful(c)
    BY <1>0, <1>5, <1>7, <2>2 DEF Useful
  <2>3. UNCHANGED <<up, cursor, busy, pending, asked, conn>>
    BY <1>0 DEF session, client
  <2>4. ASSUME NEW n \in owed'
        PROVE  /\ Useful(cursor)' /\ n <= cursor => All(pending, n)
               /\ Useful(busy)' /\ n <= busy => All(pending, n)
               /\ conn = "prepare" /\ Useful(asked)' /\ n <= asked => All(pending, n)
    BY <2>1, <2>2, <2>3 DEF IInv, BehindClient, Useful
  <2>5. ASSUME NEW n \in owed', NEW i \in 1..Len(pending), NEW c, c = pending[i].id,
               Useful(c)', n <= c
        PROVE  All(pending, n)
    <3>1. c \in Ids /\ c <= published
      BY <1>0, <1>6, <2>5
    <3> QED
      BY <2>2, <2>5, <3>1 DEF IInv, BehindClient
  <2> QED
    BY <2>3, <2>4, <2>5 DEF BehindClient, Useful
<1>9. BehindWire'
  <2>1. SUFFICES ASSUME NEW n \in owed', NEW i \in 1..Len(wire),
                        Useful(wire[i].id)', n <= wire[i].id
                 PROVE  All(pending, n) \/ Within(wire, i, n)
    BY <1>0 DEF BehindWire, Useful, session, client
  <2>2. wire[i].id \in Ids /\ wire[i].id <= published
    BY <1>0, <1>6, <2>1
  <2>3. n \in owed /\ Useful(wire[i].id)
    BY <1>0, <1>5, <1>7, <2>1, <2>2 DEF Useful
  <2> QED
    BY <2>1, <2>3 DEF IInv, BehindWire
<1>10. CASE Subscribed /\ Len(queue) >= QueueSize
  <2>1. queue' = <<Gap(new, new)>>
    BY <1>10 DEF Publish, Queued, new
  <2>2. queue' \in Seq(Messages) /\ Len(queue') = 1 /\ queue'[1] = Gap(new, new)
    BY <1>1, <2>1
  <2>3. TypeOK'
    BY <1>0, <2>2 DEF IInv, TypeOK, session, client, bounds
  <2>4. Shapes'
    <3>1. AllFit(queue', new)
      BY <1>1, <2>2 DEF AllFit
    <3> QED
      BY <1>0, <1>2, <3>1 DEF IInv, TypeOK, Shapes, client
  <2>5. Fresh'
    <3>1. \A g \in 0..published : g # new
      BY <1>0
    <3>2. NewToClient(new)
      <4>1. busy = None \/ busy \in 0..published
        BY DEF IInv, TypeOK, Marks
      <4>2. \A i \in 1..Len(seen) : seen[i] \in 0..published
        BY DEF IInv, TypeOK, Marks
      <4>3. None # new
        BY <1>0
      <4> QED
        BY <3>1, <4>1, <4>2, <4>3 DEF NewToClient
    <3>3. /\ \A i \in 1..(Len(pending) + 1 - 1) : pending[i].id # new
          /\ \A i \in 1..(Len(wire) + 1 - 1) : wire[i].id # new
      <4>1. Len(pending) + 1 - 1 = Len(pending) /\ Len(wire) + 1 - 1 = Len(wire)
        BY Lengths DEF IInv
      <4> QED
        BY <1>6, <3>1, <4>1
    <3>4. Before(pending, Len(pending) + 1, new) /\ Before(wire, Len(wire) + 1, new)
      BY <3>3 DEF Before
    <3>5. Before(queue', 1, new)
      BY DEF Before
    <3>6. \A i \in 1..Len(queue') : i = 1 /\ queue'[i].id = new
      BY <2>2 DEF Gap
    <3>7. UNCHANGED <<pending, busy, seen, wire>>
      BY <1>0 DEF client, session
    <3>8. \A g : NewToClient(g) <=> NewToClient(g)'
      BY <3>7 DEF NewToClient
    <3> QED
      BY <3>2, <3>4, <3>5, <3>6, <3>7, <3>8 DEF IInv, Fresh
  <2>6. \A n \in owed' : Within(queue', 1, n) /\ All(queue', n)
    <3>1. \A n \in owed' : n <= new
      BY <1>0, <1>4, <1>7
    <3> QED
      BY <2>2, <3>1 DEF Within, All, Covers, Gap
  <2>7. BehindQueue' /\ OnItsWay'
    BY <2>2, <2>6 DEF BehindQueue, OnItsWay
  <2> QED
    BY <1>3, <1>8, <1>9, <2>3, <2>4, <2>5, <2>7 DEF IInv
<1>11. CASE Subscribed /\ ~(Len(queue) >= QueueSize)
  <2>0. queue \in Seq(Messages) /\ Len(queue) \in Nat /\ Len(queue) < QueueSize
    BY <1>11 DEF IInv, TypeOK
  <2>1. queue' = Append(queue, Event(new))
    BY <1>11 DEF Publish, Queued, new
  <2>2. /\ queue' \in Seq(Messages) /\ Len(queue') = Len(queue) + 1
        /\ \A i \in 1..Len(queue) : queue'[i] = queue[i]
        /\ queue'[Len(queue) + 1] = Event(new)
        /\ \A n : All(queue', n) <=> All(queue, n) \/ Covers(Event(new), n)
        /\ \A n : \A k \in 1..Len(queue) : Within(queue', k, n) <=> Within(queue, k, n)
    BY <1>1, <2>0, <2>1, Appended
  <2>3. \A i \in 1..Len(queue') :
           (i \in 1..Len(queue) /\ queue'[i] = queue[i]) \/ (i = Len(queue') /\ queue'[i] = Event(new))
    BY <2>0, <2>2
  <2>4. TypeOK'
    BY <1>0, <2>0, <2>2 DEF IInv, TypeOK, session, client, bounds
  <2>5. Shapes'
    BY <1>0, <1>1, <1>2, <2>3 DEF IInv, TypeOK, Shapes, AllFit, client
  <2>6. Fresh'
    <3>1. ASSUME NEW i \in 1..Len(queue'), queue'[i].kind = "gap", queue'[i].id # 0
          PROVE  /\ NewToClient(queue'[i].id)
                 /\ Before(pending, Len(pending) + 1, queue'[i].id)
                 /\ Before(wire, Len(wire) + 1, queue'[i].id)
                 /\ Before(queue', i, queue'[i].id)
      <4>1. i \in 1..Len(queue) /\ queue'[i] = queue[i]
        BY <2>3, <3>1 DEF Event
      <4>2. \A j \in 1..(i - 1) : queue'[j] = queue[j]
        BY <2>0, <2>2, <4>1
      <4> QED
        BY <3>1, <4>1, <4>2 DEF IInv, Fresh, Before
    <3> QED
      BY <1>0, <3>1 DEF IInv, Fresh, NewToClient, client
  <2>7. Covers(Event(new), new) /\ All(queue', new)
    BY <2>2 DEF Covers, Event
  <2>8. \A n : Told(n)' <=> Told(n)
    BY <1>0 DEF Told, session
  <2>9. BehindQueue'
    <3>1. ASSUME NEW n \in owed', NEW i \in 1..Len(queue'), NEW c, c = queue'[i].id,
                 Useful(c)', n <= c
          PROVE  All(pending, n) \/ All(wire, n) \/ Told(n) \/ Within(queue', i, n)
      <4>1. CASE i \in 1..Len(queue) /\ queue'[i] = queue[i]
        <5>1. queue[i].id \in Ids /\ queue[i].id <= published
          BY <1>0, <1>6, <4>1
        <5>3. n \in owed
          BY <1>0, <1>7, <3>1, <4>1, <5>1
        <5>2. Useful(c) /\ c = queue[i].id
          BY <1>5, <3>1, <4>1, <5>1
        <5> QED
          BY <2>2, <3>1, <4>1, <5>2, <5>3 DEF IInv, BehindQueue
      <4>2. CASE i = Len(queue') /\ queue'[i] = Event(new)
        <5>1. CASE n = new
          BY <2>7, <4>2, <5>1 DEF All
        <5>2. CASE n \in owed
          BY <1>11, <2>2, <4>2, <5>2 DEF IInv, OnItsWay, All
        <5> QED
          BY <1>7, <5>1, <5>2
      <4> QED
        BY <2>3, <4>1, <4>2
    <3> QED
      BY <1>0, <2>8, <3>1 DEF BehindQueue, Useful, client
  <2>10. OnItsWay'
    BY <1>0, <1>7, <1>11, <2>2, <2>7, <2>8 DEF IInv, OnItsWay, client
  <2> QED
    BY <1>3, <1>8, <1>9, <2>4, <2>5, <2>6, <2>9, <2>10 DEF IInv
<1>12. CASE ~Subscribed
  <2>1. queue' = queue
    BY <1>12 DEF Publish
  <2>2. TypeOK'
    BY <1>0, <2>1 DEF IInv, TypeOK, session, client, bounds
  <2>3. Shapes'
    BY <1>0, <1>2, <2>1 DEF IInv, TypeOK, Shapes, client
  <2>4. Fresh'
    BY <1>0, <2>1 DEF IInv, Fresh, NewToClient, client
  <2>5. BehindQueue'
    BY <1>0, <1>5, <1>6, <1>7, <2>1 DEF IInv, BehindQueue, Told, client, session, Useful
  <2>6. OnItsWay'
    BY <1>0, <1>12, <2>1 DEF OnItsWay, Subscribed, session
  <2> QED
    BY <1>3, <1>8, <1>9, <2>2, <2>3, <2>4, <2>5, <2>6 DEF IInv
<1> QED
  BY <1>10, <1>11, <1>12

---------------------------------------------------------------------------
(* The client.                                                               *)

LEMMA TailedBefore ==
    ASSUME NEW s \in Seq(Messages), s # <<>>
    PROVE  /\ \A n : AllFit(s, n) => AllFit(Tail(s), n) /\ Fits(Head(s), n)
           /\ \A g : \A i \in 1..(Len(Tail(s)) + 1) :
                Before(s, i + 1, g) => Before(Tail(s), i, g) /\ Head(s).id # g
<1>1. /\ Head(s) = s[1] /\ Len(s) \in Nat \ {0} /\ Len(Tail(s)) = Len(s) - 1
      /\ \A i \in 1..Len(Tail(s)) : Tail(s)[i] = s[i + 1] /\ i + 1 \in 1..Len(s)
  BY Tailed
<1>2. \A n : AllFit(s, n) => AllFit(Tail(s), n) /\ Fits(Head(s), n)
  BY <1>1 DEF AllFit
<1>3. ASSUME NEW g, NEW i \in 1..(Len(Tail(s)) + 1), Before(s, i + 1, g)
      PROVE  Before(Tail(s), i, g) /\ Head(s).id # g
  <2>1. \A j \in 1..i : s[j].id # g
    BY <1>1, <1>3 DEF Before
  <2>2. \A j \in 1..(i - 1) : Tail(s)[j] = s[j + 1] /\ j + 1 \in 1..i
    BY <1>1
  <2> QED
    BY <1>1, <2>1, <2>2 DEF Before
<1> QED
  BY <1>2, <1>3

\* The client may process m at the cursor with these identifiers in its memory.
MayProcess(m, at, ids) ==
    /\ m \in Messages /\ Fits(m, published)
    /\ at \in Ids \union {None} /\ (at # None => at <= published)
    /\ ids \in Seq(Ids) /\ Len(ids) <= ReplaySize
    /\ \A i \in 1..Len(ids) : ids[i] <= published /\ ids[i] \notin owed
    /\ m.kind = "gap" /\ m.id # 0 => \A i \in 1..Len(ids) : ids[i] # m.id

\* What it is owed then, m did not bring, and its identifiers are of m or were there.
Took(m, at, ids) ==
    /\ cursor' \in Ids \union {None} /\ busy' \in Ids
    /\ seen' \in Seq(Ids) /\ Len(seen') <= ReplaySize
    /\ owed' \subseteq owed /\ {owed', handled', repeated'} \subseteq SUBSET Events
    /\ \A n \in owed' : ~Covers(m, n)
    /\ cursor' \in {at, m.id} /\ busy' \in {0, m.id} /\ busy' \notin owed'
    /\ \A i \in 1..Len(seen') :
         (seen'[i] = m.id \/ \E j \in 1..Len(ids) : seen'[i] = ids[j])
         /\ seen'[i] <= published /\ seen'[i] \notin owed'
    /\ (cursor' # None => cursor' <= published) /\ busy' <= published

\* Whatever the client is owed after a message was processed, that message did not bring
\* it: a message that is left aside as known brings nothing new.
LEMMA ProcessedFacts ==
    ASSUME IInv, NEW m, NEW at, NEW ids, MayProcess(m, at, ids), Processed(m, at, ids)
    PROVE  Took(m, at, ids)
<1> SUFFICES ASSUME m \in Messages, Fits(m, published),
                    at \in Ids \union {None}, at # None => at <= published,
                    ids \in Seq(Ids), Len(ids) <= ReplaySize,
                    \A i \in 1..Len(ids) : ids[i] <= published /\ ids[i] \notin owed,
                    m.kind = "gap" /\ m.id # 0 => \A i \in 1..Len(ids) : ids[i] # m.id
             PROVE  Took(m, at, ids)
  BY DEF MayProcess
<1>1. /\ m.id \in Ids /\ m.upto \in Ids /\ m.id <= published
      /\ m.kind \in {"event", "gap", "session", "end"}
      /\ {owed, handled, repeated} \subseteq SUBSET Events /\ owed \subseteq Events
      /\ published \in Ids
  BY DEF Messages, Fits, IInv, TypeOK
<1>2. /\ cursor' \in Ids \union {None} /\ busy' \in Ids \union {None}
      /\ seen' \in Seq(Ids) /\ Len(seen') <= ReplaySize
      /\ {owed', handled', repeated'} \subseteq SUBSET Events
  BY <1>1, ProcessedTypes DEF Fits
<1>3. /\ owed' \subseteq owed /\ cursor' \in {at, m.id} /\ busy' \in {0, m.id}
  BY DEF Processed, observed
<1>4. CASE m.id # 0 /\ Knows(ids, m.id)
  <2>1. m.id \notin owed /\ owed' = owed /\ seen' = ids /\ busy' = 0
    BY <1>4 DEF Processed, Knows, observed
  <2>2. m.kind = "event"
    BY <1>1, <1>4 DEF Knows, Fits
  <2>3. \A n \in owed' : ~Covers(m, n)
    BY <2>1, <2>2 DEF Covers
  <2> QED
    BY <1>1, <1>2, <1>3, <2>1, <2>3 DEF Took
<1>5. CASE ~(m.id # 0 /\ Knows(ids, m.id)) /\ m.kind = "event"
  <2>1. owed' = owed \ {m.id} /\ seen' = ids /\ busy' = m.id
    BY <1>5 DEF Processed
  <2>2. \A n \in owed' : ~Covers(m, n)
    BY <1>5, <2>1 DEF Covers
  <2> QED
    BY <1>1, <1>2, <1>3, <2>1, <2>2 DEF Took
<1>6. CASE ~(m.id # 0 /\ Knows(ids, m.id)) /\ m.kind # "event"
  <2>1. owed' = (IF m.kind = "gap" THEN owed \ (1..m.upto) ELSE owed)
        /\ seen' = Remembered(ids, m.id) /\ busy' = 0
    BY <1>6 DEF Processed
  <2>2. \A n \in owed' : ~Covers(m, n)
    BY <1>1, <1>6, <2>1 DEF Covers
  <2>3. m.id \notin owed'
    BY <1>1, <1>6, <2>1 DEF Fits
  <2>4. \A i \in 1..Len(seen') : seen'[i] = m.id \/ \E j \in 1..Len(ids) : seen'[i] = ids[j]
    BY <1>1, <2>1, RememberedFacts
  <2>5. \A i \in 1..Len(seen') : seen'[i] <= published /\ seen'[i] \notin owed'
    BY <1>1, <1>3, <2>3, <2>4
  <2>6. busy' \in Ids /\ busy' \notin owed' /\ busy' <= published
    BY <1>1, <1>3, <2>1
  <2>7. cursor' # None => cursor' <= published
    BY <1>1, <1>3
  <2> QED
    BY <1>2, <1>3, <2>2, <2>4, <2>5, <2>6, <2>7 DEF Took
<1> QED
  BY <1>4, <1>5, <1>6

LEMMA ReadStep ==
    ASSUME IInv, Read
    PROVE  IInv'
<1> DEFINE m == Head(wire)
<1>1. /\ wire # <<>> /\ wire' = Tail(wire) /\ wire \in Seq(Messages)
      /\ UNCHANGED <<broker, session, queue, bounds>>
  BY DEF Read, IInv, TypeOK
<1>2. /\ m \in Messages /\ m = wire[1] /\ 1 \in 1..Len(wire)
      /\ wire' \in Seq(Messages) /\ Len(wire') <= WireSize /\ Len(wire') \in Nat
      /\ Len(wire) = Len(wire') + 1
      /\ \A i \in 1..Len(wire') : wire'[i] = wire[i + 1] /\ i + 1 \in 1..Len(wire)
      /\ \A n : All(wire, n) <=> Covers(m, n) \/ All(wire', n)
      /\ \A n : Within(wire, 1, n) <=> Covers(m, n)
      /\ \A n : \A k \in 1..Len(wire') : Within(wire, k + 1, n) <=> Covers(m, n) \/ Within(wire', k, n)
  BY <1>1, Tailed DEF IInv, TypeOK
<1>3. /\ AllFit(wire', published) /\ Fits(m, published)
      /\ \A g : \A i \in 1..(Len(wire') + 1) :
           Before(wire, i + 1, g) => Before(wire', i, g) /\ m.id # g
  BY <1>1, TailedBefore DEF IInv, Shapes
<1> HIDE DEF m
<1>4. /\ \A i \in 1..Len(wire') : wire'[i].kind = "gap" /\ wire'[i].id # 0 =>
           /\ NewToClient(wire'[i].id) /\ Before(pending, Len(pending) + 1, wire'[i].id)
           /\ Before(wire', i, wire'[i].id) /\ m.id # wire'[i].id
      /\ \A i \in 1..Len(queue) : queue[i].kind = "gap" /\ queue[i].id # 0 =>
           /\ NewToClient(queue[i].id) /\ Before(pending, Len(pending) + 1, queue[i].id)
           /\ Before(wire', Len(wire') + 1, queue[i].id) /\ m.id # queue[i].id
           /\ Before(queue, i, queue[i].id)
  <2>1. \A i \in 1..Len(wire') : wire'[i].kind = "gap" /\ wire'[i].id # 0 =>
           /\ NewToClient(wire'[i].id) /\ Before(pending, Len(pending) + 1, wire'[i].id)
           /\ Before(wire, i + 1, wire'[i].id)
    BY <1>2 DEF IInv, Fresh
  <2>2. \A i \in 1..Len(wire') : i \in 1..(Len(wire') + 1)
    BY <1>2
  <2>3. \A i \in 1..Len(queue) : queue[i].kind = "gap" /\ queue[i].id # 0 =>
           /\ NewToClient(queue[i].id) /\ Before(pending, Len(pending) + 1, queue[i].id)
           /\ Before(wire, Len(wire) + 1, queue[i].id) /\ Before(queue, i, queue[i].id)
    BY DEF IInv, Fresh
  <2>4. Len(wire') + 1 \in 1..(Len(wire') + 1) /\ Len(wire) + 1 = Len(wire') + 1 + 1
    BY <1>2
  <2> QED
    BY <1>3, <2>1, <2>2, <2>3, <2>4
<1>5. m.kind = "gap" /\ m.id # 0 => NewToClient(m.id) /\ Before(pending, Len(pending) + 1, m.id)
  BY <1>2 DEF IInv, Fresh
<1>6. \A n \in owed : Useful(m.id) /\ n <= m.id => All(pending, n) \/ Covers(m, n)
  BY <1>2 DEF IInv, BehindWire
<1>7. \A n \in owed : \A i \in 1..Len(wire') : Useful(wire'[i].id) /\ n <= wire'[i].id =>
        All(pending, n) \/ Covers(m, n) \/ Within(wire', i, n)
  BY <1>2 DEF IInv, BehindWire
<1>8. CASE busy = None
  <2>1. Processed(m, cursor, seen) /\ pending' = pending /\ pending = <<>>
    BY <1>8 DEF Read, m, IInv, Marks
  <2>2. /\ cursor \in Ids \union {None} /\ (cursor # None => cursor <= published)
        /\ seen \in Seq(Ids) /\ Len(seen) <= ReplaySize
        /\ \A i \in 1..Len(seen) : seen[i] <= published /\ seen[i] \notin owed
        /\ (m.kind = "gap" /\ m.id # 0 => \A i \in 1..Len(seen) : seen[i] # m.id)
    BY <1>5 DEF IInv, TypeOK, Marks, NewToClient
  <2>3. /\ cursor' \in Ids \union {None} /\ busy' \in Ids
        /\ seen' \in Seq(Ids) /\ Len(seen') <= ReplaySize
        /\ owed' \subseteq owed /\ {owed', handled', repeated'} \subseteq SUBSET Events
        /\ \A n \in owed' : ~Covers(m, n)
        /\ cursor' \in {cursor, m.id} /\ busy' \in {0, m.id} /\ busy' \notin owed'
        /\ \A i \in 1..Len(seen') :
             (seen'[i] = m.id \/ \E j \in 1..Len(seen) : seen'[i] = seen[j])
             /\ seen'[i] <= published /\ seen'[i] \notin owed'
        /\ (cursor' # None => cursor' <= published) /\ busy' <= published
    <3>1. MayProcess(m, cursor, seen)
      BY <1>2, <1>3, <2>2 DEF MayProcess
    <3>2. Took(m, cursor, seen)
      BY <2>1, <3>1, ProcessedFacts
    <3> QED
      BY <3>2 DEF Took
  <2>4. TypeOK'
    BY <1>1, <1>2, <2>1, <2>3 DEF IInv, TypeOK, broker, session, bounds
  <2>5. Shapes'
    BY <1>1, <1>3, <2>1 DEF IInv, Shapes, broker
  <2>6. Marks'
    BY <1>1, <2>1, <2>3 DEF IInv, TypeOK, Marks, broker, session
  <2>7. ASSUME NEW g, NewToClient(g), m.id # g, g # 0
        PROVE  NewToClient(g)'
    BY <2>3, <2>7 DEF NewToClient
  <2>8. Fresh'
    BY <1>1, <1>2, <1>4, <2>1, <2>7 DEF Fresh
  <2>9. \A n : ~All(pending, n)
    BY <2>1, Nowhere
  <2>10. BehindClient'
    <3>1. \A n \in owed' : ~(Useful(cursor) /\ n <= cursor) /\ ~(Useful(m.id) /\ n <= m.id)
                           /\ (conn = "prepare" => ~(Useful(asked) /\ n <= asked))
      BY <1>6, <2>3, <2>9 DEF IInv, BehindClient
    <3>2. ~Useful(0)
      BY DEF Useful, IInv, TypeOK
    <3> QED
      BY <1>1, <2>1, <2>3, <3>1, <3>2 DEF BehindClient, Useful, broker, session
  <2>11. BehindWire'
    BY <1>1, <1>7, <2>1, <2>3 DEF BehindWire, Useful, broker
  <2>12. BehindQueue'
    BY <1>1, <1>2, <2>1, <2>3 DEF IInv, BehindQueue, Useful, Told, broker, session
  <2>13. OnItsWay'
    BY <1>1, <1>2, <2>1, <2>3 DEF IInv, OnItsWay, Subscribed, Told, session
  <2> QED
    BY <2>4, <2>5, <2>6, <2>8, <2>10, <2>11, <2>12, <2>13 DEF IInv
<1>9. CASE busy # None
  <2>1. /\ pending' = Append(pending, m) /\ Len(pending) < ClientQueue
        /\ UNCHANGED <<cursor, busy, seen, observed>>
    BY <1>9 DEF Read, m
  <2>2. /\ pending \in Seq(Messages) /\ Len(pending) \in Nat
        /\ pending' \in Seq(Messages) /\ Len(pending') = Len(pending) + 1
        /\ \A i \in 1..Len(pending) : pending'[i] = pending[i]
        /\ pending'[Len(pending) + 1] = m
        /\ \A n : All(pending', n) <=> All(pending, n) \/ Covers(m, n)
    BY <1>2, <2>1, Appended DEF IInv, TypeOK
  <2>3. \A i \in 1..Len(pending') :
           (i \in 1..Len(pending) /\ pending'[i] = pending[i]) \/ (i = Len(pending) + 1 /\ pending'[i] = m)
    BY <2>2
  <2>4. TypeOK'
    BY <1>1, <1>2, <2>1, <2>2 DEF IInv, TypeOK, broker, session, bounds, observed
  <2>5. Shapes'
    BY <1>1, <1>3, <2>3 DEF IInv, Shapes, AllFit, broker
  <2>6. Marks'
    BY <1>1, <1>9, <2>1 DEF IInv, Marks, broker, session, observed
  <2>7. \A g : NewToClient(g)' <=> NewToClient(g)
    BY <2>1 DEF NewToClient
  <2>8. \A g : Before(pending, Len(pending) + 1, g) /\ m.id # g => Before(pending', Len(pending') + 1, g)
    BY <2>2, <2>3 DEF Before
  <2>9. \A g : \A i \in 1..(Len(pending) + 1) : Before(pending, i, g) => Before(pending', i, g)
    BY <2>2 DEF Before
  <2>10. Fresh'
    <3>1. ASSUME NEW i \in 1..Len(pending'), pending'[i].kind = "gap", pending'[i].id # 0
          PROVE  NewToClient(pending'[i].id) /\ Before(pending', i, pending'[i].id)
      <4>1. CASE i \in 1..Len(pending) /\ pending'[i] = pending[i]
        <5>1. i \in 1..(Len(pending) + 1)
          BY <2>2, <4>1
        <5> QED
          BY <2>9, <3>1, <4>1, <5>1 DEF IInv, Fresh
      <4>2. CASE i = Len(pending) + 1 /\ pending'[i] = m
        <5>1. i \in 1..(Len(pending) + 1)
          BY <2>2, <4>2
        <5> QED
          BY <1>5, <2>9, <3>1, <4>2, <5>1
      <4> QED
        BY <2>3, <4>1, <4>2
    <3> QED
      BY <1>1, <1>4, <2>7, <2>8, <3>1 DEF Fresh
  <2>11. BehindClient'
    <3>1. ASSUME NEW n \in owed, NEW i \in 1..Len(pending'), Useful(pending'[i].id), n <= pending'[i].id
          PROVE  All(pending', n)
      BY <1>6, <2>2, <2>3, <3>1 DEF IInv, BehindClient
    <3> QED
      BY <1>1, <2>1, <2>2, <3>1 DEF IInv, BehindClient, Useful, broker, session, observed
  <2>12. BehindWire'
    BY <1>1, <1>7, <2>1, <2>2 DEF BehindWire, Useful, broker, observed
  <2>13. BehindQueue'
    BY <1>1, <1>2, <2>1, <2>2 DEF IInv, BehindQueue, Useful, Told, broker, session, observed
  <2>14. OnItsWay'
    BY <1>1, <1>2, <2>1, <2>2 DEF IInv, OnItsWay, Subscribed, Told, session, observed
  <2> QED
    BY <2>4, <2>5, <2>6, <2>10, <2>11, <2>12, <2>13, <2>14 DEF IInv
<1> QED
  BY <1>8, <1>9

LEMMA PumpStep ==
    ASSUME IInv, Pump
    PROVE  IInv'
<1> DEFINE at == IF busy = 0 THEN cursor ELSE busy
           ids == IF busy = 0 THEN seen ELSE Remembered(seen, busy)
<1>1. busy \in Ids /\ UNCHANGED <<broker, session, queue, wire, bounds>>
  BY DEF Pump, IInv, TypeOK
<1>2. /\ at \in Ids \union {None} /\ (at # None => at <= published)
      /\ at \in {cursor, busy}
      /\ ids \in Seq(Ids) /\ Len(ids) <= ReplaySize
      /\ \A i \in 1..Len(ids) : ids[i] = busy \/ \E j \in 1..Len(seen) : ids[i] = seen[j]
  BY <1>1, RememberedFacts DEF IInv, TypeOK, Marks
<1>3. \A i \in 1..Len(ids) : ids[i] <= published /\ ids[i] \notin owed
  <2>1. busy # None /\ busy <= published /\ busy \notin owed
    BY <1>1 DEF IInv, Marks, TypeOK
  <2>2. \A j \in 1..Len(seen) : seen[j] <= published /\ seen[j] \notin owed
    BY DEF IInv, Marks
  <2> QED
    BY <1>2, <2>1, <2>2
<1>4. \A g : NewToClient(g) => \A i \in 1..Len(ids) : ids[i] # g
  BY <1>2 DEF NewToClient
<1>5. IF pending = <<>>
        THEN /\ cursor' = at /\ seen' = ids /\ busy' = None
             /\ UNCHANGED <<pending, observed>>
        ELSE Processed(Head(pending), at, ids) /\ pending' = Tail(pending)
  BY DEF Pump
<1> HIDE DEF at, ids
<1>6. \A n \in owed : Useful(at) /\ n <= at => All(pending, n)
  BY <1>2 DEF IInv, BehindClient
<1>7. CASE pending = <<>>
  <2>1. TypeOK'
    BY <1>1, <1>2, <1>5, <1>7 DEF IInv, TypeOK, broker, session, bounds, observed
  <2>2. Shapes'
    BY <1>1, <1>5, <1>7 DEF IInv, Shapes, broker
  <2>3. Marks'
    BY <1>1, <1>2, <1>3, <1>5, <1>7 DEF IInv, TypeOK, Marks, broker, session, observed
  <2>4. \A g \in Ids : NewToClient(g) => NewToClient(g)'
    BY <1>4, <1>5, <1>7 DEF NewToClient
  <2>5. Fresh'
    <3>1. /\ \A i \in 1..Len(wire) : wire[i].id \in Ids
          /\ \A i \in 1..Len(queue) : queue[i].id \in Ids
      BY MessagesFit DEF IInv, TypeOK
    <3>2. pending' = pending /\ \A i \in 1..Len(pending) : FALSE
      BY <1>5, <1>7
    <3> QED
      BY <1>1, <2>4, <3>1, <3>2 DEF IInv, Fresh
  <2>6. BehindClient'
    BY <1>1, <1>5, <1>6, <1>7 DEF IInv, BehindClient, Useful, broker, session, observed
  <2>7. BehindWire' /\ BehindQueue'
    BY <1>1, <1>5, <1>7 DEF IInv, BehindWire, BehindQueue, Useful, Told, broker, session, observed
  <2>8. OnItsWay'
    BY <1>1, <1>5, <1>7 DEF IInv, OnItsWay, Subscribed, Told, session, observed
  <2> QED
    BY <2>1, <2>2, <2>3, <2>5, <2>6, <2>7, <2>8 DEF IInv
<1>8. CASE pending # <<>>
  <2> DEFINE m == Head(pending)
  <2>1. Processed(m, at, ids) /\ pending' = Tail(pending) /\ pending \in Seq(Messages)
    BY <1>5, <1>8 DEF IInv, TypeOK
  <2>2. /\ m \in Messages /\ m = pending[1] /\ 1 \in 1..Len(pending)
        /\ pending' \in Seq(Messages) /\ Len(pending') <= ClientQueue /\ Len(pending') \in Nat
        /\ Len(pending) = Len(pending') + 1
        /\ \A i \in 1..Len(pending') : pending'[i] = pending[i + 1] /\ i + 1 \in 1..Len(pending)
        /\ \A n : All(pending, n) <=> Covers(m, n) \/ All(pending', n)
    BY <1>8, <2>1, Tailed DEF IInv, TypeOK
  <2>3. /\ AllFit(pending', published) /\ Fits(m, published)
        /\ \A g : \A i \in 1..(Len(pending') + 1) :
             Before(pending, i + 1, g) => Before(pending', i, g) /\ m.id # g
    BY <1>8, <2>1, TailedBefore DEF IInv, Shapes
  <2> HIDE DEF m
  <2>4. m.kind = "gap" /\ m.id # 0 => \A i \in 1..Len(ids) : ids[i] # m.id
    <3>1. m.kind = "gap" /\ m.id # 0 => NewToClient(m.id)
      BY <2>2 DEF IInv, Fresh
    <3> QED
      BY <1>4, <3>1
  <2>5. /\ cursor' \in Ids \union {None} /\ busy' \in Ids
        /\ seen' \in Seq(Ids) /\ Len(seen') <= ReplaySize
        /\ owed' \subseteq owed /\ {owed', handled', repeated'} \subseteq SUBSET Events
        /\ \A n \in owed' : ~Covers(m, n)
        /\ cursor' \in {at, m.id} /\ busy' \in {0, m.id} /\ busy' \notin owed'
        /\ \A i \in 1..Len(seen') :
             (seen'[i] = m.id \/ \E j \in 1..Len(ids) : seen'[i] = ids[j])
             /\ seen'[i] <= published /\ seen'[i] \notin owed'
        /\ (cursor' # None => cursor' <= published) /\ busy' <= published
    <3>1. MayProcess(m, at, ids)
      BY <1>2, <1>3, <2>2, <2>3, <2>4 DEF MayProcess
    <3>2. Took(m, at, ids)
      BY <2>1, <3>1, ProcessedFacts
    <3> QED
      BY <3>2 DEF Took
  <2>6. TypeOK'
    BY <1>1, <2>2, <2>5 DEF IInv, TypeOK, broker, session, bounds
  <2>7. Shapes'
    BY <1>1, <2>3 DEF IInv, Shapes, broker
  <2>8. Marks'
    BY <1>1, <2>5 DEF IInv, TypeOK, Marks, broker, session
  <2>9. ASSUME NEW g, NewToClient(g), m.id # g, g # 0
        PROVE  NewToClient(g)'
    <3>1. busy' # g
      BY <2>5, <2>9
    <3>2. \A i \in 1..Len(ids) : ids[i] # g
      BY <1>4, <2>9
    <3>3. \A i \in 1..Len(seen') : seen'[i] # g
      BY <2>5, <2>9, <3>2
    <3> QED
      BY <3>1, <3>3 DEF NewToClient
  <2>10. /\ \A i \in 1..Len(pending') : pending'[i].kind = "gap" /\ pending'[i].id # 0 =>
              /\ NewToClient(pending'[i].id) /\ m.id # pending'[i].id
              /\ Before(pending', i, pending'[i].id)
         /\ \A g : Before(pending, Len(pending) + 1, g) =>
              Before(pending', Len(pending') + 1, g) /\ m.id # g
    <3>1. \A i \in 1..Len(pending') : i \in 1..(Len(pending') + 1)
      BY <2>2
    <3>2. Len(pending') + 1 \in 1..(Len(pending') + 1) /\ Len(pending) + 1 = Len(pending') + 1 + 1
      BY <2>2
    <3>3. \A i \in 1..Len(pending') : pending'[i].kind = "gap" /\ pending'[i].id # 0 =>
            NewToClient(pending'[i].id) /\ Before(pending, i + 1, pending'[i].id)
      BY <2>2 DEF IInv, Fresh
    <3> QED
      BY <2>3, <3>1, <3>2, <3>3
  <2>11. Fresh'
    BY <1>1, <2>9, <2>10 DEF IInv, Fresh
  <2>12. BehindClient'
    <3>1. \A n \in owed' : All(pending, n) => All(pending', n)
      BY <2>2, <2>5
    <3>2. \A n \in owed' : (Useful(m.id) /\ n <= m.id => All(pending', n))
                           /\ (Useful(at) /\ n <= at => All(pending', n))
                           /\ (conn = "prepare" /\ Useful(asked) /\ n <= asked => All(pending', n))
      BY <1>6, <2>2, <2>5, <3>1 DEF IInv, BehindClient
    <3>3. ASSUME NEW n \in owed', NEW i \in 1..Len(pending'), Useful(pending'[i].id),
                 n <= pending'[i].id
          PROVE  All(pending', n)
      BY <2>2, <2>5, <3>1, <3>3 DEF IInv, BehindClient
    <3>4. ~Useful(0)
      BY DEF Useful, IInv, TypeOK
    <3>5. UNCHANGED <<up, oldest, conn, asked>>
      BY <1>1 DEF broker, session
    <3>7. ASSUME NEW n \in owed'
          PROVE  /\ Useful(cursor)' /\ n <= cursor' => All(pending', n)
                 /\ Useful(busy)' /\ n <= busy' => All(pending', n)
                 /\ conn' = "prepare" /\ Useful(asked)' /\ n <= asked' => All(pending', n)
      BY <2>5, <3>2, <3>4, <3>5 DEF Useful
    <3> QED
      BY <3>3, <3>5, <3>7 DEF BehindClient, Useful
  <2>13. BehindWire'
    BY <1>1, <2>2, <2>5 DEF IInv, BehindWire, Useful, broker
  <2>14. BehindQueue'
    BY <1>1, <2>2, <2>5 DEF IInv, BehindQueue, Useful, Told, broker, session
  <2>15. OnItsWay'
    BY <1>1, <2>2, <2>5 DEF IInv, OnItsWay, Subscribed, Told, session
  <2> QED
    BY <2>6, <2>7, <2>8, <2>11, <2>12, <2>13, <2>14, <2>15 DEF IInv
<1> QED
  BY <1>7, <1>8

---------------------------------------------------------------------------
(* The theorems.                                                             *)

LEMMA NextStep == IInv /\ [Next]_vars => IInv'
<1> SUFFICES ASSUME IInv, [Next]_vars PROVE IInv'
  OBVIOUS
<1>1. CASE UNCHANGED vars
  <2>1. UNCHANGED <<broker, session, queue, wire, client, bounds, observed>>
    BY <1>1 DEF vars
  <2>2. UNCHANGED <<up, published, oldest, conn, asked, missed, queue, wire, cursor, pending,
                    busy, seen, drops, closes, owed, handled, repeated>>
    BY <2>1 DEF broker, session, client, bounds, observed
  <2>3. TypeOK' /\ Shapes' /\ Marks' /\ Fresh'
    BY <2>2 DEF IInv, TypeOK, Shapes, Marks, Fresh, NewToClient
  <2>4. BehindClient' /\ BehindWire' /\ BehindQueue' /\ OnItsWay'
    BY <2>2 DEF IInv, BehindClient, BehindWire, BehindQueue, OnItsWay, Useful, Told, Subscribed
  <2> QED
    BY <2>3, <2>4 DEF IInv
<1>2. CASE Next
  BY <1>2, PublishStep, CloseStep, SetupStep, ConnectStep, SubscribeStep, WriteHelloStep,
     WriteGapStep, WriteNextStep, HeartbeatStep, DropStep, EndedStep, ReadStep, OverflowStep,
     PumpStep DEF Next
<1> QED
  BY <1>1, <1>2

LEMMA Invariance == Spec => []IInv
  BY InitStep, NextStep, PTL DEF Spec

\* Every state of the broker, the handler and the client has its type: no queue grows
\* beyond its size.
THEOREM Types == Spec => []TypeOK
<1>1. IInv => TypeOK
  BY DEF IInv
<1> QED
  BY <1>1, Invariance, PTL

\* A client whose connection is open, for which nothing waits in the broker, on the wire
\* or in itself, has got everything it is owed, or was told of it: lost connections,
\* replays, overflows of the broker's queue and reloads lose no event silently.
CaughtUp ==
    conn = "loop" /\ queue = <<>> /\ wire = <<>> /\ pending = <<>> => owed = {}

THEOREM NothingLost == Spec => []CaughtUp
<1>1. IInv => CaughtUp
  <2> SUFFICES ASSUME IInv, conn = "loop", queue = <<>>, wire = <<>>, pending = <<>>,
                      NEW n \in owed
               PROVE  FALSE
    BY DEF CaughtUp
  <2>1. Subscribed /\ ~Told(n)
    BY DEF Subscribed, Told
  <2> QED
    BY <2>1, Nowhere DEF IInv, OnItsWay
<1> QED
  BY <1>1, Invariance, PTL
=============================================================================

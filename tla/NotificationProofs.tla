-------------------------- MODULE NotificationProofs --------------------------
(***************************************************************************)
(* Proofs about the way from an event to an e-mail, for every set of       *)
(* events and every number of failures: what the bridge acknowledged was   *)
(* handed on, and a customer gets a mail twice only for a failure.         *)
(***************************************************************************)
EXTENDS Notification, JetStreamProofs, FiniteSetTheorems, SequenceTheorems, TLAPS

-----------------------------------------------------------------------------
(* How often an event is in a queue *)

Places(q, e) == {i \in 1..Len(q) : q[i] = e}
CopiesIn(q, e) == Cardinality(Places(q, e))
Count(p) == IF p THEN 1 ELSE 0

LEMMA CopiesAreCounted ==
    ASSUME NEW S, NEW q \in Seq(S), NEW e
    PROVE  /\ IsFiniteSet(Places(q, e)) /\ Places(q, e) \subseteq 1..Len(q)
           /\ CopiesIn(q, e) \in Nat
  <1>1. Len(q) \in Nat
    OBVIOUS
  <1>2. IsFiniteSet(1..Len(q))
    BY <1>1, FS_Interval
  <1>3. Places(q, e) \in SUBSET (1..Len(q))
    BY DEF Places
  <1> QED
    BY <1>2, <1>3, FS_Subset, FS_CardinalityType DEF CopiesIn

\* A message at the end of a queue is one more.
LEMMA CopyAtEnd ==
    ASSUME NEW S, NEW q \in Seq(S), NEW m \in S, NEW e
    PROVE  CopiesIn(Append(q, m), e) = CopiesIn(q, e) + Count(m = e)
  <1> DEFINE r == Append(q, m)
  <1>1. /\ Len(q) \in Nat /\ Len(r) = Len(q) + 1
        /\ \A i \in 1..Len(q) : r[i] = q[i]
        /\ r[Len(q) + 1] = m
    BY AppendProperties
  <1>2. \A i : i \in 1..Len(r) <=> i \in 1..Len(q) \/ i = Len(q) + 1
    BY <1>1
  <1>3. Len(q) + 1 \notin Places(q, e)
    BY <1>1, CopiesAreCounted
  <1> HIDE DEF r
  <1>4. CASE m = e
    <2>1. Places(r, e) = Places(q, e) \cup {Len(q) + 1}
      BY <1>1, <1>2, <1>4 DEF Places
    <2>2. Cardinality(Places(r, e)) = Cardinality(Places(q, e)) + 1
      BY <1>3, <2>1, FS_AddElement, CopiesAreCounted
    <2> QED
      BY <1>4, <2>2 DEF CopiesIn, Count, r
  <1>5. CASE m # e
    <2>1. Places(r, e) = Places(q, e)
      BY <1>1, <1>2, <1>5 DEF Places
    <2> QED
      BY <1>5, <2>1, CopiesAreCounted DEF CopiesIn, Count, r
  <1> QED
    BY <1>4, <1>5

\* So is one in front of it.
LEMMA CopyInFront ==
    ASSUME NEW S, NEW q \in Seq(S), NEW r \in Seq(S), NEW m \in S, NEW e,
           Len(r) = Len(q) + 1, r[1] = m, \A i \in 1..Len(q) : r[i + 1] = q[i]
    PROVE  CopiesIn(r, e) = CopiesIn(q, e) + Count(m = e)
  <1> DEFINE moved == Places(r, e) \ {1}
             f == [i \in Places(q, e) |-> i + 1]
  <1>1. Len(q) \in Nat
    OBVIOUS
  <1>2. IsFiniteSet(Places(r, e)) /\ Places(r, e) \subseteq 1..Len(r) /\ CopiesIn(q, e) \in Nat
    BY CopiesAreCounted
  <1>3. IsFiniteSet(moved) /\ Cardinality(moved) = CopiesIn(q, e)
    <2>1. IsFiniteSet(moved)
      BY <1>2, FS_Subset
    <2>2. \A i \in Places(q, e) : i \in Nat /\ i + 1 \in moved
      BY <1>1 DEF Places
    <2>3. f \in Injection(Places(q, e), moved)
      BY <2>2 DEF Injection, IsInjective
    <2>4. ASSUME NEW j \in moved PROVE \E i \in Places(q, e) : i + 1 = j
      <3>1. j - 1 \in 1..Len(q) /\ j - 1 + 1 = j /\ r[j] = e
        BY <1>1, <1>2 DEF Places
      <3>2. r[j - 1 + 1] = q[j - 1]
        BY <3>1
      <3> QED
        BY <3>1, <3>2 DEF Places
    <2>5. f \in Surjection(Places(q, e), moved)
      BY <2>3, <2>4 DEF Injection, Surjection
    <2> HIDE DEF f, moved
    <2>6. Cardinality(Places(q, e)) = Cardinality(moved)
      BY <2>1, <2>3, <2>5, FS_Injection
    <2> QED
      BY <2>1, <2>6 DEF CopiesIn
  <1>4. CASE m = e
    <2>1. Places(r, e) = moved \cup {1} /\ 1 \notin moved
      BY <1>1, <1>4 DEF Places
    <2> HIDE DEF moved
    <2>2. Cardinality(Places(r, e)) = Cardinality(moved) + 1
      BY <1>3, <2>1, FS_AddElement
    <2> QED
      BY <1>3, <1>4, <2>2 DEF CopiesIn, Count
  <1>5. CASE m # e
    <2>1. Places(r, e) = moved
      BY <1>5 DEF Places
    <2> HIDE DEF moved
    <2> QED
      BY <1>2, <1>3, <1>5, <2>1 DEF CopiesIn, Count
  <1> QED
    BY <1>4, <1>5

LEMMA CopyPutBack ==
    ASSUME NEW S, NEW q \in Seq(S), NEW m \in S, NEW e
    PROVE  /\ <<m>> \o q \in Seq(S) /\ Len(<<m>> \o q) = Len(q) + 1
           /\ (<<m>> \o q)[1] = m /\ \A i \in 1..Len(q) : (<<m>> \o q)[i + 1] = q[i]
           /\ CopiesIn(<<m>> \o q, e) = CopiesIn(q, e) + Count(m = e)
  <1> DEFINE r == <<m>> \o q
  <1>1. Len(q) \in Nat /\ <<m>> \in Seq(S) /\ Len(<<m>>) = 1 /\ <<m>>[1] = m
    OBVIOUS
  <1>2. /\ r \in Seq(S) /\ Len(r) = 1 + Len(q)
        /\ \A i \in 1..(1 + Len(q)) : r[i] = IF i <= 1 THEN <<m>>[i] ELSE q[i - 1]
    BY <1>1, ConcatProperties
  <1> HIDE DEF r
  <1>3. r[1] = m /\ Len(r) = Len(q) + 1
    BY <1>1, <1>2
  <1>4. ASSUME NEW i \in 1..Len(q) PROVE r[i + 1] = q[i]
    <2>1. i + 1 \in 1..(1 + Len(q)) /\ ~(i + 1 <= 1) /\ i + 1 - 1 = i
      BY <1>1
    <2> QED
      BY <1>2, <2>1
  <1>5. CopiesIn(r, e) = CopiesIn(q, e) + Count(m = e)
    BY <1>2, <1>3, <1>4, CopyInFront
  <1> QED
    BY <1>2, <1>3, <1>4, <1>5 DEF r

LEMMA CopyTaken ==
    ASSUME NEW S, NEW q \in Seq(S), q # << >>, NEW e
    PROVE  /\ Head(q) \in S /\ Tail(q) \in Seq(S) /\ Len(q) = Len(Tail(q)) + 1
           /\ Head(q) = q[1] /\ \A i \in 1..Len(Tail(q)) : Tail(q)[i] = q[i + 1]
           /\ CopiesIn(q, e) = CopiesIn(Tail(q), e) + Count(Head(q) = e)
  <1> DEFINE t == Tail(q)
  <1>1. /\ Head(q) \in S /\ t \in Seq(S) /\ Len(t) = Len(q) - 1
        /\ \A i \in 1..Len(t) : t[i] = q[i + 1]
    BY HeadTailProperties
  <1>2. Head(q) = q[1] /\ Len(q) = Len(t) + 1
    BY <1>1
  <1> HIDE DEF t
  <1>3. \A i \in 1..Len(t) : q[i + 1] = t[i]
    BY <1>1
  <1>4. CopiesIn(q, e) = CopiesIn(t, e) + Count(Head(q) = e)
    BY <1>1, <1>2, <1>3, CopyInFront
  <1> QED
    BY <1>1, <1>2, <1>4 DEF t

-----------------------------------------------------------------------------
(* The invariant *)

\* What the bridge may acknowledge: e is on its way to the mail server, was there,
\* or was given up.
Kept(e) == Queued(e) \/ notifier.event = e \/ mailed[e] > 0 \/ e \in lost

\* What comes again was delivered, the message in the hands of a callback too, and
\* it is not one that comes again.
ConsumerInv(c) ==
    /\ consumers[c].next <= Len(streams[StreamOf[c]]) + 1
    /\ \A i \in consumers[c].again : i < consumers[c].next
    /\ bridge[c].pc = "idle" <=> bridge[c].msg = 0
    /\ bridge[c].msg # 0 => /\ bridge[c].msg < consumers[c].next
                            /\ bridge[c].msg \notin consumers[c].again
    /\ bridge[c].pc = "acking" => Kept(BridgeEvent(c))

BridgeInv == \A c \in BridgeConsumers : ConsumerInv(c)

\* What the notifier handles, and that the broker has it still when their connection
\* is gone.
NotifierInv ==
    /\ notifier.event # NoEvent <=> notifier.pc \in {"sending", "logging", "acking"}
    /\ notifier.pc \in {"logging", "acking"} =>
          mailed[notifier.event] > 0 \/ notifier.event \in lost
    /\ notifier.event # NoEvent /\ ~notifier.linked => Queued(notifier.event)

\* An event is published once, and to its stream.
StreamsInv ==
    \A s \in Streams : \A i \in 1..Len(streams[s]) :
        /\ StreamFor[streams[s][i]] = s
        /\ \A j \in 1..Len(streams[s]) : streams[s][i] = streams[s][j] => i = j

\* The bridge has yet to forward the message at position i.
Ahead(c, i) ==
    \/ i >= consumers[c].next \/ i \in consumers[c].again
    \/ bridge[c].pc = "forwarding" /\ bridge[c].msg = i

\* e is not published, or the bridge has yet to forward it.
Coming(e) ==
    \A c \in BridgeConsumers : \A i \in 1..Len(streams[StreamOf[c]]) :
        streams[StreamOf[c]][i] = e => Ahead(c, i)

InHand(e, pc) == notifier.event = e /\ notifier.pc = pc

\* Every mail of e, sent or still to come, but the first goes back to a failure.
MailsInv ==
    \A e \in Events :
        mailed[e] + CopiesIn(queue, e) + Count(InHand(e, "sending")) + Count(Coming(e))
            <= 1 + faults

LogsInv ==
    \A e \in Events :
        /\ mailed[e] <= logged[e] + faults + Count(InHand(e, "logging"))
        /\ logged[e] + Count(InHand(e, "logging")) <= mailed[e] + faults

NotificationInv ==
    /\ TypeOK /\ BridgeInv /\ NotifierInv /\ HandedOn /\ StreamsInv
    /\ MailsInv /\ LogsInv

-----------------------------------------------------------------------------
(* Types *)

LEMMA TheConsumers ==
    /\ Consumers = BridgeConsumers
    /\ \A c \in BridgeConsumers : StreamOf[c] \in Streams
    /\ \A c, d \in BridgeConsumers : StreamOf[c] = StreamOf[d] => c = d
  BY BridgeAssumption DEF Consumers, BridgeConsumers, Streams

LEMMA StreamTypes ==
    ASSUME TypeOK, NEW c \in BridgeConsumers
    PROVE  /\ c \in Consumers /\ StreamOf[c] \in Streams
           /\ streams[StreamOf[c]] \in Seq(Events)
           /\ Len(streams[StreamOf[c]]) \in Nat
           /\ \A i \in 1..Len(streams[StreamOf[c]]) : streams[StreamOf[c]][i] \in Events
           /\ consumers[c] \in [next : Nat \ {0}, again : SUBSET Nat]
           /\ consumers[c].next \in Nat \ {0} /\ consumers[c].again \subseteq Nat
           /\ bridge[c] \in [pc : BridgePcs, msg : Nat]
           /\ bridge[c].pc \in BridgePcs /\ bridge[c].msg \in Nat
  <1>1. c \in Consumers /\ StreamOf[c] \in Streams
    BY TheConsumers
  <1>2. streams[StreamOf[c]] \in Seq(Events)
    BY <1>1 DEF TypeOK, JetStreamType
  <1>3. consumers[c] \in [next : Nat \ {0}, again : SUBSET Nat]
    BY <1>1 DEF TypeOK, JetStreamType
  <1>4. bridge[c] \in [pc : BridgePcs, msg : Nat]
    BY DEF TypeOK
  <1> QED
    BY <1>1, <1>2, <1>3, <1>4

\* The message a callback works on is in its stream.
LEMMA MessageOfBridge ==
    ASSUME TypeOK, BridgeInv, NEW c \in BridgeConsumers, bridge[c].pc # "idle"
    PROVE  /\ bridge[c].msg \in 1..Len(streams[StreamOf[c]]) /\ bridge[c].msg # 0
           /\ bridge[c].msg < consumers[c].next /\ bridge[c].msg \notin consumers[c].again
           /\ BridgeEvent(c) \in Events
  <1>1. bridge[c].msg # 0
    BY DEF BridgeInv, ConsumerInv
  <1>2. bridge[c].msg < consumers[c].next /\ bridge[c].msg \notin consumers[c].again
    BY <1>1 DEF BridgeInv, ConsumerInv
  <1>3. consumers[c].next <= Len(streams[StreamOf[c]]) + 1
    BY DEF BridgeInv, ConsumerInv
  <1>4. bridge[c].msg \in 1..Len(streams[StreamOf[c]])
    BY <1>1, <1>2, <1>3, StreamTypes
  <1> QED
    BY <1>1, <1>2, <1>4, StreamTypes DEF BridgeEvent

\* The event the notifier handles is one.
LEMMA EventOfNotifier ==
    ASSUME TypeOK, NotifierInv
    PROVE  /\ notifier \in [pc : NotifierPcs, event : Events \cup {NoEvent}, linked : BOOLEAN]
           /\ notifier.pc \in {"sending", "logging", "acking"} <=> notifier.event \in Events
           /\ notifier.event # NoEvent <=> notifier.event \in Events
  BY NotificationAssumption DEF TypeOK, NotifierInv

\* What the broker puts back is the message the notifier has not acknowledged.
LEMMA UnackedIsBack ==
    ASSUME TypeOK, NotifierInv, queue' = Unacked \o queue
    PROVE  /\ queue' \in Seq(Events)
           /\ \A e \in Events : Queued(e) => Queued(e)'
           /\ notifier.event \in Events /\ notifier.linked =>
                 \E i \in 1..Len(queue') : queue'[i] = notifier.event
           /\ \A e \in Events : CopiesIn(queue', e) =
                 CopiesIn(queue, e) + Count(notifier.event = e /\ notifier.linked)
  <1>1. queue \in Seq(Events) /\ Len(queue) \in Nat /\ NoEvent \notin Events
    BY NotificationAssumption DEF TypeOK
  <1>2. CASE notifier.event # NoEvent /\ notifier.linked
    <2> DEFINE m == notifier.event
    <2>1. m \in Events
      BY <1>2, EventOfNotifier
    <2> HIDE DEF m
    <2>2. queue' = <<m>> \o queue
      BY <1>2 DEF Unacked, m
    <2>3. /\ queue' \in Seq(Events) /\ Len(queue') = Len(queue) + 1
          /\ queue'[1] = m /\ \A i \in 1..Len(queue) : queue'[i + 1] = queue[i]
      BY <1>1, <2>1, <2>2, CopyPutBack
    <2>4. ASSUME NEW e \in Events
          PROVE  CopiesIn(queue', e) = CopiesIn(queue, e) + Count(m = e)
      BY <1>1, <2>1, <2>2, CopyPutBack
    <2>5. ASSUME NEW e \in Events, Queued(e) PROVE Queued(e)'
      <3>1. PICK i \in 1..Len(queue) : queue[i] = e
        BY <2>5 DEF Queued
      <3>2. i + 1 \in 1..Len(queue') /\ queue'[i + 1] = e
        BY <1>1, <2>3, <3>1
      <3> QED
        BY <3>2 DEF Queued
    <2>6. \E i \in 1..Len(queue') : queue'[i] = m
      BY <1>1, <2>3
    <2> QED
      BY <1>2, <2>3, <2>4, <2>5, <2>6 DEF m
  <1>3. CASE ~(notifier.event # NoEvent /\ notifier.linked)
    <2>1. queue' = queue
      BY <1>1, <1>3, ConcatEmptySeq DEF Unacked
    <2>2. ~(notifier.event \in Events /\ notifier.linked)
      BY <1>1, <1>3
    <2>3. \A e \in Events : Count(notifier.event = e /\ notifier.linked) = 0
      BY <2>2 DEF Count
    <2> QED
      BY <1>1, <2>1, <2>2, <2>3, CopiesAreCounted DEF Queued
  <1> QED
    BY <1>2, <1>3

LEMMA BridgeRestType ==
    ASSUME TypeOK, NEW c \in BridgeConsumers, bridge' = [bridge EXCEPT ![c] = BridgeRest]
    PROVE  bridge' \in [BridgeConsumers -> [pc : BridgePcs, msg : Nat]]
  BY DEF TypeOK, BridgeRest, BridgePcs

LEMMA LeftType ==
    ASSUME TypeOK, NEW c \in BridgeConsumers
    PROVE  Left(c) \subseteq [next : Nat \ {0}, again : SUBSET Nat]
  <1>1. AfterLoss(c, bridge[c].msg) \subseteq [next : Nat \ {0}, again : SUBSET Nat]
    BY StreamTypes, AfterLossType DEF TypeOK
  <1> QED
    BY <1>1 DEF Left

LEMMA RestartedConsumers ==
    ASSUME BridgeRestart
    PROVE  /\ consumers' = [c \in BridgeConsumers |-> consumers'[c]]
           /\ \A c \in BridgeConsumers : consumers'[c] \in Left(c)
  <1>1. PICK orders \in Left("rabbitmq-bridge-orders"), payments \in Left("rabbitmq-bridge-payments") :
           consumers' = [c \in BridgeConsumers |->
                            IF c = "rabbitmq-bridge-orders" THEN orders ELSE payments]
    BY DEF BridgeRestart
  <1>2. \A c \in BridgeConsumers : consumers'[c] \in Left(c)
    BY <1>1 DEF BridgeConsumers
  <1> QED
    BY <1>1, <1>2

\* Every step keeps the types.
LEMMA TypeStep ==
    ASSUME TypeOK, BridgeInv, NotifierInv, [Next]_vars
    PROVE  TypeOK'
  <1> USE DEF NotifierPcs
  <1>e. /\ notifier \in [pc : NotifierPcs, event : Events \cup {NoEvent}, linked : BOOLEAN]
        /\ notifier.pc \in {"sending", "logging", "acking"} <=> notifier.event \in Events
    BY EventOfNotifier
  <1>q. queue \in Seq(Events) /\ mailed \in [Events -> Nat] /\ logged \in [Events -> Nat]
    BY DEF TypeOK
  <1>1. ASSUME NEW c \in BridgeConsumers, NEW i \in Deliverable(c), BridgeReceive(c, i)
        PROVE  TypeOK'
    <2>1. i \in Nat /\ c \in Consumers
      BY StreamTypes, DeliverablePosition DEF TypeOK
    <2>2. JetStreamType(Events)'
      BY <1>1, <2>1, DeliverType DEF TypeOK, BridgeReceive
    <2>3. bridge' \in [BridgeConsumers -> [pc : BridgePcs, msg : Nat]]
      BY <1>1, <2>1 DEF TypeOK, BridgeReceive, BridgeGoes, BridgePcs
    <2> QED
      BY <1>1, <2>2, <2>3 DEF TypeOK, BridgeReceive, NoFault, FaultsType, notifierVars
  <1>2. ASSUME NEW c \in BridgeConsumers, Forward(c)
        PROVE  TypeOK'
    <2>1. BridgeEvent(c) \in Events
      BY <1>2, MessageOfBridge DEF Forward
    <2>2. bridge' \in [BridgeConsumers -> [pc : BridgePcs, msg : Nat]]
      <3>1. [bridge[c] EXCEPT !.pc = "acking"] \in [pc : BridgePcs, msg : Nat]
        BY StreamTypes DEF BridgePcs
      <3> QED
        BY <1>2, <3>1 DEF TypeOK, Forward, BridgeGoes
    <2>3. queue' \in Seq(Events)
      <3>1. Append(queue, BridgeEvent(c)) \in Seq(Events)
        BY <1>q, <2>1, AppendProperties
      <3> QED
        BY <1>2, <1>q, <3>1 DEF Forward
    <2>4. lost' \subseteq Events
      BY <1>2, <2>1 DEF TypeOK, Forward
    <2>5. FaultsType'
      BY <1>2, FaultCounted DEF TypeOK, Forward
    <2> QED
      BY <1>2, <2>2, <2>3, <2>4, <2>5 DEF TypeOK, JetStreamType, Forward, notifierVars
  <1>3. ASSUME NEW c \in BridgeConsumers, BridgeAck(c)
        PROVE  TypeOK'
    <2>1. c \in Consumers /\ bridge[c].msg \in Nat
      BY StreamTypes
    <2>2. JetStreamType(Events)'
      BY <1>3, <2>1, RedeliverType DEF TypeOK, BridgeAck, JetStreamType
    <2>3. bridge' \in [BridgeConsumers -> [pc : BridgePcs, msg : Nat]]
      BY <1>3, BridgeRestType DEF BridgeAck, BridgeGoes
    <2>4. FaultsType'
      BY <1>3, FaultCounted DEF TypeOK, BridgeAck
    <2> QED
      BY <1>3, <2>2, <2>3, <2>4 DEF TypeOK, BridgeAck, notifierVars
  <1>4. ASSUME NEW s \in Streams, NotifierBinds(s)
        PROVE  TypeOK'
    BY <1>4 DEF TypeOK, NotifierBinds, JetStreamType, NoFault, FaultsType, bridgeVars, notifierVars
  <1>5. CASE NotifierConsumes
    BY <1>5 DEF TypeOK, NotifierConsumes, NotifierGoes, JetStreamType, NoFault, FaultsType,
                bridgeVars
  <1>6. CASE NotifierReceives
    <2>1. Head(queue) \in Events /\ Tail(queue) \in Seq(Events)
      BY <1>6, <1>q, HeadTailProperties DEF NotifierReceives
    <2>2. notifier' \in [pc : NotifierPcs, event : Events \cup {NoEvent}, linked : BOOLEAN]
      BY <1>6, <1>e, <2>1 DEF NotifierReceives
    <2>3. queue' \in Seq(Events)
      BY <1>6, <2>1 DEF NotifierReceives
    <2> QED
      BY <1>6, <2>2, <2>3 DEF TypeOK, NotifierReceives, JetStreamType, NoFault, FaultsType,
                              bridgeVars
  <1>7. CASE Send
    <2>1. notifier.event \in Events
      BY <1>7, <1>e DEF Send
    <2>2. notifier' \in [pc : NotifierPcs, event : Events \cup {NoEvent}, linked : BOOLEAN]
      BY <1>7, <1>e DEF Send, NotifierGoes
    <2>3. mailed' \in [Events -> Nat] /\ lost' \subseteq Events
      BY <1>7, <1>q, <2>1 DEF Send, TypeOK
    <2>4. FaultsType'
      BY <1>7, FaultCounted DEF TypeOK, Send
    <2> QED
      BY <1>7, <2>2, <2>3, <2>4 DEF TypeOK, Send, JetStreamType, bridgeVars
  <1>8. CASE Log
    <2>1. notifier' \in [pc : NotifierPcs, event : Events \cup {NoEvent}, linked : BOOLEAN]
      BY <1>8, <1>e DEF Log, NotifierGoes
    <2>2. logged' \in [Events -> Nat]
      <3>1. notifier.event \in Events
        BY <1>8, <1>e DEF Log
      <3>2. logged' = [logged EXCEPT ![notifier.event] = @ + 1] \/ logged' = logged
        BY <1>8 DEF Log
      <3> QED
        BY <1>q, <3>1, <3>2
    <2>3. FaultsType'
      BY <1>8, FaultCounted DEF TypeOK, Log
    <2> QED
      BY <1>8, <2>1, <2>2, <2>3 DEF TypeOK, Log, JetStreamType, bridgeVars
  <1>9. CASE NotifierAcks
    BY <1>9, <1>e DEF TypeOK, NotifierAcks, JetStreamType, NoFault, FaultsType, bridgeVars
  <1>10. CASE NotifierStops
    BY <1>10, <1>e DEF TypeOK, NotifierStops, NotifierGoes, JetStreamType, NoFault, FaultsType,
                       bridgeVars
  <1>11. ASSUME NEW e \in Events, EventPublished(e)
         PROVE  TypeOK'
    <2>1. StreamFor[e] \in Streams
      BY NotificationAssumption
    <2>2. JetStreamType(Events)'
      BY <1>11, <2>1, PublishType DEF TypeOK, EventPublished
    <2> QED
      BY <1>11, <2>2 DEF TypeOK, EventPublished, NoFault, FaultsType, bridgeVars, notifierVars
  <1>12. CASE BridgeRestart
    <2>1. bridge' \in [BridgeConsumers -> [pc : BridgePcs, msg : Nat]]
      BY <1>12 DEF BridgeRestart, BridgeRest, BridgePcs
    <2>2. consumers' \in [Consumers -> [next : Nat \ {0}, again : SUBSET Nat]]
      BY <1>12, RestartedConsumers, LeftType, TheConsumers
    <2>3. FaultsType'
      BY <1>12, FaultCounted DEF TypeOK, BridgeRestart
    <2> QED
      BY <1>12, <2>1, <2>2, <2>3 DEF TypeOK, BridgeRestart, JetStreamType, notifierVars
  <1>13. CASE NotifierRestart
    <2>1. queue' \in Seq(Events)
      BY <1>13, UnackedIsBack DEF NotifierRestart
    <2>2. FaultsType'
      BY <1>13, FaultCounted DEF TypeOK, NotifierRestart
    <2> QED
      BY <1>13, <2>1, <2>2 DEF TypeOK, NotifierRestart, JetStreamType, bridgeVars
  <1>14. CASE BrokerRestart
    <2>1. queue' \in Seq(Events)
      BY <1>14, UnackedIsBack DEF BrokerRestart
    <2>2. FaultsType'
      BY <1>14, FaultCounted DEF TypeOK, BrokerRestart
    <2>3. notifier' \in [pc : NotifierPcs, event : Events \cup {NoEvent}, linked : BOOLEAN]
      BY <1>14, <1>e DEF BrokerRestart
    <2> QED
      BY <1>14, <2>1, <2>2, <2>3 DEF TypeOK, BrokerRestart, JetStreamType
  <1>15. CASE UNCHANGED vars
    BY <1>15 DEF vars, TypeOK, JetStreamType, FaultsType
  <1> QED
    BY <1>1, <1>2, <1>3, <1>4, <1>5, <1>6, <1>7, <1>8, <1>9, <1>10, <1>11, <1>12, <1>13, <1>14,
       <1>15
    DEF Next, BridgeStep, NotifierStep, AtRest

-----------------------------------------------------------------------------
(* What the bridge may acknowledge *)

\* What is in the queue, in the notifier's hands, mailed or given up stays so.
LEMMA KeptStays ==
    ASSUME TypeOK, BridgeInv, NotifierInv, [Next]_vars, NEW e \in Events, Kept(e)
    PROVE  Kept(e)'
  <1>q. queue \in Seq(Events) /\ Len(queue) \in Nat
        /\ mailed \in [Events -> Nat] /\ NoEvent \notin Events
    BY NotificationAssumption DEF TypeOK
  <1>1. ASSUME UNCHANGED <<queue, notifierVars, lost>>
        PROVE  Kept(e)'
    BY <1>1 DEF Kept, Queued, notifierVars
  <1>2. ASSUME NEW c \in BridgeConsumers, Forward(c)
        PROVE  Kept(e)'
    <2>1. BridgeEvent(c) \in Events
      BY <1>2, MessageOfBridge DEF Forward
    <2>2. Queued(e) => Queued(e)'
      <3>1. /\ Len(Append(queue, BridgeEvent(c))) = Len(queue) + 1
            /\ \A i \in 1..Len(queue) : Append(queue, BridgeEvent(c))[i] = queue[i]
        BY <1>q, <2>1, AppendProperties
      <3>2. queue' = Append(queue, BridgeEvent(c)) \/ queue' = queue
        BY <1>2 DEF Forward
      <3>3. CASE queue' = queue
        BY <3>3 DEF Queued
      <3>4. CASE queue' = Append(queue, BridgeEvent(c))
        <4>1. Len(queue') = Len(queue) + 1 /\ \A i \in 1..Len(queue) : queue'[i] = queue[i]
          BY <3>1, <3>4
        <4> QED
          BY <1>q, <4>1 DEF Queued
      <3> QED
        BY <3>2, <3>3, <3>4
    <2>3. UNCHANGED <<notifier, mailed>> /\ lost \subseteq lost'
      BY <1>2 DEF Forward, notifierVars
    <2> QED
      BY <2>2, <2>3 DEF Kept
  <1>3. CASE NotifierReceives
    <2>1. UNCHANGED <<mailed, lost>> /\ notifier.event \notin Events
      BY <1>3, EventOfNotifier DEF NotifierReceives
    <2>2. ASSUME Queued(e) PROVE Queued(e)' \/ notifier'.event = e
      <3>1. PICK i \in 1..Len(queue) : queue[i] = e
        BY <2>2 DEF Queued
      <3>2. /\ queue' = Tail(queue) /\ notifier'.event = Head(queue) /\ queue # << >>
        BY <1>3, EventOfNotifier DEF NotifierReceives
      <3>3. /\ Len(queue) = Len(queue') + 1 /\ Head(queue) = queue[1]
            /\ queue' \in Seq(Events) /\ \A j \in 1..Len(queue') : queue'[j] = queue[j + 1]
        BY <1>q, <3>2, CopyTaken
      <3>4. CASE i = 1
        BY <3>1, <3>2, <3>3, <3>4
      <3>5. CASE i # 1
        <4>1. i - 1 \in 1..Len(queue') /\ i - 1 + 1 = i
          BY <1>q, <3>1, <3>3, <3>5
        <4>2. queue'[i - 1] = e
          BY <3>1, <3>3, <4>1
        <4> QED
          BY <4>1, <4>2 DEF Queued
      <3> QED
        BY <3>4, <3>5
    <2> QED
      BY <2>1, <2>2 DEF Kept
  <1>4. CASE Send
    <2>1. notifier.event \in Events /\ notifier'.event = notifier.event /\ lost \subseteq lost'
          /\ UNCHANGED queue
      BY <1>4, EventOfNotifier DEF Send, NotifierGoes
    <2>2. mailed' = [mailed EXCEPT ![notifier.event] = @ + 1] \/ mailed' = mailed
      BY <1>4 DEF Send
    <2>3. mailed[e] > 0 => mailed'[e] > 0
      BY <1>q, <2>1, <2>2
    <2> QED
      BY <2>1, <2>3 DEF Kept, Queued
  <1>5. CASE NotifierConsumes \/ Log \/ NotifierStops
    <2>1. notifier'.event = notifier.event /\ UNCHANGED <<queue, mailed, lost>>
      BY <1>5, EventOfNotifier DEF NotifierConsumes, Log, NotifierStops, NotifierGoes
    <2> QED
      BY <2>1 DEF Kept, Queued
  <1>6. CASE NotifierAcks
    <2>1. UNCHANGED <<queue, mailed, lost>>
      BY <1>6 DEF NotifierAcks
    <2>2. notifier.event = e => mailed[e] > 0 \/ e \in lost
      BY <1>6 DEF NotifierAcks, NotifierInv
    <2> QED
      BY <2>1, <2>2 DEF Kept, Queued
  <1>7. CASE NotifierRestart
    <2>1. queue' = Unacked \o queue /\ UNCHANGED <<mailed, lost>>
      BY <1>7 DEF NotifierRestart
    <2>2. notifier.event = e => Queued(e)'
      <3>1. CASE notifier.linked
        BY <2>1, <3>1, UnackedIsBack DEF Queued
      <3>2. CASE ~notifier.linked
        BY <1>q, <2>1, <3>2, UnackedIsBack DEF NotifierInv
      <3> QED
        BY <3>1, <3>2
    <2> QED
      BY <2>1, <2>2, UnackedIsBack DEF Kept
  <1>8. CASE BrokerRestart
    <2>1. queue' = Unacked \o queue /\ UNCHANGED <<mailed, lost>>
          /\ notifier'.event = notifier.event
      BY <1>8, EventOfNotifier DEF BrokerRestart
    <2> QED
      BY <2>1, UnackedIsBack DEF Kept
  <1>9. ASSUME NEW c \in BridgeConsumers,
               BridgeAck(c) \/ \E i \in Deliverable(c) : BridgeReceive(c, i)
        PROVE  Kept(e)'
    BY <1>1, <1>9 DEF BridgeAck, BridgeReceive
  <1>10. CASE BridgeRestart \/ (\E f \in Events : EventPublished(f))
              \/ (\E s \in Streams : NotifierBinds(s)) \/ UNCHANGED vars
    BY <1>1, <1>10 DEF BridgeRestart, EventPublished, NotifierBinds, vars, notifierVars
  <1> QED
    BY <1>2, <1>3, <1>4, <1>5, <1>6, <1>7, <1>8, <1>9, <1>10
    DEF Next, BridgeStep, NotifierStep, AtRest

\* The notifier's part of the invariant.
LEMMA NotifierStepKeeps ==
    ASSUME TypeOK, BridgeInv, NotifierInv, [Next]_vars
    PROVE  NotifierInv'
  <1>q. queue \in Seq(Events) /\ mailed \in [Events -> Nat] /\ NoEvent \notin Events
    BY NotificationAssumption DEF TypeOK
  <1>0. ASSUME UNCHANGED <<queue, notifierVars, lost>>
        PROVE  NotifierInv'
    BY <1>0 DEF NotifierInv, Queued, notifierVars
  <1>1. ASSUME NEW c \in BridgeConsumers, Forward(c)
        PROVE  NotifierInv'
    <2>1. UNCHANGED notifierVars /\ lost \subseteq lost'
      BY <1>1 DEF Forward
    <2>2. ASSUME NEW e \in Events, Queued(e) PROVE Queued(e)'
      <3>1. BridgeEvent(c) \in Events
        BY <1>1, MessageOfBridge DEF Forward
      <3>2. /\ Len(queue) \in Nat /\ Len(Append(queue, BridgeEvent(c))) = Len(queue) + 1
            /\ \A i \in 1..Len(queue) : Append(queue, BridgeEvent(c))[i] = queue[i]
        BY <1>q, <3>1, AppendProperties
      <3>3. CASE queue' = queue
        BY <2>2, <3>3 DEF Queued
      <3>4. CASE queue' = Append(queue, BridgeEvent(c))
        <4>1. Len(queue') = Len(queue) + 1 /\ \A i \in 1..Len(queue) : queue'[i] = queue[i]
          BY <3>2, <3>4
        <4> QED
          BY <2>2, <3>2, <4>1 DEF Queued
      <3> QED
        BY <1>1, <3>3, <3>4 DEF Forward
    <2>3. notifier.event # NoEvent => notifier.event \in Events
      BY EventOfNotifier
    <2> QED
      BY <2>1, <2>2, <2>3, <1>q DEF NotifierInv, notifierVars
  <1>2. CASE NotifierReceives
    <2>1. Head(queue) \in Events /\ Head(queue) # NoEvent
      BY <1>2, <1>q, HeadTailProperties DEF NotifierReceives
    <2>2. notifier' = [notifier EXCEPT !.pc = "sending", !.event = Head(queue)]
          /\ notifier.linked
      BY <1>2 DEF NotifierReceives
    <2>3. notifier'.pc = "sending" /\ notifier'.event = Head(queue) /\ notifier'.linked
      BY <2>2, EventOfNotifier
    <2> QED
      BY <2>1, <2>3 DEF NotifierInv
  <1>3. CASE Send
    <2>1. /\ notifier.event \in Events /\ notifier'.event = notifier.event
          /\ notifier'.pc = "logging" /\ notifier'.linked = notifier.linked
          /\ UNCHANGED queue
      BY <1>3, EventOfNotifier DEF Send, NotifierGoes
    <2>2. mailed'[notifier.event] > 0 \/ notifier.event \in lost'
      <3>1. CASE mailed' = [mailed EXCEPT ![notifier.event] = @ + 1]
        BY <1>q, <2>1, <3>1
      <3>2. CASE lost' = lost \cup {notifier.event}
        BY <3>2
      <3> QED
        BY <1>3, <3>1, <3>2 DEF Send
    <2>3. ~notifier.linked => Queued(notifier.event)
      BY <1>q, <2>1 DEF NotifierInv
    <2> QED
      BY <1>q, <2>1, <2>2, <2>3 DEF NotifierInv, Queued
  <1>4. CASE Log
    <2>1. /\ notifier.pc = "logging" /\ notifier'.event = notifier.event
          /\ notifier'.pc = "acking" /\ notifier'.linked = notifier.linked
          /\ UNCHANGED <<queue, mailed, lost>>
      BY <1>4, EventOfNotifier DEF Log, NotifierGoes
    <2> QED
      BY <2>1 DEF NotifierInv, Queued
  <1>5. CASE NotifierAcks
    <2>1. notifier'.event = NoEvent /\ notifier'.pc = "idle"
      BY <1>5, EventOfNotifier DEF NotifierAcks
    <2> QED
      BY <2>1 DEF NotifierInv
  <1>6. CASE NotifierConsumes \/ NotifierStops
    <2>1. /\ notifier.event = NoEvent /\ notifier'.event = NoEvent
          /\ notifier'.pc \in {"idle", "dead"}
      BY <1>6, EventOfNotifier DEF NotifierConsumes, NotifierStops, NotifierGoes, NotifierInv
    <2> QED
      BY <2>1 DEF NotifierInv
  <1>7. CASE NotifierRestart
    BY <1>7 DEF NotifierRestart, NotifierInv
  <1>8. CASE BrokerRestart
    <2>1. /\ notifier'.event = notifier.event /\ notifier'.pc = notifier.pc
          /\ queue' = Unacked \o queue /\ UNCHANGED <<mailed, lost>>
      BY <1>8, EventOfNotifier DEF BrokerRestart
    <2>2. ASSUME notifier.event # NoEvent PROVE Queued(notifier.event)'
      <3>1. notifier.event \in Events
        BY <2>2, EventOfNotifier
      <3>2. \E i \in 1..Len(queue') : queue'[i] = notifier.event
        <4>1. CASE notifier.linked
          BY <2>1, <3>1, <4>1, UnackedIsBack
        <4>2. CASE ~notifier.linked
          <5>1. Queued(notifier.event)
            BY <2>2, <4>2 DEF NotifierInv
          <5> QED
            BY <2>1, <3>1, <5>1, UnackedIsBack DEF Queued
        <4> QED
          BY <4>1, <4>2
      <3> QED
        BY <2>1, <3>2 DEF Queued
    <2> QED
      BY <2>1, <2>2 DEF NotifierInv
  <1>9. ASSUME NEW c \in BridgeConsumers,
               BridgeAck(c) \/ \E i \in Deliverable(c) : BridgeReceive(c, i)
        PROVE  NotifierInv'
    BY <1>0, <1>9 DEF BridgeAck, BridgeReceive
  <1>10. CASE BridgeRestart \/ (\E f \in Events : EventPublished(f))
              \/ (\E s \in Streams : NotifierBinds(s)) \/ UNCHANGED vars
    BY <1>0, <1>10 DEF BridgeRestart, EventPublished, NotifierBinds, vars, notifierVars
  <1> QED
    BY <1>1, <1>2, <1>3, <1>4, <1>5, <1>6, <1>7, <1>8, <1>9, <1>10
    DEF Next, BridgeStep, NotifierStep, AtRest

\* A step of the notifier or of a broker moves nothing the bridge looks at.
LEMMA BridgeAtRest ==
    ASSUME TypeOK, BridgeInv, NotifierInv, HandedOn, [Next]_vars,
           UNCHANGED <<streams, consumers, bridge>>
    PROVE  BridgeInv' /\ HandedOn'
  <1>1. ASSUME NEW c \in BridgeConsumers, bridge[c].pc = "acking"
        PROVE  Kept(BridgeEvent(c))'
    <2>1. BridgeEvent(c) \in Events /\ Kept(BridgeEvent(c)) /\ BridgeEvent(c)' = BridgeEvent(c)
      BY <1>1, MessageOfBridge DEF BridgeInv, ConsumerInv, BridgeEvent
    <2> DEFINE e == BridgeEvent(c)
    <2>2. Kept(e)'
      BY <2>1, KeptStays
    <2> QED
      BY <2>2
  <1>2. ASSUME NEW c \in BridgeConsumers, NEW i \in 1..Len(streams[StreamOf[c]]),
               Settled(c, i)
        PROVE  Kept(streams[StreamOf[c]][i])'
    <2>1. streams[StreamOf[c]][i] \in Events /\ Kept(streams[StreamOf[c]][i])
      BY <1>2, StreamTypes DEF HandedOn, Kept
    <2> QED
      BY <2>1, KeptStays
  <1>3. BridgeInv'
    BY <1>1 DEF BridgeInv, ConsumerInv
  <1>4. HandedOn'
    BY <1>2 DEF HandedOn, Settled, Kept
  <1> QED
    BY <1>3, <1>4

\* The messages the bridge acknowledged.
Handed(c) ==
    \A i \in 1..Len(streams[StreamOf[c]]) : Settled(c, i) => Kept(streams[StreamOf[c]][i])

LEMMA PerConsumer ==
    BridgeInv /\ HandedOn <=> \A c \in BridgeConsumers : ConsumerInv(c) /\ Handed(c)
  BY DEF BridgeInv, HandedOn, Handed, Kept

\* The parts of what a consumer holds that a step of the bridge changes.
LEMMA ConsumerKept ==
    ASSUME TypeOK, BridgeInv, NotifierInv, HandedOn, [Next]_vars, UNCHANGED streams,
           NEW c \in BridgeConsumers,
           consumers'[c].next <= Len(streams[StreamOf[c]]) + 1,
           \A i \in consumers'[c].again : i < consumers'[c].next,
           bridge'[c].pc = "idle" <=> bridge'[c].msg = 0,
           bridge'[c].msg # 0 => /\ bridge'[c].msg < consumers'[c].next
                                 /\ bridge'[c].msg \notin consumers'[c].again,
           bridge'[c].pc = "acking" => Kept(BridgeEvent(c))',
           \A i \in 1..Len(streams[StreamOf[c]]) :
               Settled(c, i)' => Settled(c, i) \/ Kept(streams[StreamOf[c]][i])
    PROVE  ConsumerInv(c)' /\ Handed(c)'
  <1>1. ConsumerInv(c)'
    BY DEF ConsumerInv
  <1>2. ASSUME NEW i \in 1..Len(streams[StreamOf[c]]), Settled(c, i)'
        PROVE  Kept(streams[StreamOf[c]][i])'
    <2>1. streams[StreamOf[c]][i] \in Events
      BY StreamTypes
    <2>2. Kept(streams[StreamOf[c]][i])
      BY <1>2, PerConsumer DEF Handed
    <2> DEFINE e == streams[StreamOf[c]][i]
    <2>3. Kept(e)'
      BY <2>1, <2>2, KeptStays
    <2> QED
      BY <2>3
  <1>3. Handed(c)'
    BY <1>2 DEF Handed
  <1> QED
    BY <1>1, <1>3

\* A consumer that the step leaves alone.
LEMMA ConsumerAtRest ==
    ASSUME TypeOK, BridgeInv, NotifierInv, HandedOn, [Next]_vars, UNCHANGED streams,
           NEW c \in BridgeConsumers, consumers'[c] = consumers[c], bridge'[c] = bridge[c]
    PROVE  ConsumerInv(c)' /\ Handed(c)'
  <1>1. ConsumerInv(c)
    BY DEF BridgeInv
  <1>2. ASSUME bridge'[c].pc = "acking"
        PROVE  Kept(BridgeEvent(c))'
    <2>1. BridgeEvent(c) \in Events /\ Kept(BridgeEvent(c))
      BY <1>1, <1>2, MessageOfBridge DEF ConsumerInv
    <2>2. BridgeEvent(c)' = BridgeEvent(c)
      BY DEF BridgeEvent
    <2>3. PICK e \in Events : e = BridgeEvent(c)
      BY <2>1
    <2>4. Kept(e)'
      BY <2>1, <2>3, KeptStays
    <2> QED
      BY <2>2, <2>3, <2>4 DEF Kept, Queued
  <1>3. \A i : Settled(c, i)' => Settled(c, i)
    BY DEF Settled
  <1> QED
    BY <1>1, <1>2, <1>3, ConsumerKept DEF ConsumerInv

\* So do the bridge's own steps, a publish and a restart of the bridge.
LEMMA BridgeStepKeeps ==
    ASSUME TypeOK, BridgeInv, NotifierInv, HandedOn, [Next]_vars
    PROVE  BridgeInv' /\ HandedOn'
  <1>r. ASSUME UNCHANGED <<streams, consumers, bridge>>
        PROVE  BridgeInv' /\ HandedOn'
    BY <1>r, BridgeAtRest
  <1>w. (\A c \in BridgeConsumers : ConsumerInv(c)' /\ Handed(c)') => BridgeInv' /\ HandedOn'
    <2> SUFFICES ASSUME \A c \in BridgeConsumers : ConsumerInv(c)' /\ Handed(c)'
                 PROVE  BridgeInv' /\ HandedOn'
      OBVIOUS
    <2> QED
      BY DEF BridgeInv, HandedOn, Handed, Kept
  <1>g. \A c \in BridgeConsumers : ConsumerInv(c) /\ Handed(c)
    BY PerConsumer
  <1>1. ASSUME NEW c \in BridgeConsumers, NEW i \in Deliverable(c), BridgeReceive(c, i)
        PROVE  BridgeInv' /\ HandedOn'
    <2>1. /\ UNCHANGED streams /\ bridge[c].pc = "idle"
          /\ bridge' = [bridge EXCEPT ![c] = [pc |-> "forwarding", msg |-> i]]
          /\ consumers' = [consumers EXCEPT ![c] =
                [next |-> IF i = consumers[c].next THEN i + 1 ELSE consumers[c].next,
                 again |-> consumers[c].again \ {i}]]
      BY <1>1, StreamTypes DEF BridgeReceive, Deliver, BridgeGoes, TypeOK, JetStreamType
    <2>2. bridge[c].msg = 0
      BY <1>g, <2>1 DEF ConsumerInv
    <2>3. i \in 1..Len(streams[StreamOf[c]]) /\ i \in Nat \ {0}
      BY StreamTypes, DeliverablePosition DEF TypeOK
    <2>4. i = consumers[c].next \/ i \in consumers[c].again
      BY DEF Deliverable
    <2>5. bridge'[c] = [pc |-> "forwarding", msg |-> i]
      BY <2>1 DEF TypeOK
    <2>6. consumers'[c] =
              [next |-> IF i = consumers[c].next THEN i + 1 ELSE consumers[c].next,
               again |-> consumers[c].again \ {i}]
      BY <2>1, StreamTypes DEF TypeOK, JetStreamType
    <2>7. /\ consumers'[c].next = IF i = consumers[c].next THEN i + 1 ELSE consumers[c].next
          /\ consumers'[c].again = consumers[c].again \ {i}
          /\ bridge'[c].msg = i
      BY <2>5, <2>6
    <2>8. bridge'[c].pc = "forwarding"
      BY <2>5
    <2>9. /\ consumers[c].next \in Nat \ {0} /\ Len(streams[StreamOf[c]]) \in Nat
          /\ consumers[c].next <= Len(streams[StreamOf[c]]) + 1
          /\ consumers[c].again \subseteq Nat
          /\ \A j \in consumers[c].again : j < consumers[c].next
      BY <1>g, StreamTypes DEF ConsumerInv
    <2>10. /\ consumers'[c].next <= Len(streams[StreamOf[c]]) + 1
           /\ i < consumers'[c].next
           /\ \A j \in consumers'[c].again : j < consumers'[c].next
           /\ i # 0 /\ i \notin consumers'[c].again
      BY <2>3, <2>4, <2>7, <2>9
    <2>11. ASSUME NEW j \in 1..Len(streams[StreamOf[c]]), Settled(c, j)'
           PROVE  Settled(c, j)
      <3>1. j \in Nat \ {0} /\ j < consumers'[c].next /\ j \notin consumers'[c].again /\ j # i
        BY <2>7, <2>9, <2>11 DEF Settled
      <3>2. j < consumers[c].next /\ j \notin consumers[c].again
        BY <2>3, <2>7, <2>9, <3>1
      <3> QED
        BY <2>2, <3>1, <3>2 DEF Settled
    <2>12. /\ bridge'[c].pc = "idle" <=> bridge'[c].msg = 0
           /\ bridge'[c].pc # "acking"
      BY <2>7, <2>8, <2>10
    <2>13. ConsumerInv(c)' /\ Handed(c)'
      BY <2>1, <2>7, <2>10, <2>11, <2>12, ConsumerKept
    <2>14. ASSUME NEW d \in BridgeConsumers, d # c PROVE ConsumerInv(d)' /\ Handed(d)'
      <3>1. consumers'[d] = consumers[d] /\ bridge'[d] = bridge[d]
        BY <2>1, <2>14, StreamTypes DEF TypeOK, JetStreamType
      <3> QED
        BY <2>1, <3>1, ConsumerAtRest
    <2> QED
      BY <1>w, <2>13, <2>14
  <1>2. ASSUME NEW c \in BridgeConsumers, Forward(c)
        PROVE  BridgeInv' /\ HandedOn'
    <2>1. /\ UNCHANGED <<streams, consumers>> /\ bridge[c].pc = "forwarding"
          /\ bridge' = [bridge EXCEPT ![c] = [bridge[c] EXCEPT !.pc = "acking"]]
      BY <1>2 DEF Forward, BridgeGoes
    <2>2. bridge'[c].pc = "acking" /\ bridge'[c].msg = bridge[c].msg
      <3>1. bridge'[c] = [bridge[c] EXCEPT !.pc = "acking"]
        BY <2>1 DEF TypeOK
      <3> QED
        BY <3>1, StreamTypes
    <2>3. bridge[c].msg # 0 /\ BridgeEvent(c) \in Events /\ BridgeEvent(c)' = BridgeEvent(c)
      BY <2>1, <2>2, MessageOfBridge DEF BridgeEvent
    <2>4. Kept(BridgeEvent(c))'
      <3>1. CASE queue' = Append(queue, BridgeEvent(c))
        <4>1. queue \in Seq(Events)
          BY DEF TypeOK
        <4>2. /\ Len(queue) \in Nat /\ Len(queue') = Len(queue) + 1
              /\ queue'[Len(queue) + 1] = BridgeEvent(c)
          BY <2>3, <3>1, <4>1, AppendProperties
        <4>3. \E i \in 1..Len(queue') : queue'[i] = BridgeEvent(c)
          BY <4>2
        <4> QED
          BY <2>3, <4>3 DEF Kept, Queued
      <3>2. CASE lost' = lost \cup {BridgeEvent(c)}
        BY <2>3, <3>2 DEF Kept
      <3> QED
        BY <1>2, <3>1, <3>2 DEF Forward
    <2>5. \A i : Settled(c, i)' => Settled(c, i)
      BY <2>1, <2>2 DEF Settled
    <2>6. ConsumerInv(c)' /\ Handed(c)'
      <3>1. /\ consumers'[c].next <= Len(streams[StreamOf[c]]) + 1
            /\ \A j \in consumers'[c].again : j < consumers'[c].next
            /\ bridge'[c].msg < consumers'[c].next /\ bridge'[c].msg \notin consumers'[c].again
        BY <1>g, <2>1, <2>2, <2>3 DEF ConsumerInv
      <3>2. bridge'[c].pc = "idle" <=> bridge'[c].msg = 0
        BY <2>2, <2>3
      <3> QED
        BY <2>1, <2>4, <2>5, <3>1, <3>2, ConsumerKept
    <2>7. ASSUME NEW d \in BridgeConsumers, d # c PROVE ConsumerInv(d)' /\ Handed(d)'
      BY <2>1, <2>7, ConsumerAtRest DEF TypeOK
    <2> QED
      BY <1>w, <2>6, <2>7
  <1>3. ASSUME NEW c \in BridgeConsumers, BridgeAck(c)
        PROVE  BridgeInv' /\ HandedOn'
    <2>1. /\ UNCHANGED streams /\ bridge[c].pc = "acking"
          /\ bridge' = [bridge EXCEPT ![c] = BridgeRest]
      BY <1>3 DEF BridgeAck, BridgeGoes
    <2>2. consumers' = consumers \/ Redeliver(c, bridge[c].msg)
      BY <1>3 DEF BridgeAck
    <2>3. bridge'[c].pc = "idle" /\ bridge'[c].msg = 0
      BY <2>1 DEF TypeOK, BridgeRest
    <2>4. /\ consumers'[c].next = consumers[c].next
          /\ \/ consumers'[c].again = consumers[c].again
             \/ consumers'[c].again = consumers[c].again \cup {bridge[c].msg}
      <3>1. CASE consumers' = consumers
        BY <3>1
      <3>2. CASE Redeliver(c, bridge[c].msg)
        <4>1. consumers' = [consumers EXCEPT
                  ![c] = [consumers[c] EXCEPT !.again = consumers[c].again \cup {bridge[c].msg}]]
          BY <3>2, StreamTypes DEF Redeliver, TypeOK, JetStreamType
        <4>2. consumers'[c] =
                  [consumers[c] EXCEPT !.again = consumers[c].again \cup {bridge[c].msg}]
          BY <4>1, StreamTypes DEF TypeOK, JetStreamType
        <4> QED
          BY <4>2, StreamTypes
      <3> QED
        BY <2>2, <3>1, <3>2
    <2>5. /\ bridge[c].msg < consumers[c].next
          /\ Kept(BridgeEvent(c))
      BY <1>g, <2>1, MessageOfBridge DEF ConsumerInv
    <2>6. ASSUME NEW j \in 1..Len(streams[StreamOf[c]]), Settled(c, j)'
          PROVE  Settled(c, j) \/ Kept(streams[StreamOf[c]][j])
      <3>1. j < consumers[c].next /\ j \notin consumers[c].again
        BY <2>4, <2>6 DEF Settled
      <3>2. CASE bridge[c].msg = j
        BY <2>5, <3>2 DEF BridgeEvent
      <3>3. CASE bridge[c].msg # j
        BY <3>1, <3>3 DEF Settled
      <3> QED
        BY <3>2, <3>3
    <2>7. /\ consumers'[c].next <= Len(streams[StreamOf[c]]) + 1
          /\ \A j \in consumers'[c].again : j < consumers'[c].next
      BY <1>g, <2>4, <2>5 DEF ConsumerInv
    <2>8. ConsumerInv(c)' /\ Handed(c)'
      BY <2>1, <2>3, <2>6, <2>7, ConsumerKept
    <2>9. ASSUME NEW d \in BridgeConsumers, d # c PROVE ConsumerInv(d)' /\ Handed(d)'
      <3>1. consumers'[d] = consumers[d] /\ bridge'[d] = bridge[d]
        BY <2>1, <2>2, <2>9, StreamTypes DEF TypeOK, JetStreamType, Redeliver
      <3> QED
        BY <2>1, <3>1, ConsumerAtRest
    <2> QED
      BY <1>w, <2>8, <2>9
  <1>4. ASSUME NEW e \in Events, EventPublished(e)
        PROVE  BridgeInv' /\ HandedOn'
    <2>1. StreamFor[e] \in Streams /\ Publish(StreamFor[e], e)
          /\ UNCHANGED <<consumers, bridge, queue, notifier, mailed, lost>>
      BY <1>4, NotificationAssumption DEF EventPublished, bridgeVars, notifierVars
    <2>2. ASSUME NEW c \in BridgeConsumers PROVE ConsumerInv(c)' /\ Handed(c)'
      <3>1. /\ Len(streams[StreamOf[c]]) \in Nat
            /\ Len(streams'[StreamOf[c]])
                  \in {Len(streams[StreamOf[c]]), Len(streams[StreamOf[c]]) + 1}
            /\ \A i \in 1..Len(streams[StreamOf[c]]) :
                   streams'[StreamOf[c]][i] = streams[StreamOf[c]][i]
        <4>1. StreamOf[c] \in Streams /\ Len(streams[StreamOf[c]]) \in Nat
          BY StreamTypes
        <4>2. CASE StreamOf[c] = StreamFor[e]
          BY <2>1, <4>1, <4>2, PublishAppends DEF TypeOK
        <4>3. CASE StreamOf[c] # StreamFor[e]
          BY <2>1, <4>1, <4>3, PublishAppends DEF TypeOK
        <4> QED
          BY <4>2, <4>3
      <3>2. \A f : Kept(f)' <=> Kept(f)
        BY <2>1 DEF Kept, Queued
      <3>3. /\ consumers[c].next \in Nat /\ consumers[c].next <= Len(streams[StreamOf[c]]) + 1
            /\ consumers[c].next <= Len(streams'[StreamOf[c]]) + 1
        BY <1>g, <3>1, StreamTypes DEF ConsumerInv
      <3>4. bridge[c].pc = "acking" => Kept(BridgeEvent(c))'
        <4>1. bridge[c].pc = "acking" => /\ bridge[c].msg \in 1..Len(streams[StreamOf[c]])
                                         /\ Kept(BridgeEvent(c))
          BY <1>g, MessageOfBridge DEF ConsumerInv
        <4>2. bridge[c].pc = "acking" => BridgeEvent(c)' = BridgeEvent(c)
          BY <2>1, <3>1, <4>1 DEF BridgeEvent
        <4> QED
          BY <3>2, <4>1, <4>2 DEF Kept, Queued
      <3>5. ConsumerInv(c)'
        BY <1>g, <2>1, <3>3, <3>4 DEF ConsumerInv
      <3>6. ASSUME NEW i \in 1..Len(streams'[StreamOf[c]]), Settled(c, i)'
            PROVE  Kept(streams[StreamOf[c]][i])' 
        <4>1. Settled(c, i) /\ i < consumers[c].next
          BY <2>1, <3>6 DEF Settled
        <4>2. i \in 1..Len(streams[StreamOf[c]])
          BY <3>1, <3>3, <4>1
        <4>3. Kept(streams[StreamOf[c]][i])
          BY <1>g, <4>1, <4>2 DEF Handed
        <4>4. streams'[StreamOf[c]][i] = streams[StreamOf[c]][i]
          BY <3>1, <4>2
        <4> QED
          BY <2>1, <4>3, <4>4 DEF Kept, Queued
      <3>7. Handed(c)'
        BY <3>6 DEF Handed
      <3> QED
        BY <3>5, <3>7
    <2> QED
      BY <1>w, <2>2
  <1>5. CASE BridgeRestart
    <2>1. /\ UNCHANGED streams /\ bridge' = [c \in BridgeConsumers |-> BridgeRest]
      BY <1>5 DEF BridgeRestart
    <2>2. ASSUME NEW c \in BridgeConsumers PROVE ConsumerInv(c)' /\ Handed(c)'
      <3>1. bridge'[c].pc = "idle" /\ bridge'[c].msg = 0
        BY <2>1 DEF BridgeRest
      <3>2. /\ Len(streams[StreamOf[c]]) \in Nat /\ consumers[c].next \in Nat \ {0}
            /\ consumers[c].again \subseteq Nat /\ bridge[c].msg \in Nat
            /\ \A j \in consumers[c].again : j < consumers[c].next
            /\ bridge[c].msg # 0 => bridge[c].msg < consumers[c].next
        BY <1>g, StreamTypes DEF ConsumerInv
      <3>3. \/ consumers'[c].next = 1 /\ consumers'[c].again = {}
            \/ \E n \in consumers[c].next..(Len(streams[StreamOf[c]]) + 1) :
                  /\ consumers'[c].next = n
                  /\ consumers'[c].again = consumers[c].again \cup ({bridge[c].msg} \ {0})
                                           \cup (consumers[c].next..(n - 1))
        BY <1>5, RestartedConsumers DEF Left, AfterLoss
      <3>4. CASE consumers'[c].next = 1 /\ consumers'[c].again = {}
        <4>1. ASSUME NEW j \in 1..Len(streams[StreamOf[c]]), Settled(c, j)' PROVE FALSE
          BY <3>2, <3>4, <4>1 DEF Settled
        <4>2. consumers'[c].next <= Len(streams[StreamOf[c]]) + 1
          BY <3>2, <3>4
        <4> QED
          BY <2>1, <3>1, <3>4, <4>1, <4>2, ConsumerKept
      <3>5. ASSUME NEW n \in consumers[c].next..(Len(streams[StreamOf[c]]) + 1),
                   consumers'[c].next = n,
                   consumers'[c].again = consumers[c].again \cup ({bridge[c].msg} \ {0})
                                         \cup (consumers[c].next..(n - 1))
            PROVE  ConsumerInv(c)' /\ Handed(c)'
        <4>1. n \in Nat /\ consumers[c].next <= n /\ n <= Len(streams[StreamOf[c]]) + 1
          BY <3>2
        <4>2. \A j \in consumers'[c].again : j < consumers'[c].next
          BY <3>2, <3>5, <4>1
        <4>3. ASSUME NEW j \in 1..Len(streams[StreamOf[c]]), Settled(c, j)'
              PROVE  Settled(c, j)
          <5>1. j \in Nat \ {0} /\ j < n /\ j \notin consumers'[c].again
            BY <3>2, <3>5, <4>3 DEF Settled
          <5>2. j < consumers[c].next /\ j \notin consumers[c].again /\ bridge[c].msg # j
            BY <3>2, <3>5, <4>1, <5>1
          <5> QED
            BY <5>2 DEF Settled
        <4> QED
          BY <2>1, <3>1, <3>5, <4>1, <4>2, <4>3, ConsumerKept
      <3> QED
        BY <3>3, <3>4, <3>5
    <2> QED
      BY <1>w, <2>2
  <1>6. CASE NotifierStep \/ NotifierRestart \/ BrokerRestart \/ UNCHANGED vars
    <2>1. UNCHANGED <<streams, consumers, bridge>>
      BY <1>6 DEF NotifierStep, NotifierBinds, NotifierConsumes, NotifierReceives, Send, Log,
                  NotifierAcks, NotifierStops, NotifierRestart, BrokerRestart, vars, bridgeVars
    <2> QED
      BY <1>r, <2>1
  <1> QED
    BY <1>1, <1>2, <1>3, <1>4, <1>5, <1>6 DEF Next, BridgeStep, AtRest

-----------------------------------------------------------------------------
(* How often an event is mailed *)

\* Only a publish changes the streams.
LEMMA StreamsStepKeeps ==
    ASSUME TypeOK, StreamsInv, [Next]_vars
    PROVE  StreamsInv'
  <1>1. ASSUME UNCHANGED streams PROVE StreamsInv'
    BY <1>1 DEF StreamsInv
  <1>2. ASSUME NEW e \in Events, EventPublished(e) PROVE StreamsInv'
    <2> DEFINE s == StreamFor[e]
    <2>1. s \in Streams /\ Publish(s, e) /\ ~Stored(s, e)
      BY <1>2, NotificationAssumption DEF EventPublished
    <2> HIDE DEF s
    <2>2. /\ Len(streams[s]) \in Nat /\ Len(streams'[s]) = Len(streams[s]) + 1
          /\ streams'[s][Len(streams[s]) + 1] = e
          /\ \A i \in 1..Len(streams[s]) : streams'[s][i] = streams[s][i]
          /\ \A t \in Streams \ {s} : streams'[t] = streams[t]
      BY <2>1, PublishAppends DEF TypeOK
    <2>3. \A i \in 1..Len(streams[s]) : streams[s][i] # e
      BY <2>1 DEF Stored
    <2>4. ASSUME NEW t \in Streams, t # s, NEW i \in 1..Len(streams'[t])
          PROVE  /\ StreamFor[streams'[t][i]] = t
                 /\ \A j \in 1..Len(streams'[t]) : streams'[t][i] = streams'[t][j] => i = j
      BY <2>2, <2>4 DEF StreamsInv
    <2>5. ASSUME NEW i \in 1..Len(streams'[s])
          PROVE  /\ StreamFor[streams'[s][i]] = s
                 /\ \A j \in 1..Len(streams'[s]) : streams'[s][i] = streams'[s][j] => i = j
      <3>1. \A j \in 1..Len(streams'[s]) : j \in 1..Len(streams[s]) \/ j = Len(streams[s]) + 1
        BY <2>2
      <3>2. StreamFor[streams'[s][i]] = s
        <4>1. CASE i \in 1..Len(streams[s])
          BY <2>1, <2>2, <4>1 DEF StreamsInv
        <4>2. CASE i = Len(streams[s]) + 1
          BY <2>2, <4>2 DEF s
        <4> QED
          BY <3>1, <4>1, <4>2
      <3>3. ASSUME NEW j \in 1..Len(streams'[s]), streams'[s][i] = streams'[s][j]
            PROVE  i = j
        <4>1. CASE i \in 1..Len(streams[s]) /\ j \in 1..Len(streams[s])
          BY <2>1, <2>2, <3>3, <4>1 DEF StreamsInv
        <4>2. CASE i = Len(streams[s]) + 1 /\ j = Len(streams[s]) + 1
          BY <4>2
        <4>3. CASE i \in 1..Len(streams[s]) /\ j = Len(streams[s]) + 1
          BY <2>2, <2>3, <3>3, <4>3
        <4>4. CASE i = Len(streams[s]) + 1 /\ j \in 1..Len(streams[s])
          BY <2>2, <2>3, <3>3, <4>4
        <4> QED
          BY <3>1, <4>1, <4>2, <4>3, <4>4
      <3> QED
        BY <3>2, <3>3
    <2> QED
      BY <2>4, <2>5 DEF StreamsInv
  <1>3. CASE ~\E e \in Events : EventPublished(e)
    BY <1>1, <1>3
    DEF Next, BridgeStep, NotifierStep, AtRest, BridgeReceive, Forward, BridgeAck, NotifierBinds,
        NotifierConsumes, NotifierReceives, Send, Log, NotifierAcks, NotifierStops,
        BridgeRestart, NotifierRestart, BrokerRestart, vars
  <1> QED
    BY <1>2, <1>3

\* An event that was forwarded comes again only after a failure, and the one that is
\* forwarded now had been coming.
LEMMA ComingStays ==
    ASSUME TypeOK, BridgeInv, NotifierInv, StreamsInv, [Next]_vars, NEW e \in Events,
           faults' = faults, Coming(e)'
    PROVE  /\ Coming(e)
           /\ \A c \in BridgeConsumers : Forward(c) => BridgeEvent(c) # e
  <1>1. ASSUME UNCHANGED <<streams, consumers, bridge>>
        PROVE  Coming(e)
    BY <1>1 DEF Coming, Ahead
  \* The one place of an event.
  <1>p. ASSUME NEW c \in BridgeConsumers, NEW d \in BridgeConsumers,
               NEW i \in 1..Len(streams[StreamOf[c]]), NEW j \in 1..Len(streams[StreamOf[d]]),
               streams[StreamOf[c]][i] = streams[StreamOf[d]][j]
        PROVE  c = d /\ i = j
    BY <1>p, TheConsumers DEF StreamsInv
  <1>f. faults \in Nat
    BY FaultsAssumption DEF TypeOK, FaultsType
  <1>n. \A kind : ~Fault(kind)
    BY <1>f DEF Fault
  <1>a. ASSUME UNCHANGED streams,
               \A c \in BridgeConsumers : \A i \in 1..Len(streams[StreamOf[c]]) :
                   Ahead(c, i)' => Ahead(c, i)
        PROVE  Coming(e)
    BY <1>a DEF Coming
  <1>2. ASSUME NEW c \in BridgeConsumers, NEW k \in Deliverable(c), BridgeReceive(c, k)
        PROVE  Coming(e)
    <2>1. /\ UNCHANGED streams
          /\ bridge' = [bridge EXCEPT ![c] = [pc |-> "forwarding", msg |-> k]]
          /\ consumers' = [consumers EXCEPT ![c] =
                [next |-> IF k = consumers[c].next THEN k + 1 ELSE consumers[c].next,
                 again |-> consumers[c].again \ {k}]]
      BY <1>2, StreamTypes DEF BridgeReceive, Deliver, BridgeGoes, TypeOK, JetStreamType
    <2>2. k = consumers[c].next \/ k \in consumers[c].again
      BY DEF Deliverable
    <2>3. k \in Nat /\ consumers[c].next \in Nat
      BY StreamTypes, DeliverablePosition DEF TypeOK
    <2>4. /\ bridge'[c].msg = k
          /\ consumers'[c].next = IF k = consumers[c].next THEN k + 1 ELSE consumers[c].next
          /\ consumers'[c].again = consumers[c].again \ {k}
      BY <2>1, StreamTypes DEF TypeOK, JetStreamType
    <2>5. consumers'[c].next >= consumers[c].next /\ consumers'[c].next \in Nat
      BY <2>3, <2>4
    <2>6. ASSUME NEW d \in BridgeConsumers, NEW i \in 1..Len(streams[StreamOf[d]]), Ahead(d, i)'
          PROVE  Ahead(d, i)
      <3>1. CASE d = c
        <4>1. i >= consumers'[c].next \/ i \in consumers'[c].again \/ bridge'[c].msg = i
          BY <2>6, <3>1 DEF Ahead
        <4>2. i \in Nat
          BY StreamTypes
        <4>3. i >= consumers[c].next \/ i \in consumers[c].again
          BY <2>2, <2>3, <2>4, <2>5, <4>1, <4>2
        <4> QED
          BY <3>1, <4>3 DEF Ahead
      <3>2. CASE d # c
        BY <2>1, <2>6, <3>2, StreamTypes DEF Ahead, TypeOK, JetStreamType
      <3> QED
        BY <3>1, <3>2
    <2> QED
      BY <1>a, <2>1, <2>6
  <1>3. ASSUME NEW c \in BridgeConsumers, Forward(c)
        PROVE  Coming(e) /\ BridgeEvent(c) # e
    <2>1. /\ UNCHANGED <<streams, consumers>> /\ bridge[c].pc = "forwarding"
          /\ bridge' = [bridge EXCEPT ![c] = [bridge[c] EXCEPT !.pc = "acking"]]
      BY <1>3 DEF Forward, BridgeGoes
    <2>2. bridge'[c].pc = "acking"
      <3>1. bridge'[c] = [bridge[c] EXCEPT !.pc = "acking"]
        BY <2>1 DEF TypeOK
      <3> QED
        BY <3>1, StreamTypes
    <2>3. ASSUME NEW d \in BridgeConsumers, NEW i \in 1..Len(streams[StreamOf[d]]), Ahead(d, i)'
          PROVE  Ahead(d, i)
      <3>1. CASE d = c
        BY <2>1, <2>2, <2>3, <3>1 DEF Ahead
      <3>2. CASE d # c
        BY <2>1, <2>3, <3>2 DEF Ahead, TypeOK
      <3> QED
        BY <3>1, <3>2
    <2>4. BridgeEvent(c) # e
      <3> SUFFICES ASSUME BridgeEvent(c) = e PROVE FALSE
        OBVIOUS
      <3> DEFINE i == bridge[c].msg
      <3>1. /\ i \in 1..Len(streams[StreamOf[c]])
            /\ i < consumers[c].next /\ i \notin consumers[c].again
            /\ consumers[c].next \in Nat /\ i \in Nat
        BY <2>1, MessageOfBridge, StreamTypes
      <3>2. Ahead(c, i)'
        <4>1. \A j \in 1..Len(streams'[StreamOf[c]]) : streams'[StreamOf[c]][j] = e => Ahead(c, j)'
          BY DEF Coming
        <4>2. i \in 1..Len(streams'[StreamOf[c]]) /\ streams'[StreamOf[c]][i] = e
          BY <2>1, <3>1 DEF BridgeEvent
        <4>3. PICK j : j = i
          OBVIOUS
        <4>4. Ahead(c, j)'
          BY <4>1, <4>2, <4>3
        <4>5. j >= consumers[c].next \/ j \in consumers[c].again
          BY <2>1, <2>2, <4>4 DEF Ahead
        <4> QED
          BY <3>1, <4>3, <4>5
      <3> QED
        BY <2>1, <2>2, <3>1, <3>2 DEF Ahead
    <2> QED
      BY <1>a, <2>1, <2>3, <2>4
  <1>4. ASSUME NEW c \in BridgeConsumers, BridgeAck(c)
        PROVE  Coming(e)
    <2>1. /\ UNCHANGED <<streams, consumers>>
          /\ bridge' = [bridge EXCEPT ![c] = BridgeRest]
      BY <1>4, <1>n DEF BridgeAck, BridgeGoes
    <2>2. ASSUME NEW d \in BridgeConsumers, NEW i \in 1..Len(streams[StreamOf[d]]), Ahead(d, i)'
          PROVE  Ahead(d, i)
      <3>1. CASE d = c
        <4>1. bridge'[c].pc = "idle"
          BY <2>1 DEF TypeOK, BridgeRest
        <4> QED
          BY <2>1, <2>2, <3>1, <4>1 DEF Ahead
      <3>2. CASE d # c
        BY <2>1, <2>2, <3>2 DEF Ahead, TypeOK
      <3> QED
        BY <3>1, <3>2
    <2> QED
      BY <1>a, <2>1, <2>2
  <1>5. ASSUME NEW f \in Events, EventPublished(f)
        PROVE  Coming(e)
    <2>1. StreamFor[f] \in Streams /\ Publish(StreamFor[f], f) /\ UNCHANGED <<consumers, bridge>>
      BY <1>5, NotificationAssumption DEF EventPublished, bridgeVars
    <2>2. ASSUME NEW c \in BridgeConsumers, NEW i \in 1..Len(streams[StreamOf[c]]),
                 streams[StreamOf[c]][i] = e
          PROVE  Ahead(c, i)
      <3>1. StreamOf[c] \in Streams /\ Len(streams[StreamOf[c]]) \in Nat
        BY StreamTypes
      <3>2. i \in 1..Len(streams'[StreamOf[c]]) /\ streams'[StreamOf[c]][i] = e
        <4> DEFINE s == StreamFor[f]
                   t == StreamOf[c]
        <4>0. /\ s \in Streams /\ Len(streams'[s]) = Len(streams[s]) + 1
              /\ \A j \in 1..Len(streams[s]) : streams'[s][j] = streams[s][j]
              /\ \A other \in Streams \ {s} : streams'[other] = streams[other]
          BY <2>1, PublishAppends DEF TypeOK
        <4>t. t \in Streams /\ Len(streams[t]) \in Nat
              /\ i \in 1..Len(streams[t]) /\ streams[t][i] = e
          BY <2>2, <3>1
        <4> HIDE DEF s, t
        <4>1. CASE t = s
          <5>1. i \in 1..Len(streams'[t])
            BY <4>0, <4>1, <4>t
          <5>2. streams'[t][i] = e
            BY <4>0, <4>1, <4>t
          <5> QED
            BY <5>1, <5>2 DEF t
        <4>2. CASE t # s
          BY <4>0, <4>2, <4>t DEF t
        <4> QED
          BY <4>1, <4>2
      <3>3. Ahead(c, i)'
        BY <3>2 DEF Coming
      <3> QED
        BY <2>1, <3>3 DEF Ahead
    <2> QED
      BY <2>2 DEF Coming
  <1>6. ASSUME NotifierStep \/ UNCHANGED vars
        PROVE  Coming(e)
    <2>1. UNCHANGED <<streams, consumers, bridge>>
      BY <1>6 DEF NotifierStep, NotifierBinds, NotifierConsumes, NotifierReceives, Send, Log,
                  NotifierAcks, NotifierStops, vars, bridgeVars
    <2> QED
      BY <1>1, <2>1
  <1>7. ~BridgeRestart /\ ~NotifierRestart /\ ~BrokerRestart
    BY <1>n DEF BridgeRestart, NotifierRestart, BrokerRestart
  <1>8. Coming(e)
    BY <1>2, <1>3, <1>4, <1>5, <1>6, <1>7 DEF Next, BridgeStep, AtRest
  <1> QED
    BY <1>3, <1>8

\* The mails sent of e and its messages on their way to the notifier.
Mails(e) == mailed[e] + CopiesIn(queue, e) + Count(InHand(e, "sending"))

LEMMA MailNumbers ==
    ASSUME TypeOK, NEW e \in Events
    PROVE  /\ mailed[e] \in Nat /\ logged[e] \in Nat /\ faults \in Nat
           /\ CopiesIn(queue, e) \in Nat /\ queue \in Seq(Events)
           /\ \A p : Count(p) \in {0, 1}
           /\ Mails(e) \in Nat
  <1>1. mailed[e] \in Nat /\ logged[e] \in Nat /\ queue \in Seq(Events)
    BY DEF TypeOK
  <1>2. faults \in Nat
    BY FaultsAssumption DEF TypeOK, FaultsType
  <1>3. CopiesIn(queue, e) \in Nat
    BY <1>1, CopiesAreCounted
  <1>4. \A p : Count(p) \in {0, 1}
    BY DEF Count
  <1>5. Mails(e) \in Nat
    <2>1. Count(InHand(e, "sending")) \in Nat
      BY <1>4
    <2> QED
      BY <1>1, <1>3, <2>1 DEF Mails
  <1> QED
    BY <1>1, <1>2, <1>3, <1>4, <1>5

\* A message more needs one that was coming, or a failure.
LEMMA MailsStep ==
    ASSUME TypeOK, BridgeInv, NotifierInv, StreamsInv, [Next]_vars, NEW e \in Events
    PROVE  \/ Mails(e)' <= Mails(e) /\ faults' = faults
           \/ /\ Mails(e)' = Mails(e) + 1 /\ faults' = faults
              /\ \E c \in BridgeConsumers : Forward(c) /\ BridgeEvent(c) = e
           \/ Mails(e)' <= Mails(e) /\ faults' = faults + 1
           \/ /\ Mails(e)' = Mails(e) + 1 /\ faults' = faults + 1
              /\ UNCHANGED <<streams, consumers, bridge>>
  <1>t. /\ mailed[e] \in Nat /\ faults \in Nat /\ CopiesIn(queue, e) \in Nat
        /\ queue \in Seq(Events) /\ Mails(e) \in Nat /\ mailed \in [Events -> Nat]
        /\ NoEvent \notin Events
    BY MailNumbers, NotificationAssumption DEF TypeOK
  <1>0. ASSUME UNCHANGED <<queue, notifier, mailed>>
        PROVE  Mails(e)' = Mails(e)
    BY <1>0 DEF Mails, InHand
  <1>1. ASSUME NEW c \in BridgeConsumers, Forward(c)
        PROVE  \/ Mails(e)' = Mails(e) /\ faults' \in {faults, faults + 1}
               \/ Mails(e)' = Mails(e) + 1 /\ faults' = faults /\ BridgeEvent(c) = e
    <2>1. UNCHANGED <<notifier, mailed>> /\ BridgeEvent(c) \in Events
      BY <1>1, MessageOfBridge DEF Forward, notifierVars
    <2>2. CASE queue' = queue
      BY <1>0, <1>1, <2>1, <2>2 DEF Forward, Fault, NoFault
    <2>3. CASE queue' = Append(queue, BridgeEvent(c)) /\ faults' = faults
      <3>1. CopiesIn(queue', e) = CopiesIn(queue, e) + Count(BridgeEvent(c) = e)
        BY <1>t, <2>1, <2>3, CopyAtEnd
      <3>2. InHand(e, "sending")' <=> InHand(e, "sending")
        BY <2>1 DEF InHand
      <3>3. Count(InHand(e, "sending"))' = Count(InHand(e, "sending"))
        BY <3>2 DEF Count
      <3>4. mailed'[e] = mailed[e] /\ Count(InHand(e, "sending")) \in {0, 1}
        BY <2>1, MailNumbers
      <3>5. CASE BridgeEvent(c) = e
        <4>1. CopiesIn(queue', e) = CopiesIn(queue, e) + 1
          BY <3>1, <3>5 DEF Count
        <4>2. Mails(e)' = Mails(e) + 1
          BY <1>t, <3>3, <3>4, <4>1 DEF Mails
        <4> QED
          BY <2>3, <3>5, <4>2
      <3>6. CASE BridgeEvent(c) # e
        <4>1. CopiesIn(queue', e) = CopiesIn(queue, e)
          BY <1>t, <3>1, <3>6 DEF Count
        <4>2. Mails(e)' = Mails(e)
          BY <3>3, <3>4, <4>1 DEF Mails
        <4> QED
          BY <2>3, <4>2
      <3> QED
        BY <3>5, <3>6
    <2> QED
      BY <1>1, <2>2, <2>3 DEF Forward, NoFault
  <1>2. CASE NotifierReceives
    <2>1. /\ queue # << >> /\ queue' = Tail(queue) /\ faults' = faults /\ mailed' = mailed
          /\ notifier.pc = "idle" /\ notifier'.pc = "sending" /\ notifier'.event = Head(queue)
      BY <1>2, EventOfNotifier DEF NotifierReceives, NoFault
    <2>2. CopiesIn(queue, e) = CopiesIn(queue', e) + Count(Head(queue) = e)
          /\ queue' \in Seq(Events)
      BY <1>t, <2>1, CopyTaken
    <2>3. /\ Count(InHand(e, "sending"))' = Count(Head(queue) = e)
          /\ Count(InHand(e, "sending")) = 0
      BY <2>1 DEF Count, InHand
    <2>4. CopiesIn(queue', e) \in Nat /\ Count(Head(queue) = e) \in {0, 1}
      BY <2>2, CopiesAreCounted, MailNumbers
    <2>5. Mails(e)' = Mails(e)
      BY <1>t, <2>1, <2>2, <2>3, <2>4 DEF Mails
    <2> QED
      BY <1>t, <2>1, <2>5
  <1>3. CASE Send
    <2>1. /\ notifier.pc = "sending" /\ notifier'.pc = "logging" /\ UNCHANGED queue
          /\ notifier.event \in Events
      BY <1>3, EventOfNotifier DEF Send, NotifierGoes
    <2>2. /\ Count(InHand(e, "sending")) = Count(notifier.event = e)
          /\ Count(InHand(e, "sending"))' = 0
      BY <2>1 DEF Count, InHand
    <2>3. \/ mailed' = [mailed EXCEPT ![notifier.event] = @ + 1] /\ faults' = faults
          \/ mailed' = mailed /\ faults' = faults + 1
      BY <1>3 DEF Send, NoFault, Fault
    <2>4. mailed'[e] \in {mailed[e], mailed[e] + Count(notifier.event = e)}
      <3>1. CASE mailed' = mailed
        BY <3>1
      <3>2. CASE mailed' = [mailed EXCEPT ![notifier.event] = @ + 1] /\ notifier.event = e
        BY <1>t, <3>2 DEF Count
      <3>3. CASE mailed' = [mailed EXCEPT ![notifier.event] = @ + 1] /\ notifier.event # e
        BY <1>t, <3>3
      <3> QED
        BY <2>3, <3>1, <3>2, <3>3
    <2>5. Count(notifier.event = e) \in {0, 1} /\ CopiesIn(queue', e) = CopiesIn(queue, e)
      BY <2>1, MailNumbers
    <2>6. Mails(e)' <= Mails(e)
      BY <1>t, <2>2, <2>4, <2>5 DEF Mails
    <2> QED
      BY <2>3, <2>6
  <1>4. CASE Log \/ NotifierAcks \/ NotifierConsumes \/ NotifierStops
    <2>1. UNCHANGED <<queue, mailed>> /\ faults' \in {faults, faults + 1}
      BY <1>4 DEF Log, NotifierAcks, NotifierConsumes, NotifierStops, NoFault, Fault
    <2>2. notifier'.pc # "sending" /\ notifier.pc # "sending"
      BY <1>4, EventOfNotifier DEF Log, NotifierAcks, NotifierConsumes, NotifierStops, NotifierGoes
    <2>3. Count(InHand(e, "sending"))' = 0 /\ Count(InHand(e, "sending")) = 0
      BY <2>2 DEF Count, InHand
    <2>4. Mails(e)' = Mails(e)
      BY <2>1, <2>3 DEF Mails
    <2> QED
      BY <1>t, <2>1, <2>4
  <1>5. CASE NotifierRestart \/ BrokerRestart
    <2>1. /\ queue' = Unacked \o queue /\ faults' = faults + 1
          /\ UNCHANGED <<streams, consumers, bridge, mailed>>
      BY <1>5 DEF NotifierRestart, BrokerRestart, Fault, bridgeVars
    <2>2. CopiesIn(queue', e) = CopiesIn(queue, e) + Count(notifier.event = e /\ notifier.linked)
      BY <2>1, UnackedIsBack
    <2>3. InHand(e, "sending")' => InHand(e, "sending")
      BY <1>5, <1>t, EventOfNotifier DEF NotifierRestart, BrokerRestart, InHand
    <2>4. Count(InHand(e, "sending"))' <= Count(InHand(e, "sending"))
      BY <2>3 DEF Count
    <2>5. /\ Count(InHand(e, "sending"))' \in {0, 1} /\ Count(InHand(e, "sending")) \in {0, 1}
          /\ Count(notifier.event = e /\ notifier.linked) \in {0, 1}
      BY DEF Count
    <2>6. Mails(e)' <= Mails(e) \/ Mails(e)' = Mails(e) + 1
      BY <1>t, <2>1, <2>2, <2>4, <2>5 DEF Mails
    <2> QED
      BY <2>1, <2>6
  <1>6. ASSUME NEW c \in BridgeConsumers,
               BridgeAck(c) \/ \E i \in Deliverable(c) : BridgeReceive(c, i)
        PROVE  Mails(e)' = Mails(e) /\ faults' \in {faults, faults + 1}
    <2>1. UNCHANGED <<queue, notifier, mailed>>
      BY <1>6 DEF BridgeAck, BridgeReceive, notifierVars
    <2>2. faults' \in {faults, faults + 1}
      BY <1>6 DEF BridgeAck, BridgeReceive, NoFault, Fault
    <2> QED
      BY <1>0, <2>1, <2>2
  <1>7. CASE BridgeRestart \/ (\E f \in Events : EventPublished(f))
             \/ (\E s \in Streams : NotifierBinds(s)) \/ UNCHANGED vars
    <2>1. UNCHANGED <<queue, notifier, mailed>>
      BY <1>7 DEF BridgeRestart, EventPublished, NotifierBinds, vars, notifierVars
    <2>2. faults' \in {faults, faults + 1}
      BY <1>7 DEF BridgeRestart, EventPublished, NotifierBinds, NoFault, Fault, vars
    <2> QED
      BY <1>0, <1>t, <2>1, <2>2
  <1> QED
    BY <1>1, <1>2, <1>3, <1>4, <1>5, <1>6, <1>7, <1>t DEF Next, BridgeStep, NotifierStep, AtRest

LEMMA ForwardedWasComing ==
    ASSUME TypeOK, BridgeInv, StreamsInv, NEW c \in BridgeConsumers, Forward(c)
    PROVE  Coming(BridgeEvent(c))
  <1>1. bridge[c].pc = "forwarding"
    BY DEF Forward
  <1>2. bridge[c].msg \in 1..Len(streams[StreamOf[c]])
    BY <1>1, MessageOfBridge
  <1> SUFFICES ASSUME NEW d \in BridgeConsumers, NEW i \in 1..Len(streams[StreamOf[d]]),
                      streams[StreamOf[d]][i] = BridgeEvent(c)
               PROVE  Ahead(d, i)
    BY DEF Coming
  <1>3. d = c /\ i = bridge[c].msg
    <2>1. StreamOf[d] = StreamOf[c]
      BY <1>2, TheConsumers DEF StreamsInv, BridgeEvent
    <2>2. d = c
      BY <2>1, TheConsumers
    <2>3. streams[StreamOf[c]][i] = streams[StreamOf[c]][bridge[c].msg]
      BY <2>2 DEF BridgeEvent
    <2> QED
      BY <1>2, <2>2, <2>3, TheConsumers DEF StreamsInv
  <1> QED
    BY <1>1, <1>3 DEF Ahead

LEMMA MailsStepKeeps ==
    ASSUME TypeOK, BridgeInv, NotifierInv, StreamsInv, MailsInv, [Next]_vars
    PROVE  MailsInv'
  <1> SUFFICES ASSUME NEW e \in Events
               PROVE  Mails(e)' + Count(Coming(e))' <= 1 + faults'
    BY DEF MailsInv, Mails
  <1>1. /\ Mails(e) \in Nat /\ faults \in Nat
        /\ Mails(e) + Count(Coming(e)) <= 1 + faults
    BY MailNumbers DEF MailsInv, Mails
  <1>2. Count(Coming(e)) \in {0, 1} /\ Count(Coming(e))' \in {0, 1}
    BY DEF Count
  <1>3. Mails(e)' \in Nat
    <2>1. mailed'[e] \in Nat /\ queue' \in Seq(Events)
      BY TypeStep DEF TypeOK
    <2>2. CopiesIn(queue', e) \in Nat /\ Count(InHand(e, "sending"))' \in Nat
      BY <2>1, CopiesAreCounted DEF Count
    <2> QED
      BY <2>1, <2>2 DEF Mails
  <1>4. CASE Mails(e)' <= Mails(e) /\ faults' = faults
    <2>1. Count(Coming(e))' <= Count(Coming(e))
      BY <1>4, ComingStays DEF Count
    <2> QED
      BY <1>1, <1>2, <1>3, <1>4, <2>1
  <1>5. ASSUME Mails(e)' = Mails(e) + 1, faults' = faults,
               NEW c \in BridgeConsumers, Forward(c), BridgeEvent(c) = e
        PROVE  Mails(e)' + Count(Coming(e))' <= 1 + faults'
    <2>1. Count(Coming(e)) = 1
      BY <1>5, ForwardedWasComing DEF Count
    <2>2. Count(Coming(e))' = 0
      BY <1>5, ComingStays DEF Count
    <2> QED
      BY <1>1, <1>5, <2>1, <2>2
  <1>6. CASE Mails(e)' <= Mails(e) /\ faults' = faults + 1
    BY <1>1, <1>2, <1>3, <1>6
  <1>7. CASE /\ Mails(e)' = Mails(e) + 1 /\ faults' = faults + 1
             /\ UNCHANGED <<streams, consumers, bridge>>
    <2>1. Count(Coming(e))' = Count(Coming(e))
      BY <1>7 DEF Count, Coming, Ahead
    <2> QED
      BY <1>1, <1>2, <1>7, <2>1
  <1> QED
    BY <1>4, <1>5, <1>6, <1>7, MailsStep

\* A row without its mail, or a mail without its row, goes back to a failure.
LEMMA LogsStepKeeps ==
    ASSUME TypeOK, BridgeInv, NotifierInv, LogsInv, [Next]_vars
    PROVE  LogsInv'
  <1> DEFINE Logging(e) == Count(InHand(e, "logging"))
             Balanced(m, l, f, p) == m <= l + f + p /\ l + p <= m + f
  <1> SUFFICES ASSUME NEW e \in Events
               PROVE  Balanced(mailed'[e], logged'[e], faults', Logging(e)')
    BY DEF LogsInv
  <1>1. /\ mailed[e] \in Nat /\ logged[e] \in Nat /\ faults \in Nat
        /\ mailed \in [Events -> Nat] /\ logged \in [Events -> Nat]
    BY MailNumbers DEF TypeOK
  <1>2. Balanced(mailed[e], logged[e], faults, Logging(e))
    BY DEF LogsInv
  <1>3. Logging(e) \in {0, 1} /\ Logging(e)' \in {0, 1}
    BY DEF Count
  \* A failure makes up for one.
  <1>4. ASSUME NEW m \in Nat, NEW l \in Nat, NEW p \in {0, 1},
               m = mailed[e] /\ l = logged[e]
        PROVE  Balanced(m, l, faults + 1, p)
    BY <1>1, <1>2, <1>3, <1>4
  <1> HIDE DEF Logging, Balanced
  <1>5. ASSUME faults' = faults + 1, mailed'[e] = mailed[e], logged'[e] = logged[e]
        PROVE  Balanced(mailed'[e], logged'[e], faults', Logging(e)')
    BY <1>1, <1>3, <1>4, <1>5
  <1>6. ASSUME UNCHANGED <<mailed, logged>>, faults' \in {faults, faults + 1},
               Logging(e)' = Logging(e) \/ faults' = faults + 1
        PROVE  Balanced(mailed'[e], logged'[e], faults', Logging(e)')
    <2>1. CASE faults' = faults /\ Logging(e)' = Logging(e)
      BY <1>2, <1>6, <2>1
    <2>2. CASE faults' = faults + 1
      BY <1>5, <1>6, <2>2
    <2> QED
      BY <1>1, <1>6, <2>1, <2>2
  <1>7. CASE Send
    <2>1. /\ notifier.pc = "sending" /\ notifier'.pc = "logging" /\ UNCHANGED logged
          /\ notifier'.event = notifier.event /\ notifier.event \in Events
      BY <1>7, EventOfNotifier DEF Send, NotifierGoes
    <2>2. Logging(e) = 0 /\ Logging(e)' = Count(notifier.event = e)
      BY <2>1 DEF Logging, Count, InHand
    <2>3. CASE mailed' = [mailed EXCEPT ![notifier.event] = @ + 1] /\ faults' = faults
      <3>1. CASE notifier.event = e
        <4>1. mailed'[e] = mailed[e] + 1 /\ Logging(e)' = 1
          BY <1>1, <2>2, <2>3, <3>1 DEF Count
        <4>2. mailed[e] <= logged[e] + faults /\ logged[e] <= mailed[e] + faults
          BY <1>1, <1>2, <2>2 DEF Balanced
        <4> QED
          BY <1>1, <2>1, <2>3, <4>1, <4>2 DEF Balanced
      <3>2. CASE notifier.event # e
        <4>1. mailed'[e] = mailed[e] /\ Logging(e)' = 0
          BY <1>1, <2>2, <2>3, <3>2 DEF Count
        <4> QED
          BY <1>2, <2>1, <2>2, <2>3, <4>1
      <3> QED
        BY <3>1, <3>2
    <2>4. CASE mailed' = mailed /\ faults' = faults + 1
      BY <1>5, <2>1, <2>4
    <2> QED
      BY <1>7, <2>3, <2>4 DEF Send, NoFault, Fault
  <1>8. CASE Log
    <2>1. /\ notifier.pc = "logging" /\ notifier'.pc = "acking" /\ UNCHANGED mailed
          /\ notifier.event \in Events
      BY <1>8, EventOfNotifier DEF Log, NotifierGoes
    <2>2. Logging(e) = Count(notifier.event = e) /\ Logging(e)' = 0
      BY <2>1 DEF Logging, Count, InHand
    <2>3. CASE logged' = [logged EXCEPT ![notifier.event] = @ + 1] /\ faults' = faults
      <3>1. CASE notifier.event = e
        <4>1. logged'[e] = logged[e] + 1 /\ Logging(e) = 1
          BY <1>1, <2>2, <2>3, <3>1 DEF Count
        <4> QED
          BY <1>1, <1>2, <2>1, <2>2, <2>3, <4>1 DEF Balanced
      <3>2. CASE notifier.event # e
        <4>1. logged'[e] = logged[e] /\ Logging(e) = 0
          BY <1>1, <2>2, <2>3, <3>2 DEF Count
        <4> QED
          BY <1>2, <2>1, <2>2, <2>3, <4>1
      <3> QED
        BY <3>1, <3>2
    <2>4. CASE logged' = logged /\ faults' = faults + 1
      BY <1>5, <2>1, <2>4
    <2> QED
      BY <1>8, <2>3, <2>4 DEF Log, NoFault, Fault
  <1>9. CASE NotifierReceives \/ NotifierAcks \/ NotifierConsumes \/ NotifierStops
    <2>1. UNCHANGED <<mailed, logged, faults>>
      BY <1>9 DEF NotifierReceives, NotifierAcks, NotifierConsumes, NotifierStops, NoFault,
                  notifierVars
    <2>2. notifier.pc # "logging" /\ notifier'.pc # "logging"
      BY <1>9, EventOfNotifier
      DEF NotifierReceives, NotifierAcks, NotifierConsumes, NotifierStops, NotifierGoes
    <2>3. Logging(e)' = 0 /\ Logging(e) = 0
      BY <2>2 DEF Logging, Count, InHand
    <2> QED
      BY <1>6, <2>1, <2>3
  <1>10. CASE NotifierRestart \/ BrokerRestart \/ BridgeRestart
    <2>1. UNCHANGED <<mailed, logged>> /\ faults' = faults + 1
      BY <1>10 DEF NotifierRestart, BrokerRestart, BridgeRestart, Fault, notifierVars
    <2> QED
      BY <1>6, <2>1
  <1>11. CASE \/ \E c \in BridgeConsumers : BridgeStep(c)
              \/ (\E f \in Events : EventPublished(f)) \/ (\E s \in Streams : NotifierBinds(s))
              \/ UNCHANGED vars
    <2>1. UNCHANGED <<notifier, mailed, logged>> /\ faults' \in {faults, faults + 1}
      BY <1>11 DEF BridgeStep, BridgeReceive, Forward, BridgeAck, EventPublished, NotifierBinds,
                   NoFault, Fault, vars, notifierVars
    <2>2. Logging(e)' = Logging(e)
      BY <2>1 DEF Logging, InHand
    <2> QED
      BY <1>6, <2>1, <2>2
  <1> QED
    BY <1>7, <1>8, <1>9, <1>10, <1>11 DEF Next, NotifierStep, AtRest

-----------------------------------------------------------------------------
(* The theorems *)

LEMMA NotificationInitial == Init => NotificationInv
  <1> SUFFICES ASSUME Init PROVE NotificationInv
    OBVIOUS
  <1>1. /\ \A s \in Streams : streams[s] = << >>
        /\ \A c \in BridgeConsumers : /\ streams[StreamOf[c]] = << >>
                                      /\ consumers[c] = [next |-> 1, again |-> {}]
                                      /\ bridge[c] = [pc |-> "idle", msg |-> 0]
    BY TheConsumers DEF Init, JetStreamInit, BridgeRest
  <1>2. /\ queue = << >> /\ notifier = [pc |-> "starting", event |-> NoEvent, linked |-> TRUE]
        /\ \A e \in Events : mailed[e] = 0 /\ logged[e] = 0
        /\ faults = 0 /\ NoEvent \notin Events
    BY NotificationAssumption DEF Init, FaultsInit
  <1>3. TypeOK
    BY FaultsAssumption, TheConsumers
    DEF Init, TypeOK, JetStreamInit, JetStreamType, FaultsInit, FaultsType, BridgeRest, BridgePcs,
        NotifierPcs
  <1>4. BridgeInv
    <2> SUFFICES ASSUME NEW c \in BridgeConsumers PROVE ConsumerInv(c)
      BY DEF BridgeInv
    <2>1. consumers[c].next = 1 /\ consumers[c].again = {} /\ bridge[c].msg = 0
          /\ Len(streams[StreamOf[c]]) = 0
      BY <1>1
    <2>2. bridge[c].pc = "idle"
      BY <1>1
    <2> QED
      BY <2>1, <2>2 DEF ConsumerInv
  <1>5. NotifierInv
    BY <1>2 DEF NotifierInv
  <1>6. HandedOn /\ StreamsInv
    BY <1>1 DEF HandedOn, StreamsInv
  <1>7. ASSUME NEW e \in Events
        PROVE  CopiesIn(queue, e) = 0 /\ Count(InHand(e, "sending")) = 0
               /\ Count(InHand(e, "logging")) = 0 /\ Count(Coming(e)) \in {0, 1}
    <2>1. Places(queue, e) = {}
      BY <1>2 DEF Places
    <2>2. CopiesIn(queue, e) = 0
      BY <2>1, FS_EmptySet DEF CopiesIn
    <2>3. ~InHand(e, "sending") /\ ~InHand(e, "logging")
      BY <1>2 DEF InHand
    <2> QED
      BY <2>2, <2>3 DEF Count
  <1>8. MailsInv /\ LogsInv
    BY <1>2, <1>7 DEF MailsInv, LogsInv
  <1> QED
    BY <1>3, <1>4, <1>5, <1>6, <1>8 DEF NotificationInv

LEMMA NotificationStep == NotificationInv /\ [Next]_vars => NotificationInv'
  BY TypeStep, BridgeStepKeeps, NotifierStepKeeps, StreamsStepKeeps, MailsStepKeeps, LogsStepKeeps
  DEF NotificationInv

LEMMA NotificationInvariant == Spec => []NotificationInv
  BY NotificationInitial, NotificationStep, PTL DEF Spec

\* Whatever fails and whenever the services or the broker are started again, a
\* message the bridge acknowledged is in the queue, in the notifier's hands, mailed,
\* or given up by a step that says so (bridge.go's forward and Ack, subscriber.go's
\* handler and Ack).
THEOREM NothingLostBetweenTheBrokers == Spec => []HandedOn
  <1>1. NotificationInv => HandedOn
    BY DEF NotificationInv
  <1> QED
    BY <1>1, NotificationInvariant, PTL

\* Every failure repeats the mail of an event, or keeps it out of the log, at most
\* once (subscriber.go's Send and Log between delivery and Ack).
THEOREM MailsAreRepeatedForFailures == Spec => []RepeatsNeedFailures
  <1>1. NotificationInv => RepeatsNeedFailures
    <2> SUFFICES ASSUME NotificationInv, NEW e \in Events
                 PROVE  /\ mailed[e] <= 1 + faults
                        /\ mailed[e] <= logged[e] + faults + (IF notifier.event = e THEN 1 ELSE 0)
                        /\ logged[e] <= mailed[e] + faults
      BY DEF RepeatsNeedFailures
    <2>1. /\ mailed[e] \in Nat /\ logged[e] \in Nat /\ faults \in Nat
          /\ CopiesIn(queue, e) \in Nat
          /\ \A p : Count(p) \in {0, 1}
      BY MailNumbers DEF NotificationInv
    <2>2. mailed[e] <= 1 + faults
      BY <2>1 DEF NotificationInv, MailsInv
    <2>3. Count(InHand(e, "logging")) <= (IF notifier.event = e THEN 1 ELSE 0)
      BY DEF Count, InHand
    <2>4. /\ mailed[e] <= logged[e] + faults + Count(InHand(e, "logging"))
          /\ logged[e] + Count(InHand(e, "logging")) <= mailed[e] + faults
      BY DEF NotificationInv, LogsInv
    <2> QED
      BY <2>1, <2>2, <2>3, <2>4
  <1> QED
    BY <1>1, NotificationInvariant, PTL

=============================================================================

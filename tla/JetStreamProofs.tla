-------------------------- MODULE JetStreamProofs --------------------------
(***************************************************************************)
(* What the operators of JetStream and Faults keep, for every set of       *)
(* messages, consumers and failures: the lemmas that the proofs about the  *)
(* services share.                                                         *)
(***************************************************************************)
EXTENDS JetStream, Faults, TLAPS

\* A step counts at most one failure, within the bound.
LEMMA FaultCounted ==
    ASSUME FaultsType, NEW kind, NoFault \/ Fault(kind)
    PROVE  FaultsType'
  BY FaultsAssumption DEF FaultsType, NoFault, Fault

\* Messages and consumers keep their types.
LEMMA PublishType ==
    ASSUME NEW Messages, JetStreamType(Messages), NEW s \in Streams, NEW msg \in Messages,
           Publish(s, msg), UNCHANGED consumers
    PROVE  JetStreamType(Messages)'
  BY DEF JetStreamType, Publish, Consumers

LEMMA DeliverType ==
    ASSUME NEW Messages, JetStreamType(Messages), NEW c \in Consumers, NEW i \in Nat,
           Deliver(c, i), UNCHANGED streams
    PROVE  JetStreamType(Messages)'
  BY DEF JetStreamType, Deliver, Consumers

LEMMA PassOverType ==
    ASSUME NEW Messages, JetStreamType(Messages), NEW c \in Consumers,
           PassOver(c), UNCHANGED streams
    PROVE  JetStreamType(Messages)'
  <1>1. consumers[c] \in [next : Nat \ {0}, again : SUBSET Nat]
    BY DEF JetStreamType
  <1>2. [consumers[c] EXCEPT !.next = @ + 1] \in [next : Nat \ {0}, again : SUBSET Nat]
    BY <1>1
  <1>3. consumers' = [consumers EXCEPT ![c] = [consumers[c] EXCEPT !.next = @ + 1]]
    BY DEF PassOver, JetStreamType
  <1> QED
    BY <1>2, <1>3 DEF JetStreamType

LEMMA RedeliverType ==
    ASSUME NEW Messages, JetStreamType(Messages), NEW c \in Consumers, NEW i \in Nat,
           Redeliver(c, i), UNCHANGED streams
    PROVE  JetStreamType(Messages)'
  BY DEF JetStreamType, Redeliver, Consumers

LEMMA AfterLossType ==
    ASSUME NEW Messages, JetStreamType(Messages), NEW c \in Consumers, NEW i \in Nat
    PROVE  AfterLoss(c, i) \subseteq [next : Nat \ {0}, again : SUBSET Nat]
  <1>1. consumers[c].next \in Nat \ {0} /\ consumers[c].again \subseteq Nat
    BY DEF JetStreamType
  <1>2. Len(streams[StreamOf[c]]) \in Nat
    BY StreamOfAssumption DEF JetStreamType, Consumers
  <1> SUFFICES ASSUME NEW n \in consumers[c].next..(Len(streams[StreamOf[c]]) + 1)
               PROVE  [next |-> n,
                       again |-> consumers[c].again \cup ({i} \ {0}) \cup (consumers[c].next..(n - 1))]
                          \in [next : Nat \ {0}, again : SUBSET Nat]
    BY DEF AfterLoss
  <1>3. n \in Nat \ {0} /\ consumers[c].next..(n - 1) \subseteq Nat
    BY <1>1, <1>2
  <1>4. consumers[c].again \cup ({i} \ {0}) \cup (consumers[c].next..(n - 1)) \subseteq Nat
    BY <1>1, <1>3
  <1> QED
    BY <1>3, <1>4

LEMMA LoseClientType ==
    ASSUME NEW Messages, JetStreamType(Messages), NEW c \in Consumers, NEW i \in Nat,
           LoseClient(c, i), UNCHANGED streams
    PROVE  JetStreamType(Messages)'
  <1>1. PICK after \in [next : Nat \ {0}, again : SUBSET Nat] :
            consumers' = [consumers EXCEPT ![c] = after]
    BY AfterLossType DEF LoseClient
  <1> QED
    BY <1>1 DEF JetStreamType

LEMMA RecreateType ==
    ASSUME NEW Messages, JetStreamType(Messages), NEW c \in Consumers, Recreate(c),
           UNCHANGED streams
    PROVE  JetStreamType(Messages)'
  BY DEF JetStreamType, Recreate, Consumers

\* A message that is handed out is one of its stream.
LEMMA DeliverablePosition ==
    ASSUME NEW Messages, JetStreamType(Messages), NEW c \in Consumers,
           NEW i \in Deliverable(c)
    PROVE  i \in 1..Len(streams[StreamOf[c]]) /\ i \in Nat
  <1>1. Len(streams[StreamOf[c]]) \in Nat
    BY StreamOfAssumption DEF JetStreamType, Consumers
  <1> QED
    BY <1>1 DEF Deliverable

\* A publish puts the message at the end and leaves every other where it is.
LEMMA PublishAppends ==
    ASSUME NEW Messages, JetStreamType(Messages), NEW s \in Streams, NEW msg \in Messages,
           Publish(s, msg)
    PROVE  /\ Len(streams[s]) \in Nat
           /\ Len(streams'[s]) = Len(streams[s]) + 1
           /\ streams'[s][Len(streams[s]) + 1] = msg
           /\ \A i \in 1..Len(streams[s]) : streams'[s][i] = streams[s][i]
           /\ \A other \in Streams \ {s} : streams'[other] = streams[other]
  <1>1. streams[s] \in Seq(Messages) /\ streams' = [streams EXCEPT ![s] = Append(@, msg)]
    BY DEF JetStreamType, Publish
  <1>2. streams'[s] = Append(streams[s], msg)
    BY <1>1 DEF JetStreamType
  <1>3. \A other \in Streams \ {s} : streams'[other] = streams[other]
    BY <1>1 DEF JetStreamType
  <1> QED
    BY <1>1, <1>2, <1>3

\* What a stream holds it holds for good.
LEMMA PublishKeepsStored ==
    ASSUME NEW Messages, JetStreamType(Messages), NEW s \in Streams, NEW msg \in Messages,
           Publish(s, msg), NEW t \in Streams, NEW old, Stored(t, old)
    PROVE  Stored(t, old)'
  <1>1. PICK i \in 1..Len(streams[t]) : streams[t][i] = old
    BY DEF Stored
  <1>2. i \in 1..Len(streams'[t]) /\ streams'[t][i] = old
    <2>1. CASE t = s
      BY <1>1, <2>1, PublishAppends
    <2>2. CASE t # s
      BY <1>1, <2>2, PublishAppends
    <2> QED
      BY <2>1, <2>2
  <1> QED
    BY <1>2 DEF Stored

=============================================================================

------------------------ MODULE OrderWriteSideProofs ------------------------
(***************************************************************************)
(* Proofs about OrderWriteSide, for every set of orders, carts, concurrent *)
(* cancellations and payments, and for every kind and number of failures:  *)
(* its invariant, that it implements OrderLifecycle, what it puts on the   *)
(* stream ORDERS in what order, how it stands beside the other services of *)
(* the system, and the books of the stock.                                 *)
(***************************************************************************)
EXTENDS OrderWriteSideStock, JetStreamProofs, SequenceTheorems, FiniteSetTheorems,
        WellFoundedInduction

\* What is invariant of the write side, all parts together.
IInv == TypeOK /\ HistoryWellFormed /\ HandlersInv

-----------------------------------------------------------------------------
(* The operators of the components *)

\* Rows of one order hold a newest one: there are no more than two versions.
LEMMA NewestRow ==
    ASSUME HistoryWellFormed, NEW rows \in SUBSET store, rows # {}
    PROVE  Newest(rows) \in rows /\ \A f \in rows : f.version <= Newest(rows).version
  <1>1. \A e \in rows : e.version \in {1, 2}
    BY DEF HistoryWellFormed
  <1>2. \E e \in rows : \A f \in rows : f.version <= e.version
    <2>1. CASE \E e \in rows : e.version = 2
      BY <1>1, <2>1
    <2>2. CASE \A e \in rows : e.version = 1
      BY <2>2
    <2> QED
      BY <1>1, <2>1, <2>2
  <1> QED
    BY <1>2 DEF Newest

\* What a handler loads is a part of the history of its order.
LEMMA LoadsRows ==
    ASSUME NEW o, NEW rows, Loads(o, rows)
    PROVE  rows \subseteq Load(o)
  BY DEF Loads, PartialLoads

\* Replaying a part of a history ends at one of its versions.
LEMMA LoadedVersion ==
    ASSUME HistoryWellFormed, NEW o, NEW rows, Loads(o, rows)
    PROVE  LoadFromEvents(rows).version \in Nat
  <1>1. rows \subseteq store
    BY LoadsRows DEF Load
  <1>2. CASE rows = {}
    BY <1>2 DEF LoadFromEvents, NewOrder
  <1>3. CASE rows # {}
    <2>1. Newest(rows).version \in {1, 2}
      BY <1>1, <1>3, NewestRow DEF HistoryWellFormed
    <2> QED
      BY <1>3, <2>1 DEF LoadFromEvents
  <1> QED
    BY <1>2, <1>3

\* A handler that goes on has loaded version 1, the created event.
LEMMA LoadedPending ==
    ASSUME EventStoreType, HistoryWellFormed, NEW o, NEW rows, Loads(o, rows),
           CanChange(LoadFromEvents(rows).status)
    PROVE  LoadFromEvents(rows).version = 1 /\ Created(o)
  <1>1. rows \subseteq Load(o) /\ rows \subseteq store
    BY LoadsRows DEF Load
  <1>2. rows # {}
    BY DEF LoadFromEvents, NewOrder, CanChange
  <1> DEFINE e == Newest(rows)
  <1>3. e \in rows
    BY <1>1, <1>2, NewestRow
  <1>4. StatusAfter(e.type) = "pending" /\ LoadFromEvents(rows).version = e.version
    BY <1>2 DEF LoadFromEvents, CanChange
  <1>5. e.type \in EventTypes
    BY <1>1, <1>3 DEF EventStoreType, StoredEvent
  <1>6. e.type = EventOrderCreated
    BY <1>4, <1>5 DEF StatusAfter, EventTypes, EventOrderCreated, EventOrderPaid,
                      EventOrderCancelled
  <1>7. e.version = 1
    BY <1>1, <1>3, <1>6 DEF HistoryWellFormed
  <1> QED
    BY <1>1, <1>3, <1>4, <1>7 DEF Created, Load

\* A committed row is a row like the others.
LEMMA CommitType ==
    ASSUME EventStoreType, NEW e \in StoredEvent, Commit(e)
    PROVE  EventStoreType'
  BY DEF EventStoreType, Commit

\* A stored history stays well formed when a created event is added to an order
\* without rows, or an outcome as version 2 to an order that was created.
LEMMA CommitWellFormed ==
    ASSUME HistoryWellFormed, NEW e, Commit(e),
           \/ e.version = 1 /\ e.type = EventOrderCreated
           \/ e.version = 2 /\ e.type # EventOrderCreated /\ Created(e.order)
    PROVE  HistoryWellFormed'
  <1>1. store' = store \cup {e} /\ \A f \in store : ~(f.order = e.order /\ f.version = e.version)
    BY DEF Commit, Conflicts
  <1>2. \E f \in store' : f.order = e.order /\ f.version = 1
    BY <1>1 DEF Created
  <1>3. e.version \in {1, 2} /\ (e.version = 1 <=> e.type = EventOrderCreated)
    OBVIOUS
  <1> QED
    BY <1>1, <1>2, <1>3 DEF HistoryWellFormed

\* An event is published as a message.
LEMMA MessageOfEvent ==
    ASSUME NEW e \in StoredEvent
    PROVE  OrderMessage(e) \in Message
  <1>1. e.order \in Orders /\ e.payment \in Payments \cup {NoPayment} /\ e.type \in EventTypes
    BY DEF StoredEvent
  <1>2. NatsSubject(e.type) \in OrderSubjects
    BY <1>1 DEF NatsSubject, EventTypes, EventOrderCreated, EventOrderPaid,
                EventOrderCancelled, OrderSubjects
  <1> QED
    BY <1>1, <1>2 DEF OrderMessage, Message

LEMMA PublishOrIgnoreType ==
    ASSUME JetStreamType(Message), FaultsType, NEW e \in StoredEvent, PublishOrIgnore(e),
           UNCHANGED consumers
    PROVE  JetStreamType(Message)' /\ FaultsType'
  <1>1. CASE Publish("ORDERS", OrderMessage(e)) /\ NoFault
    BY <1>1, MessageOfEvent, PublishType, FaultCounted DEF Streams
  <1>2. CASE UNCHANGED streams /\ Fault("publish_error")
    BY <1>2, FaultCounted DEF JetStreamType
  <1> QED
    BY <1>1, <1>2 DEF PublishOrIgnore

\* The lines of a cart and what reserving and releasing them does to the stock.
LEMMA CartLine ==
    ASSUME NEW o \in Orders
    PROVE  /\ Len(Cart[o]) \in Nat \ {0}
           /\ \A n \in 1..Len(Cart[o]) : Cart[o][n].product \in Products
                                         /\ Cart[o][n].quantity \in Nat
  <1>1. Cart[o] \in Seq(OrderItem) /\ Len(Cart[o]) > 0
    BY CartAssumption
  <1>2. Len(Cart[o]) \in Nat /\ Len(Cart[o]) # 0
    BY <1>1
  <1>3. ASSUME NEW n \in 1..Len(Cart[o])
        PROVE  Cart[o][n] \in OrderItem
    BY <1>1, <1>3
  <1> QED
    BY <1>2, <1>3 DEF OrderItem

LEMMA ReserveType ==
    ASSUME StockType, NEW p \in Products, NEW n \in Nat, ReserveStock(p, n)
    PROVE  StockType'
  BY DEF StockType, ReserveStock, Available

LEMMA ReleaseType ==
    ASSUME StockType, NEW p \in Products, NEW n \in Nat, ReleaseStock(p, n)
    PROVE  StockType'
  BY DEF StockType, ReleaseStock

\* The events the handlers store are rows of the table's type.
LEMMA EventTypesOK ==
    ASSUME NEW o \in Orders, NEW version \in Nat, NEW payment \in Payments \cup {NoPayment}
    PROVE  /\ OrderCreated(o) \in StoredEvent
           /\ OrderCancelled(o, version) \in StoredEvent
           /\ OrderPaid(o, version, payment) \in StoredEvent
  BY DEF StoredEvent, EventTypes, OrderCreated, OrderCancelled, OrderPaid, NewOrder

\* The message the subscriber works on, and the change it asks for.
LEMMA SubMessageType ==
    ASSUME TypeOK, SubInv, sub.pc # "idle"
    PROVE  SubMessage \in Message /\ SubChange \in StoredEvent
  <1>1. sub.msg \in 1..Len(streams["PAYMENTS"]) /\ sub.version \in Nat
    BY DEF SubInv, TypeOK
  <1>2. streams["PAYMENTS"] \in Seq(Message)
    BY DEF TypeOK, JetStreamType, Streams
  <1>3. SubMessage \in Message
    BY <1>1, <1>2 DEF SubMessage
  <1>4. SubMessage.order \in Orders /\ SubMessage.payment \in Payments \cup {NoPayment}
    BY <1>3 DEF Message
  <1> QED
    BY <1>1, <1>3, <1>4, EventTypesOK DEF SubChange

\* A message of the stream a consumer reads.
LEMMA DeliverableMessage ==
    ASSUME TypeOK, NEW i \in Deliverable(PaymentHandler)
    PROVE  /\ i \in 1..Len(streams["PAYMENTS"]) /\ i \in Nat
           /\ streams["PAYMENTS"][i] \in Message
  <1>1. i \in 1..Len(streams["PAYMENTS"])
    BY WriteSideAssumption DEF Deliverable
  <1>2. streams["PAYMENTS"] \in Seq(Message)
    BY DEF TypeOK, JetStreamType, Streams
  <1> QED
    BY <1>1, <1>2

-----------------------------------------------------------------------------
(* Every step keeps the types. *)

LEMMA InitType == Init => TypeOK
  <1> SUFFICES ASSUME Init PROVE TypeOK
    OBVIOUS
  <1>1. EventStoreType /\ StockType /\ FaultsType
    BY StockAssumption, FaultsAssumption
    DEF Init, EventStoreInit, EventStoreType, StockInit, StockType, FaultsInit, FaultsType
  <1>2. JetStreamType(Message)
    BY DEF Init, JetStreamInit, JetStreamType
  <1>3. place \in [Orders -> [pc : PlacePcs, reserved : Nat, released : Nat]]
    BY DEF Init, PlacePcs
  <1>4. cancel \in [Cancels -> [pc : CancelPcs, order : Orders \cup {NoOrder},
                               version : Nat, released : Nat]]
    BY DEF Init, CancelPcs
  <1>5. sub \in [pc : SubPcs, msg : Nat, version : Nat]
    BY DEF Init, SubPcs
  <1> QED
    BY <1>1, <1>2, <1>3, <1>4, <1>5 DEF TypeOK

LEMMA PlaceType ==
    ASSUME TypeOK, HandlersInv, NEW o \in Orders, PlaceStart(o) \/ PlaceStep(o)
    PROVE  TypeOK'
  <1> USE DEF TypeOK
  <1>1. /\ place[o].reserved \in Nat /\ place[o].released \in Nat
        /\ OrderCreated(o) \in StoredEvent
    BY EventTypesOK DEF OrderCreated
  <1>2. JetStreamType(Message) /\ UNCHANGED <<streams, consumers>> => JetStreamType(Message)'
    BY DEF JetStreamType
  <1>3. ASSUME FailPlace(o)
        PROVE  place' \in [Orders -> [pc : PlacePcs, reserved : Nat, released : Nat]]
    BY <1>3 DEF FailPlace, PlaceGoes, PlacePcs
  <1>4. CASE PlaceStart(o)
    BY <1>2, <1>4, FaultCounted
    DEF PlaceStart, PlaceGoes, PlacePcs, EventStoreType, StockType
  <1>5. ASSUME Reserving(o)
        PROVE  NextLine(o).product \in Products /\ NextLine(o).quantity \in Nat
    <2>1. place[o].reserved + 1 \in 1..Len(Cart[o])
      BY <1>1, <1>5, CartLine DEF Reserving
    <2> QED
      BY <2>1, CartLine DEF NextLine
  <1>6. CASE ReserveLine(o)
    BY <1>1, <1>2, <1>5, <1>6, ReserveType, FaultCounted
    DEF ReserveLine, EventStoreType, PlacePcs
  <1>7. CASE ReserveRefused(o)
    BY <1>2, <1>3, <1>7, FaultCounted DEF ReserveRefused, EventStoreType, StockType
  <1>8. CASE ReserveReplyLost(o)
    BY <1>2, <1>3, <1>5, <1>8, ReserveType, FaultCounted DEF ReserveReplyLost, EventStoreType
  <1>9. CASE RollbackLine(o)
    <2> DEFINE line == Cart[o][place[o].released + 1]
    <2>1. line.product \in Products /\ line.quantity \in Nat
      <3>1. place[o].released + 1 \in 1..Len(Cart[o])
        BY <1>1, <1>9, CartLine DEF RollbackLine, HandlersInv, PlaceInv
      <3> QED
        BY <3>1, CartLine
    <2>2. StockType'
      BY <1>9, <2>1, ReleaseType DEF RollbackLine, StockType
    <2>3. FaultsType'
      BY <1>9, FaultCounted DEF RollbackLine
    <2>4. place' \in [Orders -> [pc : PlacePcs, reserved : Nat, released : Nat]]
      <3> DEFINE after ==
            [pc |-> IF place[o].released + 1 = place[o].reserved THEN "failed" ELSE "rollback",
             reserved |-> place[o].reserved, released |-> place[o].released + 1]
      <3>1. after \in [pc : PlacePcs, reserved : Nat, released : Nat]
        BY <1>1 DEF PlacePcs
      <3>2. place' = [place EXCEPT ![o] = after]
        BY <1>9 DEF RollbackLine
      <3> HIDE DEF after
      <3> QED
        BY <3>1, <3>2
    <2> QED
      BY <1>2, <1>9, <2>2, <2>3, <2>4 DEF RollbackLine, EventStoreType
  <1>10. CASE PlaceAppend(o)
    BY <1>1, <1>2, <1>10, CommitType, FaultCounted DEF PlaceAppend, PlaceGoes, PlacePcs, StockType
  <1>11. CASE PlaceAppendFails(o)
    <2>1. EventStoreType' /\ FaultsType'
      BY <1>1, <1>11, CommitType, FaultCounted DEF PlaceAppendFails, EventStoreType
    <2> QED
      BY <1>2, <1>3, <1>11, <2>1 DEF PlaceAppendFails, StockType
  <1>12. CASE PlacePublish(o)
    <2>1. JetStreamType(Message)' /\ FaultsType'
      BY <1>1, <1>12, PublishOrIgnoreType DEF PlacePublish
    <2> QED
      BY <1>12, <2>1 DEF PlacePublish, PlaceGoes, PlacePcs, EventStoreType, StockType
  <1> QED
    BY <1>4, <1>6, <1>7, <1>8, <1>9, <1>10, <1>11, <1>12 DEF PlaceStep

LEMMA CancelType ==
    ASSUME TypeOK, HistoryWellFormed, HandlersInv, NEW c \in Cancels,
           CancelStep(c) \/ \E o \in Orders : CancelLoad(c, o)
    PROVE  TypeOK'
  <1> USE DEF TypeOK
  <1> DEFINE Calls == [pc : CancelPcs, order : Orders \cup {NoOrder},
                       version : Nat, released : Nat]
  <1>1. JetStreamType(Message) /\ UNCHANGED <<streams, consumers>> => JetStreamType(Message)'
    BY DEF JetStreamType
  <1>2. ASSUME cancel[c].pc \in {"persisting", "publishing"}
        PROVE  CancelChange(c) \in StoredEvent
    BY <1>2, EventTypesOK DEF CancelChange, HandlersInv, CancelInv
  <1>3. ASSUME NEW pc \in CancelPcs, CancelGoes(c, pc)
        PROVE  cancel' \in [Cancels -> Calls]
    BY <1>3 DEF CancelGoes
  <1>4. CASE \E o \in Orders : CancelLoad(c, o)
    <2>1. PICK o \in Orders : CancelLoad(c, o)
      BY <1>4
    <2>2. PICK rows \in {Load(o)} \cup PartialLoads(o) :
            /\ Loads(o, rows)
            /\ LET order == LoadFromEvents(rows)
               IN  cancel' = [cancel EXCEPT ![c] =
                    [pc |-> IF CanChange(order.status) THEN "persisting" ELSE "rejected",
                     order |-> o, version |-> order.version, released |-> 0]]
      BY <2>1 DEF CancelLoad
    <2>3. LoadFromEvents(rows).version \in Nat
      BY <2>2, LoadedVersion
    <2>4. cancel' \in [Cancels -> Calls]
      BY <2>2, <2>3 DEF CancelPcs
    <2>5. FaultsType'
      BY <2>2, FaultCounted DEF Loads
    <2> QED
      BY <1>1, <2>1, <2>4, <2>5 DEF CancelLoad, EventStoreType, StockType
  <1>5. CASE CancelAppend(c)
    BY <1>1, <1>2, <1>3, <1>5, CommitType, FaultCounted DEF CancelAppend, CancelPcs, StockType
  <1>6. CASE CancelAppendFails(c)
    <2>1. EventStoreType' /\ FaultsType'
      BY <1>2, <1>6, CommitType, FaultCounted DEF CancelAppendFails, EventStoreType
    <2> QED
      BY <1>1, <1>3, <1>6, <2>1 DEF CancelAppendFails, CancelPcs, StockType
  <1>7. CASE CancelRelease(c)
    <2> DEFINE line == Cart[cancel[c].order][cancel[c].released + 1]
    <2> DEFINE after ==
          [pc |-> IF cancel[c].released + 1 = Len(Cart[cancel[c].order])
                  THEN "publishing" ELSE "releasing",
           order |-> cancel[c].order, version |-> cancel[c].version,
           released |-> cancel[c].released + 1]
    <2>1. /\ cancel[c].order \in Orders
          /\ cancel[c].released \in Nat
          /\ cancel[c].released < Len(Cart[cancel[c].order])
      BY <1>7 DEF CancelRelease, HandlersInv, CancelInv
    <2>2. cancel[c].released + 1 \in 1..Len(Cart[cancel[c].order])
      BY <2>1, CartLine
    <2>3. line.product \in Products /\ line.quantity \in Nat
      BY <2>1, <2>2, CartLine
    <2>4. StockType'
      BY <1>7, <2>3, ReleaseType DEF CancelRelease, StockType
    <2>5. FaultsType'
      BY <1>7, FaultCounted DEF CancelRelease
    <2>6. after \in Calls
      BY <2>1 DEF CancelPcs
    <2>7. cancel' = [cancel EXCEPT ![c] = after]
      BY <1>7 DEF CancelRelease
    <2> HIDE DEF after, Calls
    <2>8. cancel' \in [Cancels -> Calls]
      BY <2>6, <2>7 DEF Calls
    <2> QED
      BY <1>1, <1>7, <2>4, <2>5, <2>8 DEF CancelRelease, EventStoreType, Calls
  <1>8. CASE CancelPublish(c)
    <2>1. JetStreamType(Message)' /\ FaultsType'
      BY <1>2, <1>8, PublishOrIgnoreType DEF CancelPublish
    <2> QED
      BY <1>3, <1>8, <2>1 DEF CancelPublish, CancelPcs, EventStoreType, StockType
  <1> QED
    BY <1>4, <1>5, <1>6, <1>7, <1>8 DEF CancelStep

LEMMA SubType ==
    ASSUME TypeOK, HistoryWellFormed, HandlersInv, SubStep
    PROVE  TypeOK'
  <1> USE DEF TypeOK
  <1>1. JetStreamType(Message) /\ UNCHANGED <<streams, consumers>> => JetStreamType(Message)'
    BY DEF JetStreamType
  <1>2. ASSUME sub.pc # "idle"
        PROVE  SubChange \in StoredEvent
    BY <1>2, SubMessageType DEF HandlersInv
  <1>3. ASSUME NEW pc \in SubPcs, SubGoes(pc)
        PROVE  sub' \in [pc : SubPcs, msg : Nat, version : Nat]
    BY <1>3 DEF SubGoes
  <1>4. PaymentHandler \in Consumers
    BY WriteSideAssumption DEF Consumers
  <1>5. CASE \E i \in Deliverable(PaymentHandler) : SubHandle(i)
    <2>1. PICK i \in Deliverable(PaymentHandler) : SubHandle(i)
      BY <1>5
    <2> DEFINE o == streams["PAYMENTS"][i].order
    <2>2. PICK rows \in {Load(o)} \cup PartialLoads(o) :
            /\ Loads(o, rows)
            /\ LET order == LoadFromEvents(rows)
               IN  sub' = [pc |-> IF CanChange(order.status) THEN "persisting" ELSE "acking",
                           msg |-> i, version |-> order.version]
      BY <2>1 DEF SubHandle
    <2>3. LoadFromEvents(rows).version \in Nat /\ i \in Nat
      BY <2>1, <2>2, LoadedVersion, DeliverableMessage
    <2>4. sub' \in [pc : SubPcs, msg : Nat, version : Nat]
      BY <2>2, <2>3 DEF SubPcs
    <2>5. FaultsType' /\ JetStreamType(Message)'
      BY <1>4, <2>1, <2>2, <2>3, FaultCounted, DeliverType DEF Loads, SubHandle
    <2> QED
      BY <2>1, <2>4, <2>5 DEF SubHandle, EventStoreType, StockType
  <1>6. CASE SubAppend
    BY <1>1, <1>2, <1>3, <1>6, CommitType, FaultCounted DEF SubAppend, SubPcs, StockType
  <1>7. CASE SubAppendFails
    <2>1. EventStoreType' /\ FaultsType'
      BY <1>2, <1>7, CommitType, FaultCounted DEF SubAppendFails, EventStoreType
    <2> QED
      BY <1>1, <1>3, <1>7, <2>1 DEF SubAppendFails, SubPcs, StockType
  <1>8. CASE SubPublish
    <2>1. JetStreamType(Message)' /\ FaultsType'
      BY <1>2, <1>8, PublishOrIgnoreType DEF SubPublish
    <2> QED
      BY <1>3, <1>8, <2>1 DEF SubPublish, SubPcs, EventStoreType, StockType
  <1>9. CASE SubAck
    <2>1. sub' \in [pc : SubPcs, msg : Nat, version : Nat]
      BY <1>9 DEF SubAck, SubRests, SubPcs
    <2>2. JetStreamType(Message)' /\ FaultsType'
      BY <1>1, <1>4, <1>9, RedeliverType, FaultCounted DEF SubAck
    <2> QED
      BY <1>9, <2>1, <2>2 DEF SubAck, EventStoreType, StockType
  <1> QED
    BY <1>5, <1>6, <1>7, <1>8, <1>9 DEF SubStep

LEMMA EnvironmentType ==
    ASSUME TypeOK,
           \/ Crash \/ Shutdown \/ AtRest
           \/ \E p \in Payments, o \in Orders, s \in PaymentSubjects : PaymentSettled(p, o, s)
    PROVE  TypeOK'
  <1> USE DEF TypeOK
  <1>1. PaymentHandler \in Consumers
    BY WriteSideAssumption DEF Consumers
  <1>2. sub.msg \in Nat
    OBVIOUS
  <1>3. SubRests => sub' \in [pc : SubPcs, msg : Nat, version : Nat]
    BY DEF SubRests, SubPcs
  <1>4. CASE Crash
    <2>1. JetStreamType(Message)' /\ FaultsType'
      BY <1>1, <1>2, <1>4, LoseClientType, FaultCounted DEF Crash
    <2>2. place' \in [Orders -> [pc : PlacePcs, reserved : Nat, released : Nat]]
      BY <1>4 DEF Crash, PlacePcs
    <2>3. cancel' \in [Cancels -> [pc : CancelPcs, order : Orders \cup {NoOrder},
                                   version : Nat, released : Nat]]
      BY <1>4 DEF Crash, CancelPcs
    <2> QED
      BY <1>3, <1>4, <2>1, <2>2, <2>3 DEF Crash, EventStoreType, StockType
  <1>5. CASE Shutdown
    <2>1. JetStreamType(Message)'
      BY <1>1, <1>2, <1>5, LoseClientType, RecreateType DEF Shutdown, JetStreamType
    <2>2. FaultsType'
      BY <1>5, FaultCounted DEF Shutdown
    <2> QED
      BY <1>3, <1>5, <2>1, <2>2 DEF Shutdown, EventStoreType, StockType
  <1>6. CASE AtRest
    BY <1>6 DEF AtRest, vars, EventStoreType, StockType, FaultsType, JetStreamType
  <1>7. CASE \E p \in Payments, o \in Orders, s \in PaymentSubjects : PaymentSettled(p, o, s)
    <2>1. PICK p \in Payments, o \in Orders, s \in PaymentSubjects : PaymentSettled(p, o, s)
      BY <1>7
    <2>2. PaymentMessage(s, o, p) \in Message
      BY DEF PaymentMessage, Message
    <2>3. JetStreamType(Message)' /\ FaultsType'
      BY <2>1, <2>2, PublishType, FaultCounted DEF PaymentSettled, Streams
    <2> QED
      BY <2>1, <2>3 DEF PaymentSettled, EventStoreType, StockType
  <1> QED
    BY <1>4, <1>5, <1>6, <1>7

LEMMA StepType ==
    ASSUME IInv, [Next]_vars
    PROVE  TypeOK'
  <1>1. CASE UNCHANGED vars
    BY <1>1 DEF IInv, TypeOK, vars, EventStoreType, StockType, FaultsType, JetStreamType
  <1>2. CASE Next
    BY <1>2, PlaceType, CancelType, SubType, EnvironmentType DEF Next, IInv
  <1> QED
    BY <1>1, <1>2

-----------------------------------------------------------------------------
(* Every step keeps the histories well formed. *)

\* A handler stores the created event of an order that has no rows, or an
\* outcome as version 2 of an order that was created.
OrderStored(o) == Commit(OrderCreated(o)) /\ (PlaceAppend(o) \/ PlaceAppendFails(o))
OutcomeStored(e) ==
    /\ Commit(e)
    /\ e.version = 2 /\ e.type # EventOrderCreated /\ Created(e.order)
    /\ UNCHANGED place

LEMMA StoreChange ==
    ASSUME IInv, [Next]_vars
    PROVE  \/ UNCHANGED store
           \/ \E o \in Orders : OrderStored(o)
           \/ \E e \in StoredEvent : OutcomeStored(e)
  <1> USE DEF IInv, HandlersInv
  <1>1. ASSUME NEW o \in Orders, PlaceStart(o) \/ PlaceStep(o)
        PROVE  UNCHANGED store \/ OrderStored(o)
    BY <1>1 DEF PlaceStart, PlaceStep, ReserveLine, ReserveRefused, ReserveReplyLost,
                RollbackLine, PlaceAppend, PlaceAppendFails, PlacePublish, OrderStored
  <1>2. ASSUME NEW c \in Cancels, CancelStep(c) \/ \E o \in Orders : CancelLoad(c, o)
        PROVE  UNCHANGED store \/ \E e \in StoredEvent : OutcomeStored(e)
    <2>1. CASE CancelAppend(c) \/ CancelAppendFails(c)
      <3> DEFINE e == CancelChange(c)
      <3>1. cancel[c].order \in Orders /\ cancel[c].version = 1 /\ Created(cancel[c].order)
        BY <2>1 DEF CancelAppend, CancelAppendFails, CancelInv
      <3>2. e \in StoredEvent
        BY <3>1, EventTypesOK DEF CancelChange
      <3>3. e.version = 2 /\ e.type # EventOrderCreated /\ Created(e.order)
        BY <3>1 DEF CancelChange, OrderCancelled, EventOrderCancelled, EventOrderCreated
      <3>4. UNCHANGED place /\ (UNCHANGED store \/ Commit(e))
        BY <2>1 DEF CancelAppend, CancelAppendFails
      <3> QED
        BY <3>2, <3>3, <3>4 DEF OutcomeStored
    <2>2. CASE CancelRelease(c) \/ CancelPublish(c) \/ \E o \in Orders : CancelLoad(c, o)
      BY <2>2 DEF CancelRelease, CancelPublish, CancelLoad
    <2> QED
      BY <1>2, <2>1, <2>2 DEF CancelStep
  <1>3. ASSUME SubStep
        PROVE  UNCHANGED store \/ \E e \in StoredEvent : OutcomeStored(e)
    <2>1. CASE SubAppend \/ SubAppendFails
      <3>1. sub.version = 1 /\ Created(SubMessage.order) /\ sub.pc # "idle"
        BY <2>1 DEF SubAppend, SubAppendFails, SubInv
      <3>2. SubChange \in StoredEvent
        BY <3>1, SubMessageType
      <3>3. SubChange.version = 2 /\ SubChange.type # EventOrderCreated /\ Created(SubChange.order)
        BY <3>1 DEF SubChange, OrderCancelled, OrderPaid, EventOrderCancelled, EventOrderPaid,
                    EventOrderCreated
      <3>4. UNCHANGED place /\ (UNCHANGED store \/ Commit(SubChange))
        BY <2>1 DEF SubAppend, SubAppendFails
      <3> QED
        BY <3>2, <3>3, <3>4 DEF OutcomeStored
    <2>2. CASE \/ \E i \in Deliverable(PaymentHandler) : SubHandle(i)
               \/ SubPublish \/ SubAck
      BY <2>2 DEF SubHandle, SubPublish, SubAck
    <2> QED
      BY <1>3, <2>1, <2>2 DEF SubStep
  <1>4. ASSUME Crash \/ Shutdown \/ AtRest \/ UNCHANGED vars
        PROVE  UNCHANGED store
    BY <1>4 DEF Crash, Shutdown, AtRest, vars
  <1>5. ASSUME NEW p \in Payments, NEW o \in Orders, NEW s \in PaymentSubjects,
               PaymentSettled(p, o, s)
        PROVE  UNCHANGED store
    BY <1>5 DEF PaymentSettled
  <1> QED
    BY <1>1, <1>2, <1>3, <1>4, <1>5 DEF Next

LEMMA StepHistory ==
    ASSUME IInv, [Next]_vars
    PROVE  HistoryWellFormed'
  <1> USE DEF IInv
  <1>1. CASE UNCHANGED store
    BY <1>1 DEF HistoryWellFormed
  <1>2. CASE \E o \in Orders : OrderStored(o)
    <2>1. PICK o \in Orders : OrderStored(o)
      BY <1>2
    <2>2. OrderCreated(o).version = 1 /\ OrderCreated(o).type = EventOrderCreated
      BY DEF OrderCreated, NewOrder
    <2> QED
      BY <2>1, <2>2, CommitWellFormed DEF OrderStored
  <1>3. CASE \E e \in StoredEvent : OutcomeStored(e)
    BY <1>3, CommitWellFormed DEF OutcomeStored
  <1> QED
    BY <1>1, <1>2, <1>3, StoreChange

\* Rows are never removed, so what was created stays created.
LEMMA StoreGrows ==
    ASSUME IInv, [Next]_vars
    PROVE  /\ store \subseteq store'
           /\ \A o : Created(o) => Created(o)'
  <1>1. store \subseteq store'
    BY StoreChange DEF OrderStored, OutcomeStored, Commit
  <1> QED
    BY <1>1 DEF Created

-----------------------------------------------------------------------------
(* Every step keeps what the handlers rely on. *)

\* An order has no rows until its own PlaceOrder call stores the first.
LEMMA StaysUnplaced ==
    ASSUME IInv, [Next]_vars, NEW q \in Orders, Load(q) = {}, ~OrderStored(q)
    PROVE  Load(q)' = {}
  <1>1. CASE UNCHANGED store
    BY <1>1 DEF Load
  <1>2. CASE \E o \in Orders : OrderStored(o)
    BY <1>2 DEF OrderStored, Commit, OrderCreated, Load
  <1>3. CASE \E e \in StoredEvent : OutcomeStored(e)
    BY <1>3 DEF OutcomeStored, Commit, Created, Load
  <1> QED
    BY <1>1, <1>2, <1>3, StoreChange

LEMMA StepPlace ==
    ASSUME IInv, [Next]_vars
    PROVE  PlaceInv'
  <1> SUFFICES ASSUME NEW q \in Orders
               PROVE  /\ place'[q].pc \in {"idle", "reserving"} =>
                            /\ Load(q)' = {} /\ place'[q].released = 0
                            /\ place'[q].reserved <= Len(Cart[q])
                      /\ place'[q].pc = "rollback" =>
                            /\ place'[q].released < place'[q].reserved
                            /\ place'[q].reserved <= Len(Cart[q])
                      /\ place'[q].pc = "publishing" => Created(q)'
    BY DEF PlaceInv
  <1> USE DEF IInv, HandlersInv
  <1>1. /\ place[q].pc \in {"idle", "reserving"} =>
              Load(q) = {} /\ place[q].released = 0 /\ place[q].reserved <= Len(Cart[q])
        /\ place[q].pc = "rollback" =>
              place[q].released < place[q].reserved /\ place[q].reserved <= Len(Cart[q])
        /\ place[q].pc = "publishing" => Created(q)'
    BY StoreGrows DEF PlaceInv
  <1>2. /\ place \in [Orders -> [pc : PlacePcs, reserved : Nat, released : Nat]]
        /\ place[q].reserved \in Nat /\ place[q].released \in Nat
        /\ Len(Cart[q]) \in Nat
    BY CartLine DEF TypeOK
  <1>3. ASSUME place'[q] = place[q]
        PROVE  ~OrderStored(q)
    BY <1>2, <1>3 DEF OrderStored, PlaceAppend, PlaceAppendFails, FullyReserved, FailPlace,
                      PlaceGoes
  <1>4. CASE place'[q] = place[q]
    BY <1>1, <1>3, <1>4, StaysUnplaced
  <1>5. CASE PlaceStart(q)
    BY <1>1, <1>2, <1>5, StaysUnplaced DEF PlaceStart, PlaceGoes, OrderStored, PlaceAppend,
       PlaceAppendFails, FullyReserved
  <1>6. CASE ReserveLine(q)
    <2>1. Load(q)' = Load(q)
      BY <1>6 DEF ReserveLine, Load
    <2>2. place'[q] = [place[q] EXCEPT !.reserved = @ + 1]
      BY <1>2, <1>6 DEF ReserveLine
    <2> QED
      BY <1>1, <1>2, <1>6, <2>1, <2>2 DEF ReserveLine, Reserving
  <1>7. ASSUME FailPlace(q), place[q].pc = "reserving"
        PROVE  /\ place'[q].pc \in {"failed", "rollback"}
               /\ place'[q].pc = "rollback" =>
                    /\ place'[q].released < place'[q].reserved
                    /\ place'[q].reserved <= Len(Cart[q])
    BY <1>1, <1>2, <1>7 DEF FailPlace, PlaceGoes
  <1>8. CASE ReserveRefused(q) \/ ReserveReplyLost(q) \/ PlaceAppendFails(q)
    BY <1>7, <1>8 DEF ReserveRefused, ReserveReplyLost, PlaceAppendFails, Reserving,
                      FullyReserved
  <1>9. CASE RollbackLine(q)
    <2>1. place'[q] =
            [pc |-> IF place[q].released + 1 = place[q].reserved THEN "failed" ELSE "rollback",
             reserved |-> place[q].reserved, released |-> place[q].released + 1]
      BY <1>2, <1>9 DEF RollbackLine
    <2> QED
      BY <1>1, <1>2, <1>9, <2>1 DEF RollbackLine
  <1>10. CASE PlaceAppend(q)
    <2>1. place'[q].pc = "publishing"
      BY <1>2, <1>10 DEF PlaceAppend, PlaceGoes
    <2>2. Created(q)'
      BY <1>10 DEF PlaceAppend, Commit, Created, OrderCreated, NewOrder
    <2> QED
      BY <2>1, <2>2
  <1>11. CASE PlacePublish(q)
    BY <1>2, <1>11 DEF PlacePublish, PlaceGoes
  <1>12. CASE Crash
    <2>1. place'[q] = IF PlaceInProgress(q) THEN [place[q] EXCEPT !.pc = "crashed"] ELSE place[q]
      BY <1>12 DEF Crash
    <2>2. CASE PlaceInProgress(q)
      BY <1>2, <2>1, <2>2
    <2> QED
      BY <1>4, <2>1, <2>2
  <1>13. ASSUME NEW o \in Orders, o # q, PlaceStart(o) \/ PlaceStep(o)
         PROVE  place'[q] = place[q]
    BY <1>2, <1>13 DEF PlaceStart, PlaceStep, ReserveLine, ReserveRefused, ReserveReplyLost,
       RollbackLine, PlaceAppend, PlaceAppendFails, PlacePublish, FailPlace, PlaceGoes
  <1>14. ASSUME NEW c \in Cancels, CancelStep(c) \/ \E o \in Orders : CancelLoad(c, o)
         PROVE  place'[q] = place[q]
    BY <1>14 DEF CancelStep, CancelAppend, CancelAppendFails, CancelRelease, CancelPublish,
                 CancelLoad
  <1>15. ASSUME SubStep
         PROVE  place'[q] = place[q]
    BY <1>15 DEF SubStep, SubHandle, SubAppend, SubAppendFails, SubPublish, SubAck
  <1>16. ASSUME NEW p \in Payments, NEW o \in Orders, NEW s \in PaymentSubjects,
                PaymentSettled(p, o, s)
         PROVE  place'[q] = place[q]
    BY <1>16 DEF PaymentSettled
  <1>17. ASSUME Shutdown \/ AtRest \/ UNCHANGED vars
         PROVE  place'[q] = place[q]
    BY <1>17 DEF Shutdown, AtRest, vars
  <1>18. CASE PlaceStep(q)
    BY <1>6, <1>8, <1>9, <1>10, <1>11, <1>18 DEF PlaceStep
  <1> QED
    BY <1>4, <1>5, <1>12, <1>13, <1>14, <1>15, <1>16, <1>17, <1>18 DEF Next

\* A committed row is in the table.
LEMMA CommitStores ==
    ASSUME NEW e, Commit(e)
    PROVE  e \in store'
  BY DEF Commit

LEMMA StepCancel ==
    ASSUME IInv, [Next]_vars
    PROVE  CancelInv'
  <1> SUFFICES ASSUME NEW d \in Cancels
               PROVE  /\ cancel'[d].pc \in {"persisting", "releasing", "publishing"} =>
                            /\ cancel'[d].order \in Orders /\ cancel'[d].version = 1
                            /\ Created(cancel[d].order)'
                      /\ cancel'[d].pc \in {"idle", "persisting"} => cancel'[d].released = 0
                      /\ cancel'[d].pc = "releasing" =>
                            cancel'[d].released < Len(Cart[cancel'[d].order])
                      /\ cancel'[d].pc \in {"releasing", "publishing"} => CancelChange(d)' \in store'
    BY DEF CancelInv
  <1> USE DEF IInv, HandlersInv
  <1>1. /\ cancel[d].pc \in {"persisting", "releasing", "publishing"} =>
              /\ cancel[d].order \in Orders /\ cancel[d].version = 1
              /\ Created(cancel[d].order)
        /\ cancel[d].pc \in {"idle", "persisting"} => cancel[d].released = 0
        /\ cancel[d].pc = "releasing" => cancel[d].released < Len(Cart[cancel[d].order])
        /\ cancel[d].pc \in {"releasing", "publishing"} => CancelChange(d) \in store'
    BY StoreGrows DEF CancelInv
  <1>2. cancel \in [Cancels -> [pc : CancelPcs, order : Orders \cup {NoOrder},
                               version : Nat, released : Nat]]
    BY DEF TypeOK
  <1>3. ASSUME cancel'[d].order = cancel[d].order, cancel'[d].version = cancel[d].version
        PROVE  /\ CancelChange(d)' = CancelChange(d)
               /\ Created(cancel[d].order) => Created(cancel[d].order)'
    <2>1. Created(cancel[d].order) => \E e \in store' : e.order = cancel[d].order /\ e.version = 1
      BY StoreGrows DEF Created
    <2> QED
      BY <1>3, <2>1 DEF CancelChange, Created, OrderCancelled
  <1>4. CASE cancel'[d] = cancel[d]
    BY <1>1, <1>3, <1>4
  <1>5. ASSUME NEW pc, CancelGoes(d, pc)
        PROVE  cancel'[d] = [cancel[d] EXCEPT !.pc = pc]
    BY <1>2, <1>5 DEF CancelGoes
  <1>6. CASE \E o \in Orders : CancelLoad(d, o)
    <2>1. PICK o \in Orders : CancelLoad(d, o)
      BY <1>6
    <2>2. PICK rows \in {Load(o)} \cup PartialLoads(o) :
            /\ Loads(o, rows)
            /\ LET order == LoadFromEvents(rows)
               IN  cancel' = [cancel EXCEPT ![d] =
                    [pc |-> IF CanChange(order.status) THEN "persisting" ELSE "rejected",
                     order |-> o, version |-> order.version, released |-> 0]]
      BY <2>1 DEF CancelLoad
    <2>3. cancel'[d] =
            [pc |-> IF CanChange(LoadFromEvents(rows).status) THEN "persisting" ELSE "rejected",
             order |-> o, version |-> LoadFromEvents(rows).version, released |-> 0]
      BY <1>2, <2>2
    <2>4. CASE CanChange(LoadFromEvents(rows).status)
      <3>1. LoadFromEvents(rows).version = 1 /\ Created(o)
        BY <2>2, <2>4, LoadedPending DEF TypeOK
      <3>2. Created(cancel[d].order)'
        <4>1. \E e \in store' : e.order = o /\ e.version = 1
          BY <3>1, StoreGrows DEF Created
        <4> QED
          BY <2>3, <4>1 DEF Created
      <3> QED
        BY <2>3, <2>4, <3>1, <3>2
    <2>5. CASE ~CanChange(LoadFromEvents(rows).status)
      BY <2>3, <2>5
    <2> QED
      BY <2>4, <2>5
  <1>7. CASE CancelAppend(d)
    <2>1. cancel'[d] = [cancel[d] EXCEPT !.pc = "releasing"] /\ cancel[d].pc = "persisting"
      BY <1>5, <1>7 DEF CancelAppend
    <2>2. CancelChange(d) \in store'
      BY <1>7, CommitStores DEF CancelAppend
    <2>3. cancel[d].order \in Orders /\ 0 < Len(Cart[cancel[d].order])
      BY <1>1, <2>1, CartLine
    <2>4. cancel'[d].pc = "releasing" /\ cancel'[d].order = cancel[d].order
          /\ cancel'[d].version = cancel[d].version /\ cancel'[d].released = cancel[d].released
      BY <1>2, <2>1
    <2> QED
      BY <1>1, <1>3, <2>1, <2>2, <2>3, <2>4
  <1>8. CASE CancelAppendFails(d)
    <2>1. cancel' = [cancel EXCEPT ![d].pc = "rejected"]
      BY <1>8 DEF CancelAppendFails, CancelGoes
    <2>2. cancel'[d].pc = "rejected"
      BY <1>2, <2>1
    <2> QED
      BY <2>2
  <1>9. CASE CancelRelease(d)
    <2>1. cancel'[d] =
            [pc |-> IF cancel[d].released + 1 = Len(Cart[cancel[d].order])
                    THEN "publishing" ELSE "releasing",
             order |-> cancel[d].order, version |-> cancel[d].version,
             released |-> cancel[d].released + 1]
      BY <1>2, <1>9 DEF CancelRelease
    <2>2. cancel[d].pc = "releasing"
      BY <1>9 DEF CancelRelease
    <2>3. cancel[d].released \in Nat /\ Len(Cart[cancel[d].order]) \in Nat
      BY <1>1, <1>2, <2>2, CartLine
    <2> QED
      BY <1>1, <1>3, <2>1, <2>2, <2>3
  <1>10. CASE CancelPublish(d)
    <2>1. cancel' = [cancel EXCEPT ![d].pc = "done"]
      BY <1>10 DEF CancelPublish, CancelGoes
    <2>2. cancel'[d].pc = "done"
      BY <1>2, <2>1
    <2> QED
      BY <2>2
  <1>11. CASE Crash
    <2>1. cancel'[d] =
            IF CancelInProgress(d) THEN [cancel[d] EXCEPT !.pc = "crashed"] ELSE cancel[d]
      BY <1>11 DEF Crash
    <2>2. CASE CancelInProgress(d)
      BY <1>2, <2>1, <2>2
    <2> QED
      BY <1>4, <2>1, <2>2
  <1>12. ASSUME NEW c \in Cancels, c # d, CancelStep(c) \/ \E o \in Orders : CancelLoad(c, o)
         PROVE  cancel'[d] = cancel[d]
    BY <1>2, <1>12 DEF CancelStep, CancelAppend, CancelAppendFails, CancelRelease, CancelPublish,
                       CancelLoad, CancelGoes
  <1>13. ASSUME NEW o \in Orders, PlaceStart(o) \/ PlaceStep(o)
         PROVE  cancel'[d] = cancel[d]
    BY <1>13 DEF PlaceStart, PlaceStep, ReserveLine, ReserveRefused, ReserveReplyLost,
       RollbackLine, PlaceAppend, PlaceAppendFails, PlacePublish
  <1>14. ASSUME SubStep
         PROVE  cancel'[d] = cancel[d]
    BY <1>14 DEF SubStep, SubHandle, SubAppend, SubAppendFails, SubPublish, SubAck
  <1>15. ASSUME NEW p \in Payments, NEW o \in Orders, NEW s \in PaymentSubjects,
                PaymentSettled(p, o, s)
         PROVE  cancel'[d] = cancel[d]
    BY <1>15 DEF PaymentSettled
  <1>16. ASSUME Shutdown \/ AtRest \/ UNCHANGED vars
         PROVE  cancel'[d] = cancel[d]
    BY <1>16 DEF Shutdown, AtRest, vars
  <1>17. CASE CancelStep(d)
    BY <1>7, <1>8, <1>9, <1>10, <1>17 DEF CancelStep
  <1> QED
    BY <1>4, <1>6, <1>11, <1>12, <1>13, <1>14, <1>15, <1>16, <1>17 DEF Next

LEMMA StepSub ==
    ASSUME IInv, [Next]_vars
    PROVE  SubInv'
  <1> USE DEF IInv, HandlersInv
  <1>1. sub \in [pc : SubPcs, msg : Nat, version : Nat]
        /\ streams["PAYMENTS"] \in Seq(Message)
    BY DEF TypeOK, JetStreamType, Streams
  <1>2. ASSUME sub'.msg = sub.msg, sub.msg \in 1..Len(streams["PAYMENTS"]),
               streams' = streams \/ \E m \in Message : Publish("PAYMENTS", m) \/ Publish("ORDERS", m)
        PROVE  /\ sub'.msg \in 1..Len(streams'["PAYMENTS"])
               /\ SubMessage' = SubMessage
    <2>1. CASE streams' = streams
      BY <1>2, <2>1 DEF SubMessage
    <2>2. ASSUME NEW m \in Message, Publish("PAYMENTS", m) \/ Publish("ORDERS", m)
          PROVE  \/ streams'["PAYMENTS"] = streams["PAYMENTS"]
                 \/ streams'["PAYMENTS"] = Append(streams["PAYMENTS"], m)
      BY <2>2 DEF Publish, TypeOK, JetStreamType, Streams
    <2> QED
      BY <1>1, <1>2, <2>1, <2>2 DEF SubMessage
  <1>3. ASSUME sub' = sub, 
               streams' = streams \/ \E m \in Message : Publish("PAYMENTS", m) \/ Publish("ORDERS", m)
        PROVE  SubInv'
    <2>1. CASE sub.pc = "idle"
      BY <1>3, <2>1 DEF SubInv
    <2>2. CASE sub.pc # "idle"
      <3>1. sub'.msg \in 1..Len(streams'["PAYMENTS"]) /\ SubMessage' = SubMessage
        BY <1>2, <1>3, <2>2 DEF SubInv
      <3>2. SubChange' = SubChange
        BY <1>3, <3>1 DEF SubChange, OrderPaid, OrderCancelled
      <3>3. sub.pc \in {"persisting", "publishing"} => Created(SubMessage.order)'
        <4>1. Created(SubMessage.order) =>
                \E e \in store' : e.order = SubMessage.order /\ e.version = 1
          BY StoreGrows DEF Created
        <4> QED
          BY <3>1, <4>1 DEF SubInv, Created
      <3> QED
        BY <1>3, <3>1, <3>2, <3>3, StoreGrows DEF SubInv
    <2> QED
      BY <2>1, <2>2
  <1>4. CASE \E i \in Deliverable(PaymentHandler) : SubHandle(i)
    <2>1. PICK i \in Deliverable(PaymentHandler) : SubHandle(i)
      BY <1>4
    <2> DEFINE o == streams["PAYMENTS"][i].order
    <2>2. PICK rows \in {Load(o)} \cup PartialLoads(o) :
            /\ Loads(o, rows)
            /\ LET order == LoadFromEvents(rows)
               IN  sub' = [pc |-> IF CanChange(order.status) THEN "persisting" ELSE "acking",
                           msg |-> i, version |-> order.version]
      BY <2>1 DEF SubHandle
    <2>3. i \in 1..Len(streams["PAYMENTS"]) /\ streams' = streams /\ store' = store
      BY <2>1, DeliverableMessage DEF SubHandle
    <2>4. SubMessage' = streams["PAYMENTS"][i]
      BY <2>2, <2>3 DEF SubMessage
    <2>5. CASE CanChange(LoadFromEvents(rows).status)
      <3>1. LoadFromEvents(rows).version = 1 /\ Created(o)
        BY <2>2, <2>5, LoadedPending DEF TypeOK
      <3>2. Created(SubMessage.order)'
        BY <2>3, <2>4, <3>1 DEF Created
      <3> QED
        BY <2>2, <2>3, <2>5, <3>1, <3>2 DEF SubInv
    <2>6. CASE ~CanChange(LoadFromEvents(rows).status)
      BY <2>2, <2>3, <2>6 DEF SubInv
    <2> QED
      BY <2>5, <2>6
  <1>5. ASSUME NEW pc, SubGoes(pc)
        PROVE  sub' = [sub EXCEPT !.pc = pc]
    BY <1>5 DEF SubGoes
  <1>6. CASE SubAppend
    <2>1. sub' = [sub EXCEPT !.pc = "publishing"] /\ sub.pc = "persisting" /\ streams' = streams
      BY <1>5, <1>6 DEF SubAppend
    <2>2. sub'.pc = "publishing" /\ sub'.msg = sub.msg /\ sub'.version = sub.version
      BY <1>1, <2>1
    <2>3. sub'.msg \in 1..Len(streams'["PAYMENTS"]) /\ SubMessage' = SubMessage
      BY <1>2, <2>1, <2>2 DEF SubInv
    <2>4. SubChange' = SubChange
      BY <2>2, <2>3 DEF SubChange, OrderPaid, OrderCancelled
    <2>5. SubChange \in store'
      BY <1>6, CommitStores DEF SubAppend
    <2>6. \E e \in store' : e.order = SubMessage.order /\ e.version = 1
      BY <2>1, StoreGrows DEF SubInv, Created
    <2> QED
      BY <2>1, <2>2, <2>3, <2>4, <2>5, <2>6 DEF SubInv, Created
  <1>7. CASE SubAppendFails \/ SubPublish
    <2>1. sub' = [sub EXCEPT !.pc = "acking"] /\ sub.pc # "idle"
      BY <1>5, <1>7 DEF SubAppendFails, SubPublish
    <2>2. sub'.pc = "acking" /\ sub'.msg = sub.msg
      BY <1>1, <2>1
    <2>3. OrderMessage(SubChange) \in Message
      BY <2>1, SubMessageType, MessageOfEvent
    <2>4. streams' = streams \/ Publish("ORDERS", OrderMessage(SubChange))
      BY <1>7 DEF SubAppendFails, SubPublish, PublishOrIgnore
    <2>5. sub'.msg \in 1..Len(streams'["PAYMENTS"])
      BY <1>2, <2>1, <2>2, <2>3, <2>4 DEF SubInv
    <2> QED
      BY <2>2, <2>5 DEF SubInv
  <1>8. CASE SubAck \/ Crash \/ Shutdown
    BY <1>8 DEF SubAck, Crash, Shutdown, SubRests, SubInv
  <1>9. ASSUME NEW o \in Orders, PlaceStart(o) \/ PlaceStep(o)
        PROVE  SubInv'
    <2>1. OrderMessage(OrderCreated(o)) \in Message
      BY EventTypesOK, MessageOfEvent DEF OrderCreated
    <2>2. sub' = sub /\ (streams' = streams \/ Publish("ORDERS", OrderMessage(OrderCreated(o))))
      BY <1>9 DEF PlaceStart, PlaceStep, ReserveLine, ReserveRefused, ReserveReplyLost,
         RollbackLine, PlaceAppend, PlaceAppendFails, PlacePublish, PublishOrIgnore
    <2> QED
      BY <1>3, <2>1, <2>2
  <1>10. ASSUME NEW c \in Cancels, CancelStep(c) \/ \E o \in Orders : CancelLoad(c, o)
         PROVE  SubInv'
    <2>1. CASE CancelPublish(c)
      <3>1. CancelChange(c) \in StoredEvent
        BY <2>1, EventTypesOK DEF CancelPublish, CancelChange, CancelInv
      <3>2. sub' = sub /\ (streams' = streams \/ Publish("ORDERS", OrderMessage(CancelChange(c))))
        BY <2>1 DEF CancelPublish, PublishOrIgnore
      <3> QED
        BY <1>3, <3>1, <3>2, MessageOfEvent
    <2>2. CASE \/ CancelAppend(c) \/ CancelAppendFails(c) \/ CancelRelease(c)
               \/ \E o \in Orders : CancelLoad(c, o)
      BY <1>3, <2>2 DEF CancelAppend, CancelAppendFails, CancelRelease, CancelLoad
    <2> QED
      BY <1>10, <2>1, <2>2 DEF CancelStep
  <1>11. ASSUME NEW p \in Payments, NEW o \in Orders, NEW s \in PaymentSubjects,
                PaymentSettled(p, o, s)
         PROVE  SubInv'
    <2>1. PaymentMessage(s, o, p) \in Message
      BY DEF PaymentMessage, Message
    <2> QED
      BY <1>3, <1>11, <2>1 DEF PaymentSettled
  <1>12. CASE AtRest \/ UNCHANGED vars
    BY <1>3, <1>12 DEF AtRest, vars
  <1> QED
    BY <1>4, <1>6, <1>7, <1>8, <1>9, <1>10, <1>11, <1>12 DEF Next, SubStep

-----------------------------------------------------------------------------
(* The theorems *)

LEMMA InitIInv == Init => IInv
  <1> SUFFICES ASSUME Init PROVE IInv
    OBVIOUS
  <1>1. TypeOK
    BY InitType
  <1>2. HistoryWellFormed
    BY DEF Init, EventStoreInit, HistoryWellFormed
  <1>3. PlaceInv
    <2>1. ASSUME NEW o \in Orders
          PROVE  0 <= Len(Cart[o])
      BY CartLine
    <2> QED
      BY <2>1 DEF Init, EventStoreInit, Load, PlaceInv
  <1>4. CancelInv
    BY DEF Init, CancelInv
  <1>5. SubInv
    BY DEF Init, SubInv
  <1> QED
    BY <1>1, <1>2, <1>3, <1>4, <1>5 DEF IInv, HandlersInv

LEMMA StepIInv == IInv /\ [Next]_vars => IInv'
  BY StepType, StepHistory, StepPlace, StepCancel, StepSub DEF IInv, HandlersInv

LEMMA AlwaysIInv == Spec => []IInv
  BY InitIInv, StepIInv, PTL DEF Spec

\* Every variable of the write side keeps its type: in particular the stock of
\* no product ever becomes negative, however many orders compete for it.
THEOREM TypeCorrect == Spec => []TypeOK
  <1>1. IInv => TypeOK
    BY DEF IInv
  <1> QED
    BY <1>1, AlwaysIInv, PTL

\* However many PlaceOrder and CancelOrder calls and payment messages race, and
\* whatever fails, the event store holds one created event and at most one
\* outcome of an order.
THEOREM OneHistory == Spec => []HistoryWellFormed
  <1>1. IInv => HistoryWellFormed
    BY DEF IInv
  <1> QED
    BY <1>1, AlwaysIInv, PTL

\* No handler acts on anything but version 1 of an order, gives back a line it
\* does not hold, or publishes an outcome it did not store.
THEOREM HandlersSound == Spec => []HandlersInv
  <1>1. IInv => HandlersInv
    BY DEF IInv
  <1> QED
    BY <1>1, AlwaysIInv, PTL

-----------------------------------------------------------------------------
(* Proof that the write side implements the life of an order               *)
(* (OrderLifecycle), whatever fails, and that only a completed payment of  *)
(* an order makes it paid.                                                 *)

(* Who will announce which event *)

\* The goroutines that publish: one per PlaceOrder and CancelOrder call, and
\* the subscriber.
Handlers == ({"place"} \X Orders) \cup ({"cancel"} \X Cancels) \cup {<<"sub", "sub">>}

\* The handler has stored its event and not published it yet.
Owing(h) ==
    \/ h[1] = "place" /\ place[h[2]].pc = "publishing"
    \/ h[1] = "cancel" /\ cancel[h[2]].pc \in {"releasing", "publishing"}
    \/ h[1] = "sub" /\ sub.pc = "publishing"

Owed(h) ==
    IF h[1] = "place" THEN OrderCreated(h[2])
    ELSE IF h[1] = "cancel" THEN CancelChange(h[2]) ELSE SubChange

Log == streams["ORDERS"]
Silent(e) == \A i \in 1..Len(Log) : Log[i] # OrderMessage(e)

\* The stream holds stored events only; what a handler is about to announce is
\* stored, was not announced before, and is announced by no other handler.
FeedInv ==
    /\ \A i \in 1..Len(Log) : \E e \in store : Log[i] = OrderMessage(e)
    /\ \A h \in Handlers : Owing(h) => Owed(h) \in store /\ Silent(Owed(h))
    /\ \A h, g \in Handlers : Owing(h) /\ Owing(g) /\ Owed(h) = Owed(g) => h = g

\* A handler owes nothing it did not owe before.
Keeps(h) == Owing(h)' => Owing(h) /\ Owed(h)' = Owed(h)

\* The three kinds of steps: nothing is stored for announcement or announced, a
\* handler stores its event, a handler announces it.
Quiet == UNCHANGED Log /\ \A h \in Handlers : Keeps(h)
Stores(h) ==
    /\ UNCHANGED Log
    /\ Commit(Owed(h)) /\ Owed(h)' = Owed(h)
    /\ \A g \in Handlers \ {h} : Keeps(g)
Announces(h) ==
    /\ Publish("ORDERS", OrderMessage(Owed(h)))
    /\ Owing(h) /\ ~Owing(h)'
    /\ UNCHANGED store
    /\ \A g \in Handlers : Keeps(g)

\* Two rows of one order and one type are one row.
LEMMA OneRowPerType ==
    ASSUME HistoryWellFormed, NEW e \in store, NEW f \in store, e.order = f.order, e.type = f.type
    PROVE  e = f
  <1>1. e.version \in {1, 2} /\ f.version \in {1, 2}
    BY DEF HistoryWellFormed
  <1>2. (e.version = 1 <=> e.type = EventOrderCreated) /\ (f.version = 1 <=> f.type = EventOrderCreated)
    BY DEF HistoryWellFormed
  <1>3. e.version = f.version
    BY <1>1, <1>2
  <1> QED
    BY <1>3 DEF HistoryWellFormed

\* Messages of one order and one subject stand for rows of one order and type.
LEMMA SubjectTellsType ==
    ASSUME NEW s \in EventTypes, NEW t \in EventTypes, NatsSubject(s) = NatsSubject(t)
    PROVE  s = t
  BY DEF EventTypes, NatsSubject, EventOrderCreated, EventOrderPaid, EventOrderCancelled

LEMMA MessageTellsRow ==
    ASSUME NEW e \in StoredEvent, NEW f \in StoredEvent,
           OrderMessage(e).order = OrderMessage(f).order,
           OrderMessage(e).subject = OrderMessage(f).subject
    PROVE  e.order = f.order /\ e.type = f.type
  <1>1. e.type \in EventTypes /\ f.type \in EventTypes
    BY DEF StoredEvent
  <1> QED
    BY <1>1, SubjectTellsType DEF OrderMessage

\* An event that can still be stored has not been announced.
LEMMA StorableIsSilent ==
    ASSUME TypeOK, FeedInv, NEW e \in StoredEvent, Commit(e),
           HistoryWellFormed, HistoryWellFormed'
    PROVE  Silent(e)
  <1> SUFFICES ASSUME NEW i \in 1..Len(Log), Log[i] = OrderMessage(e)
               PROVE  FALSE
    BY DEF Silent
  <1>1. PICK f \in store : Log[i] = OrderMessage(f)
    BY DEF FeedInv
  <1>2. f \in StoredEvent
    BY DEF TypeOK, EventStoreType
  <1>3. e.order = f.order /\ e.type = f.type
    BY <1>1, <1>2, MessageTellsRow
  <1>4. e \in store' /\ f \in store'
    BY DEF Commit
  <1>5. e = f
    BY <1>3, <1>4 DEF HistoryWellFormed
  <1> QED
    BY <1>5 DEF Commit, Conflicts

LEMMA FeedSteps ==
    ASSUME TypeOK, HistoryWellFormed, HistoryWellFormed', FeedInv,
           \/ Quiet /\ store \subseteq store'
           \/ \E h \in Handlers : Owed(h) \in StoredEvent /\ Stores(h)
           \/ \E h \in Handlers : Announces(h)
    PROVE  FeedInv'
  <1>1. CASE Quiet /\ store \subseteq store'
    BY <1>1 DEF Quiet, Keeps, FeedInv, Silent
  <1>2. ASSUME NEW h \in Handlers, Owed(h) \in StoredEvent, Stores(h)
        PROVE  FeedInv'
    <2> DEFINE e == Owed(h)
    <2>1. Commit(e) /\ Log' = Log /\ Owed(h)' = e /\ store' = store \cup {e} /\ e \notin store
      BY <1>2 DEF Stores, Commit, Conflicts
    <2>2. Silent(e)
      BY <1>2, <2>1, StorableIsSilent
    <2>3. \A g \in Handlers \ {h} : Owing(g)' => /\ Owing(g) /\ Owed(g)' = Owed(g)
                                                 /\ Owed(g) \in store /\ Silent(Owed(g))
      BY <1>2 DEF Stores, Keeps, FeedInv
    <2>4. \A i \in 1..Len(Log') : \E f \in store' : Log'[i] = OrderMessage(f)
      BY <2>1 DEF FeedInv
    <2>5. ASSUME NEW g \in Handlers, Owing(g)'
          PROVE  Owed(g)' \in store' /\ Silent(Owed(g))'
      <3>1. Owed(g)' \in store' /\ Silent(Owed(g)')
        BY <2>1, <2>2, <2>3, <2>5
      <3> QED
        BY <2>1, <3>1 DEF Silent
    <2>6. ASSUME NEW f \in Handlers, NEW g \in Handlers, Owing(f)', Owing(g)', Owed(f)' = Owed(g)'
          PROVE  f = g
      <3>1. CASE f # h /\ g # h
        BY <2>3, <2>6, <3>1 DEF FeedInv
      <3>2. CASE f = h \/ g = h
        BY <2>1, <2>3, <2>6, <3>2
      <3> QED
        BY <3>1, <3>2
    <2> QED
      BY <2>4, <2>5, <2>6 DEF FeedInv
  <1>3. ASSUME NEW h \in Handlers, Announces(h)
        PROVE  FeedInv'
    <2> DEFINE e == Owed(h)
    <2>1. Log \in Seq(Message) /\ streams' = [streams EXCEPT !["ORDERS"] = Append(Log, OrderMessage(e))]
      BY <1>3 DEF Announces, Publish, TypeOK, JetStreamType, Streams, Log
    <2>2. Log' = Append(Log, OrderMessage(e))
      BY <2>1 DEF TypeOK, JetStreamType, Streams, Log
    <2>3. store' = store /\ e \in store /\ ~Owing(h)'
      BY <1>3 DEF Announces, FeedInv
    <2>4. \A i \in 1..Len(Log') : Log'[i] = OrderMessage(e) \/ (i \in 1..Len(Log) /\ Log'[i] = Log[i])
      BY <2>1, <2>2
    <2>5. \A i \in 1..Len(Log') : \E f \in store' : Log'[i] = OrderMessage(f)
      BY <2>3, <2>4 DEF FeedInv
    <2>6. \A g \in Handlers : Owing(g)' => /\ Owing(g) /\ Owed(g)' = Owed(g) /\ g # h
                                           /\ Owed(g) \in store /\ Silent(Owed(g))
      BY <1>3, <2>3 DEF Announces, Keeps, FeedInv
    <2>7. ASSUME NEW g \in Handlers, Owing(g)'
          PROVE  Silent(Owed(g))'
      <3> DEFINE f == Owed(g)
      <3>1. f # e /\ f \in store /\ Silent(f) /\ Owed(g)' = f
        BY <1>3, <2>6, <2>7 DEF FeedInv, Announces
      <3>2. OrderMessage(f) # OrderMessage(e)
        <4>1. e \in StoredEvent /\ f \in StoredEvent
          BY <2>3, <3>1 DEF TypeOK, EventStoreType
        <4> QED
          BY <2>3, <3>1, <4>1, MessageTellsRow, OneRowPerType
      <3>3. \A i \in 1..Len(Log') : Log'[i] # OrderMessage(f)
        BY <2>4, <3>1, <3>2 DEF Silent
      <3> QED
        BY <3>1, <3>3 DEF Silent
    <2> QED
      BY <2>3, <2>5, <2>6, <2>7 DEF FeedInv
  <1> QED
    BY <1>1, <1>2, <1>3

-----------------------------------------------------------------------------
(* Every step of the write side is of one of the three kinds. *)

PlaceKeeps(o) == place'[o].pc = "publishing" => place[o].pc = "publishing"
CancelKeeps(c) ==
    cancel'[c].pc \in {"releasing", "publishing"} =>
        cancel[c].pc \in {"releasing", "publishing"} /\ CancelChange(c)' = CancelChange(c)
SubKeeps == sub'.pc = "publishing" => sub.pc = "publishing" /\ SubChange' = SubChange

LEMMA HandlersKeep ==
    /\ \A o \in Orders : PlaceKeeps(o) <=> Keeps(<<"place", o>>)
    /\ \A c \in Cancels : CancelKeeps(c) <=> Keeps(<<"cancel", c>>)
    /\ SubKeeps <=> Keeps(<<"sub", "sub">>)
  <1>1. ASSUME NEW o \in Orders
        PROVE  PlaceKeeps(o) <=> Keeps(<<"place", o>>)
    <2>1. (Owing(<<"place", o>>) <=> place[o].pc = "publishing")
          /\ (Owing(<<"place", o>>)' <=> place'[o].pc = "publishing")
      BY DEF Owing
    <2>2. Owed(<<"place", o>>)' = Owed(<<"place", o>>)
      BY DEF Owed, OrderCreated, NewOrder
    <2> QED
      BY <2>1, <2>2 DEF PlaceKeeps, Keeps
  <1>2. ASSUME NEW c \in Cancels
        PROVE  CancelKeeps(c) <=> Keeps(<<"cancel", c>>)
    BY DEF CancelKeeps, Keeps, Owing, Owed
  <1>3. SubKeeps <=> Keeps(<<"sub", "sub">>)
    BY DEF SubKeeps, Keeps, Owing, Owed
  <1> QED
    BY <1>1, <1>2, <1>3

\* The message in the subscriber's hands is the same after any publish.
LEMMA SubChangeStable ==
    ASSUME TypeOK, SubInv, sub.pc # "idle", sub'.msg = sub.msg, sub'.version = sub.version,
           streams' = streams \/ \E s \in Streams, m \in Message : Publish(s, m)
    PROVE  SubMessage' = SubMessage /\ SubChange' = SubChange
  <1>1. streams["PAYMENTS"] \in Seq(Message) /\ sub.msg \in 1..Len(streams["PAYMENTS"])
    BY DEF TypeOK, JetStreamType, Streams, SubInv
  <1>2. ASSUME NEW s \in Streams, NEW m \in Message, Publish(s, m)
        PROVE  \/ streams'["PAYMENTS"] = streams["PAYMENTS"]
               \/ streams'["PAYMENTS"] = Append(streams["PAYMENTS"], m)
    BY <1>2 DEF Publish, TypeOK, JetStreamType, Streams
  <1>3. streams'["PAYMENTS"][sub.msg] = streams["PAYMENTS"][sub.msg]
    BY <1>1, <1>2
  <1>4. SubMessage' = SubMessage
    BY <1>3 DEF SubMessage
  <1> QED
    BY <1>4 DEF SubChange, OrderPaid, OrderCancelled

\* A handler that does not move, and whose message is untouched, keeps its state.
LEMMA OthersKeep ==
    ASSUME TypeOK, SubInv,
           streams' = streams \/ \E s \in Streams, m \in Message : Publish(s, m)
    PROVE  /\ UNCHANGED place => \A o \in Orders : PlaceKeeps(o)
           /\ UNCHANGED cancel => \A c \in Cancels : CancelKeeps(c)
           /\ UNCHANGED sub => SubKeeps
  <1>1. UNCHANGED place => \A o \in Orders : PlaceKeeps(o)
    BY DEF PlaceKeeps
  <1>2. UNCHANGED cancel => \A c \in Cancels : CancelKeeps(c)
    BY DEF CancelKeeps, CancelChange, OrderCancelled
  <1>3. UNCHANGED sub => SubKeeps
    BY SubChangeStable DEF SubKeeps
  <1> QED
    BY <1>1, <1>2, <1>3

KindOfStep ==
    \/ Quiet
    \/ \E h \in Handlers : Owed(h) \in StoredEvent /\ Stores(h)
    \/ \E h \in Handlers : Announces(h)

\* When every handler keeps its state and ORDERS its messages, the step is quiet.
LEMMA QuietStep ==
    ASSUME UNCHANGED Log, \A o \in Orders : PlaceKeeps(o), \A c \in Cancels : CancelKeeps(c),
           SubKeeps
    PROVE  KindOfStep
  BY HandlersKeep DEF Quiet, KindOfStep, Handlers

\* A publish that fails leaves the streams as they are.
LEMMA PublishedOrNot ==
    ASSUME NEW e \in StoredEvent, PublishOrIgnore(e)
    PROVE  /\ streams' = streams \/ \E s \in Streams, m \in Message : Publish(s, m)
           /\ UNCHANGED Log \/ Publish("ORDERS", OrderMessage(e))
  <1>1. OrderMessage(e) \in Message /\ "ORDERS" \in Streams
    BY MessageOfEvent DEF Streams
  <1> QED
    BY <1>1 DEF PublishOrIgnore, Log

\* A step in which handler h publishes, or gives up publishing.
LEMMA AnnouncingStep ==
    ASSUME NEW h \in Handlers, PublishOrIgnore(Owed(h)), Owing(h), ~Owing(h)',
           UNCHANGED store, \A g \in Handlers \ {h} : Keeps(g)
    PROVE  KindOfStep
  <1>1. \A g \in Handlers : Keeps(g)
    BY DEF Keeps
  <1>2. UNCHANGED streams \/ Publish("ORDERS", OrderMessage(Owed(h)))
    BY DEF PublishOrIgnore
  <1> QED
    BY <1>1, <1>2 DEF KindOfStep, Quiet, Announces, Log

\* A step in which handler h stores its event.
LEMMA StoringStep ==
    ASSUME NEW h \in Handlers, Commit(Owed(h)), Owed(h) \in StoredEvent, Owed(h)' = Owed(h),
           UNCHANGED streams, \A g \in Handlers \ {h} : Keeps(g)
    PROVE  KindOfStep
  BY DEF KindOfStep, Stores, Log

LEMMA KindPlace ==
    ASSUME IInv, NEW o \in Orders, PlaceStart(o) \/ PlaceStep(o)
    PROVE  KindOfStep
  <1> USE DEF IInv, HandlersInv
  <1> DEFINE h == <<"place", o>>
  <1>1. place \in [Orders -> [pc : PlacePcs, reserved : Nat, released : Nat]]
    BY DEF TypeOK
  <1>2. OrderCreated(o) \in StoredEvent /\ h \in Handlers
    BY EventTypesOK DEF Handlers, OrderCreated
  <1>3. Owed(h) = OrderCreated(o) /\ Owed(h)' = OrderCreated(o)
    BY DEF Owed, OrderCreated, NewOrder
  <1>4. UNCHANGED <<cancel, sub>>
    BY DEF PlaceStart, PlaceStep, ReserveLine, ReserveRefused, ReserveReplyLost, RollbackLine,
           PlaceAppend, PlaceAppendFails, PlacePublish
  <1>5. ASSUME NEW pc, PlaceGoes(o, pc)
        PROVE  place'[o].pc = pc /\ \A q \in Orders \ {o} : PlaceKeeps(q)
    BY <1>1, <1>5 DEF PlaceGoes, PlaceKeeps
  <1>6. ASSUME FailPlace(o)
        PROVE  \A q \in Orders : PlaceKeeps(q)
    BY <1>5, <1>6 DEF FailPlace, PlaceKeeps
  <1>7. ASSUME UNCHANGED streams, \A q \in Orders : PlaceKeeps(q)
        PROVE  KindOfStep
    BY <1>4, <1>7, OthersKeep, QuietStep DEF Log
  <1>8. CASE PlaceStart(o)
    <2>1. place'[o].pc = "reserving" /\ \A q \in Orders \ {o} : PlaceKeeps(q)
      BY <1>5, <1>8 DEF PlaceStart
    <2> QED
      BY <1>7, <1>8, <2>1 DEF PlaceStart, PlaceKeeps
  <1>9. CASE ReserveLine(o)
    BY <1>1, <1>7, <1>9 DEF ReserveLine, PlaceKeeps
  <1>10. CASE ReserveRefused(o) \/ ReserveReplyLost(o) \/ PlaceAppendFails(o)
    BY <1>6, <1>7, <1>10 DEF ReserveRefused, ReserveReplyLost, PlaceAppendFails
  <1>11. CASE RollbackLine(o)
    <2>1. \A q \in Orders : PlaceKeeps(q)
      BY <1>1, <1>11 DEF RollbackLine, PlaceKeeps
    <2> QED
      BY <1>7, <1>11, <2>1 DEF RollbackLine
  <1>12. ASSUME \A q \in Orders \ {o} : PlaceKeeps(q),
                streams' = streams \/ \E s \in Streams, m \in Message : Publish(s, m)
         PROVE  \A g \in Handlers \ {h} : Keeps(g)
    BY <1>4, <1>12, OthersKeep, HandlersKeep DEF Handlers
  <1>13. CASE PlaceAppend(o)
    <2>1. \A q \in Orders \ {o} : PlaceKeeps(q)
      BY <1>5, <1>13 DEF PlaceAppend
    <2>2. \A g \in Handlers \ {h} : Keeps(g)
      BY <1>12, <1>13, <2>1 DEF PlaceAppend
    <2> QED
      BY <1>2, <1>3, <1>13, <2>2, StoringStep DEF PlaceAppend
  <1>14. CASE PlacePublish(o)
    <2>1. \A q \in Orders \ {o} : PlaceKeeps(q)
      BY <1>5, <1>14 DEF PlacePublish
    <2>2. \A g \in Handlers \ {h} : Keeps(g)
      BY <1>2, <1>12, <1>14, <2>1, PublishedOrNot DEF PlacePublish
    <2>3. Owing(h) /\ ~Owing(h)'
      BY <1>5, <1>14 DEF PlacePublish, Owing
    <2> QED
      BY <1>2, <1>3, <1>14, <2>2, <2>3, AnnouncingStep DEF PlacePublish
  <1> QED
    BY <1>8, <1>9, <1>10, <1>11, <1>13, <1>14 DEF PlaceStep

LEMMA KindCancel ==
    ASSUME IInv, NEW c \in Cancels, CancelStep(c) \/ \E o \in Orders : CancelLoad(c, o)
    PROVE  KindOfStep
  <1> USE DEF IInv, HandlersInv
  <1> DEFINE h == <<"cancel", c>>
  <1>1. cancel \in [Cancels -> [pc : CancelPcs, order : Orders \cup {NoOrder},
                                version : Nat, released : Nat]]
    BY DEF TypeOK
  <1>2. h \in Handlers /\ Owed(h) = CancelChange(c) /\ Owed(h)' = CancelChange(c)'
    BY DEF Handlers, Owed
  <1>3. cancel[c].pc \in {"persisting", "publishing"} => CancelChange(c) \in StoredEvent
    BY <1>1, EventTypesOK DEF CancelInv, CancelChange
  <1>4. UNCHANGED <<place, sub>>
    BY DEF CancelStep, CancelLoad, CancelAppend, CancelAppendFails, CancelRelease, CancelPublish
  <1>5. ASSUME NEW pc, CancelGoes(c, pc)
        PROVE  /\ cancel'[c].pc = pc /\ CancelChange(c)' = CancelChange(c)
               /\ \A d \in Cancels \ {c} : CancelKeeps(d)
    BY <1>1, <1>5 DEF CancelGoes, CancelKeeps, CancelChange, OrderCancelled
  <1>6. ASSUME UNCHANGED streams, \A d \in Cancels : CancelKeeps(d)
        PROVE  KindOfStep
    <2>1. (\A o \in Orders : PlaceKeeps(o)) /\ SubKeeps
      BY <1>4, <1>6, OthersKeep
    <2> QED
      BY <1>6, <2>1, QuietStep DEF Log
  <1>7. CASE \E o \in Orders : CancelLoad(c, o)
    <2>1. PICK o \in Orders : \E rows \in {Load(o)} \cup PartialLoads(o) :
            cancel' = [cancel EXCEPT ![c] =
               [pc |-> IF CanChange(LoadFromEvents(rows).status) THEN "persisting" ELSE "rejected",
                order |-> o, version |-> LoadFromEvents(rows).version, released |-> 0]]
      BY <1>7 DEF CancelLoad
    <2>2. cancel'[c].pc \in {"persisting", "rejected"} /\ \A d \in Cancels \ {c} : cancel'[d] = cancel[d]
      BY <1>1, <2>1
    <2>3. \A d \in Cancels : CancelKeeps(d)
      BY <2>2 DEF CancelKeeps, CancelChange, OrderCancelled
    <2> QED
      BY <1>6, <1>7, <2>3 DEF CancelLoad
  <1>8. CASE CancelAppendFails(c)
    <2>1. cancel'[c].pc = "rejected" /\ \A d \in Cancels \ {c} : CancelKeeps(d)
      BY <1>5, <1>8 DEF CancelAppendFails
    <2> QED
      BY <1>6, <1>8, <2>1 DEF CancelAppendFails, CancelKeeps
  <1>9. CASE CancelRelease(c)
    <2>1. cancel[c].pc = "releasing"
          /\ cancel' = [cancel EXCEPT ![c] =
                [pc |-> IF @.released + 1 = Len(Cart[@.order]) THEN "publishing" ELSE "releasing",
                 order |-> @.order, version |-> @.version, released |-> @.released + 1]]
      BY <1>9 DEF CancelRelease
    <2>2. cancel'[c].order = cancel[c].order /\ cancel'[c].version = cancel[c].version
          /\ \A d \in Cancels \ {c} : cancel'[d] = cancel[d]
      BY <1>1, <2>1
    <2>3. \A d \in Cancels : CancelKeeps(d)
      BY <2>1, <2>2 DEF CancelKeeps, CancelChange, OrderCancelled
    <2> QED
      BY <1>6, <1>9, <2>3 DEF CancelRelease
  <1>10. ASSUME \A d \in Cancels \ {c} : CancelKeeps(d),
                streams' = streams \/ \E s \in Streams, m \in Message : Publish(s, m)
         PROVE  \A g \in Handlers \ {h} : Keeps(g)
    BY <1>4, <1>10, OthersKeep, HandlersKeep DEF Handlers
  <1>11. CASE CancelAppend(c)
    <2>1. CancelChange(c)' = CancelChange(c) /\ \A d \in Cancels \ {c} : CancelKeeps(d)
      BY <1>5, <1>11 DEF CancelAppend
    <2>2. \A g \in Handlers \ {h} : Keeps(g)
      BY <1>10, <1>11, <2>1 DEF CancelAppend
    <2> QED
      BY <1>2, <1>3, <1>11, <2>1, <2>2, StoringStep DEF CancelAppend
  <1>12. CASE CancelPublish(c)
    <2>1. cancel'[c].pc = "done" /\ \A d \in Cancels \ {c} : CancelKeeps(d)
      BY <1>5, <1>12 DEF CancelPublish
    <2>2. \A g \in Handlers \ {h} : Keeps(g)
      BY <1>3, <1>10, <1>12, <2>1, PublishedOrNot DEF CancelPublish
    <2>3. Owing(h) /\ ~Owing(h)'
      BY <1>12, <2>1 DEF CancelPublish, Owing
    <2> QED
      BY <1>2, <1>12, <2>2, <2>3, AnnouncingStep DEF CancelPublish
  <1> QED
    BY <1>7, <1>8, <1>9, <1>11, <1>12 DEF CancelStep

LEMMA KindSub ==
    ASSUME IInv, SubStep
    PROVE  KindOfStep
  <1> USE DEF IInv, HandlersInv
  <1> DEFINE h == <<"sub", "sub">>
  <1>1. sub \in [pc : SubPcs, msg : Nat, version : Nat]
    BY DEF TypeOK
  <1>2. h \in Handlers /\ Owed(h) = SubChange /\ Owed(h)' = SubChange'
    BY DEF Handlers, Owed
  <1>3. sub.pc # "idle" => SubChange \in StoredEvent
    BY SubMessageType
  <1>4. UNCHANGED <<place, cancel>>
    BY DEF SubStep, SubHandle, SubAppend, SubAppendFails, SubPublish, SubAck
  <1>5. ASSUME NEW pc, SubGoes(pc)
        PROVE  sub'.pc = pc /\ sub'.msg = sub.msg /\ sub'.version = sub.version
    BY <1>1, <1>5 DEF SubGoes
  <1>6. ASSUME UNCHANGED streams, sub'.pc # "publishing"
        PROVE  KindOfStep
    <2>1. (\A o \in Orders : PlaceKeeps(o)) /\ \A c \in Cancels : CancelKeeps(c)
      BY <1>4, <1>6, OthersKeep
    <2> QED
      BY <1>6, <2>1, QuietStep DEF Log, SubKeeps
  <1>7. ASSUME streams' = streams \/ \E s \in Streams, m \in Message : Publish(s, m)
        PROVE  \A g \in Handlers \ {h} : Keeps(g)
    BY <1>4, <1>7, OthersKeep, HandlersKeep DEF Handlers
  <1>8. CASE \E i \in Deliverable(PaymentHandler) : SubHandle(i)
    <2>1. UNCHANGED streams /\ sub'.pc \in {"persisting", "acking"}
      BY <1>8 DEF SubHandle
    <2> QED
      BY <1>6, <2>1
  <1>9. CASE SubAppendFails \/ SubAck
    <2>1. UNCHANGED streams /\ sub'.pc # "publishing"
      BY <1>5, <1>9 DEF SubAppendFails, SubAck, SubRests
    <2> QED
      BY <1>6, <2>1
  <1>10. CASE SubAppend
    <2>1. sub.pc # "idle" /\ SubChange' = SubChange
      BY <1>5, <1>10, SubChangeStable DEF SubAppend
    <2>2. \A g \in Handlers \ {h} : Keeps(g)
      BY <1>7, <1>10 DEF SubAppend
    <2> QED
      BY <1>2, <1>3, <1>10, <2>1, <2>2, StoringStep DEF SubAppend
  <1>11. CASE SubPublish
    <2>1. sub.pc = "publishing" /\ sub'.pc = "acking"
      BY <1>5, <1>11 DEF SubPublish
    <2>2. \A g \in Handlers \ {h} : Keeps(g)
      BY <1>3, <1>7, <1>11, <2>1, PublishedOrNot DEF SubPublish
    <2>3. Owing(h) /\ ~Owing(h)'
      BY <2>1 DEF Owing
    <2> QED
      BY <1>2, <1>11, <2>2, <2>3, AnnouncingStep DEF SubPublish
  <1> QED
    BY <1>8, <1>9, <1>10, <1>11 DEF SubStep

LEMMA KindEnvironment ==
    ASSUME IInv,
           \/ \E p \in Payments, o \in Orders, s \in PaymentSubjects : PaymentSettled(p, o, s)
           \/ Crash \/ Shutdown \/ AtRest \/ UNCHANGED vars
    PROVE  KindOfStep
  <1> USE DEF IInv, HandlersInv
  <1>1. ASSUME NEW p \in Payments, NEW o \in Orders, NEW s \in PaymentSubjects,
               PaymentSettled(p, o, s)
        PROVE  KindOfStep
    <2>1. Publish("PAYMENTS", PaymentMessage(s, o, p)) /\ UNCHANGED <<place, cancel, sub>>
      BY <1>1 DEF PaymentSettled
    <2>2. PaymentMessage(s, o, p) \in Message /\ "PAYMENTS" \in Streams
      BY DEF PaymentMessage, Message, Streams
    <2>3. UNCHANGED Log
      BY <2>1 DEF Publish, Log, TypeOK, JetStreamType, Streams
    <2>4. /\ \A q \in Orders : PlaceKeeps(q)
          /\ \A c \in Cancels : CancelKeeps(c)
          /\ SubKeeps
      BY <2>1, <2>2, OthersKeep
    <2> QED
      BY <2>3, <2>4, QuietStep
  <1>2. CASE Crash
    <2>1. \A o \in Orders : place'[o].pc = "publishing" => FALSE
      <3>1. place' = [o \in Orders |->
              IF PlaceInProgress(o) THEN [place[o] EXCEPT !.pc = "crashed"] ELSE place[o]]
        BY <1>2 DEF Crash
      <3> QED
        BY <3>1 DEF PlaceInProgress, TypeOK
    <2>2. \A c \in Cancels : cancel'[c].pc \in {"releasing", "publishing"} => FALSE
      <3>1. cancel' = [c \in Cancels |->
              IF CancelInProgress(c) THEN [cancel[c] EXCEPT !.pc = "crashed"] ELSE cancel[c]]
        BY <1>2 DEF Crash
      <3> QED
        BY <3>1 DEF CancelInProgress, TypeOK
    <2>3. UNCHANGED streams /\ sub'.pc = "idle"
      BY <1>2 DEF Crash, SubRests
    <2> QED
      BY <2>1, <2>2, <2>3, QuietStep DEF PlaceKeeps, CancelKeeps, SubKeeps, Log
  <1>3. CASE Shutdown
    <2>1. UNCHANGED <<streams, place, cancel>> /\ sub'.pc = "idle"
      BY <1>3 DEF Shutdown, SubRests
    <2> QED
      BY <2>1, OthersKeep, QuietStep DEF SubKeeps, Log
  <1>4. CASE AtRest \/ UNCHANGED vars
    BY <1>4, OthersKeep, QuietStep DEF AtRest, vars, Log
  <1> QED
    BY <1>1, <1>2, <1>3, <1>4

LEMMA KindOfEveryStep ==
    ASSUME IInv, [Next]_vars
    PROVE  KindOfStep
  BY KindPlace, KindCancel, KindSub, KindEnvironment DEF Next

LEMMA StepFeed ==
    ASSUME IInv, FeedInv, [Next]_vars
    PROVE  FeedInv'
  <1>1. TypeOK /\ HistoryWellFormed /\ HistoryWellFormed'
    BY StepHistory DEF IInv
  <1> QED
    BY <1>1, KindOfEveryStep, StoreGrows, FeedSteps DEF KindOfStep

LEMMA InitFeed == Init => FeedInv
  BY DEF Init, JetStreamInit, Streams, FeedInv, Log, Handlers, Owing

-----------------------------------------------------------------------------
(* What the history says, and what a step makes of it *)

LEMMA StatusAfterTypes ==
    /\ StatusAfter(EventOrderCreated) = "pending"
    /\ StatusAfter(EventOrderPaid) = "paid"
    /\ StatusAfter(EventOrderCancelled) = "cancelled"
  BY DEF StatusAfter, EventOrderCreated, EventOrderPaid, EventOrderCancelled

\* The newest row decides the status.
LEMMA StatusOfRows ==
    ASSUME NEW rows, NEW e \in rows, e.version \in Nat,
           \A f \in rows : f.version \in Nat /\ f.version <= e.version
                          /\ (f.version = e.version => f = e)
    PROVE  LoadFromEvents(rows).status = StatusAfter(e.type)
  <1>1. Newest(rows) \in rows /\ \A f \in rows : f.version <= Newest(rows).version
    BY DEF Newest
  <1>2. Newest(rows) = e
    BY <1>1
  <1> QED
    BY <1>2 DEF LoadFromEvents

\* The status by the rows: the outcome decides, else the order is pending.
LEMMA StatusByRows ==
    ASSUME HistoryWellFormed, NEW o \in Orders
    PROVE  /\ \A e \in store : e.order = o /\ e.version = 2 => StatusOf(o) = StatusAfter(e.type)
           /\ Created(o) /\ (\A e \in store : e.order = o => e.version = 1) => StatusOf(o) = "pending"
           /\ Load(o) = {} => StatusOf(o) = "none"
  <1>1. \A f \in Load(o) : f.version \in Nat /\ f.version \in {1, 2}
    BY DEF Load, HistoryWellFormed
  <1>2. \A e, f \in Load(o) : e.version = f.version => e = f
    BY DEF Load, HistoryWellFormed
  <1>3. ASSUME NEW e \in store, e.order = o, e.version = 2
        PROVE  StatusOf(o) = StatusAfter(e.type)
    <2>1. e \in Load(o) /\ \A f \in Load(o) : f.version <= e.version
      BY <1>1, <1>3 DEF Load
    <2> QED
      BY <1>1, <1>2, <2>1, StatusOfRows DEF StatusOf, CurrentOrder
  <1>4. ASSUME Created(o), \A e \in store : e.order = o => e.version = 1
        PROVE  StatusOf(o) = "pending"
    <2>1. PICK e \in store : e.order = o /\ e.version = 1
      BY <1>4 DEF Created
    <2>2. e \in Load(o) /\ \A f \in Load(o) : f.version <= e.version
      BY <1>4, <2>1 DEF Load
    <2>3. e.type = EventOrderCreated
      BY <2>1 DEF HistoryWellFormed
    <2>4. StatusOf(o) = StatusAfter(e.type)
      BY <1>1, <1>2, <2>2, StatusOfRows DEF StatusOf, CurrentOrder
    <2> QED
      BY <2>3, <2>4, StatusAfterTypes
  <1>5. Load(o) = {} => StatusOf(o) = "none"
    BY DEF StatusOf, CurrentOrder, LoadFromEvents, NewOrder
  <1> QED
    BY <1>3, <1>4, <1>5

\* Storing an event leaves the other orders alone.
LEMMA OthersUnchanged ==
    ASSUME NEW e, Commit(e), NEW q \in Orders, q # e.order
    PROVE  StatusOf(q)' = StatusOf(q)
  <1>1. Load(q)' = Load(q)
    BY DEF Commit, Load
  <1> QED
    BY <1>1 DEF StatusOf, CurrentOrder, LoadFromEvents, Newest

\* An order that is stored was not there and is pending then.
LEMMA PlacingStatus ==
    ASSUME IInv, IInv', NEW o \in Orders, OrderStored(o)
    PROVE  StatusNow[o] = "none" /\ StatusNow' = [StatusNow EXCEPT ![o] = "pending"]
  <1> USE DEF IInv, HandlersInv
  <1>1. EventStoreType /\ EventStoreType'
    BY DEF TypeOK
  <1>2. Load(o) = {} /\ store' = store \cup {OrderCreated(o)}
    BY DEF OrderStored, PlaceAppend, PlaceAppendFails, FullyReserved, PlaceInv, Commit
  <1>3. OrderCreated(o).order = o /\ OrderCreated(o).version = 1
    BY DEF OrderCreated, NewOrder
  <1>4. StatusOf(o) = "none"
    BY <1>2, StatusByRows
  <1>5. Load(o)' = {OrderCreated(o)}
    BY <1>2, <1>3 DEF Load
  <1>6. LoadFromEvents({OrderCreated(o)}).status = "pending"
    <2>1. OrderCreated(o).type = EventOrderCreated
      BY DEF OrderCreated
    <2>2. ASSUME NEW e, e.version = 1
          PROVE  LoadFromEvents({e}).status = StatusAfter(e.type)
      <3>1. Newest({e}) \in {e}
        BY <2>2 DEF Newest
      <3> QED
        BY <3>1 DEF LoadFromEvents
    <2> QED
      BY <1>3, <2>1, <2>2, StatusAfterTypes
  <1>7. StatusOf(o)' = "pending"
    BY <1>5, <1>6 DEF StatusOf, CurrentOrder
  <1>8. \A q \in Orders : q # o => StatusOf(q)' = StatusOf(q)
    BY <1>3, OthersUnchanged DEF OrderStored
  <1> QED
    BY <1>4, <1>7, <1>8 DEF StatusNow

\* An order whose outcome is stored was pending and has that outcome then.
LEMMA OutcomeStatus ==
    ASSUME IInv, IInv', NEW e \in StoredEvent, OutcomeStored(e)
    PROVE  /\ e.order \in Orders /\ StatusNow[e.order] = "pending"
           /\ StatusAfter(e.type) \in {"paid", "cancelled"}
           /\ StatusNow' = [StatusNow EXCEPT ![e.order] = StatusAfter(e.type)]
  <1> USE DEF IInv
  <1> DEFINE o == e.order
  <1>1. EventStoreType /\ EventStoreType' /\ o \in Orders
    BY DEF TypeOK, StoredEvent
  <1>2. Commit(e) /\ e.version = 2 /\ Created(o) /\ e.type # EventOrderCreated
    BY DEF OutcomeStored
  <1>3. \A f \in store : f.order = o => f.version = 1
    BY <1>2 DEF HistoryWellFormed, Commit, Conflicts
  <1>4. StatusOf(o) = "pending"
    BY <1>1, <1>2, <1>3, StatusByRows
  <1>5. Load(o)' = Load(o) \cup {e}
    BY <1>2 DEF Load, Commit
  <1>6. \A f \in Load(o) : f.version = 1
    BY <1>3 DEF Load
  <1>7. StatusOf(o)' = StatusAfter(e.type)
    <2>1. LoadFromEvents(Load(o) \cup {e}).status = StatusAfter(e.type)
      BY <1>2, <1>6, StatusOfRows
    <2> QED
      BY <1>5, <2>1 DEF StatusOf, CurrentOrder
  <1>8. \A q \in Orders : q # o => StatusOf(q)' = StatusOf(q)
    BY <1>2, OthersUnchanged
  <1>9. StatusAfter(e.type) \in {"paid", "cancelled"}
    <2>1. e.type \in EventTypes
      BY DEF StoredEvent
    <2> QED
      BY <1>2, <2>1, StatusAfterTypes DEF EventTypes
  <1>10. StatusNow' = [StatusNow EXCEPT ![o] = StatusAfter(e.type)]
    BY <1>1, <1>7, <1>8 DEF StatusNow
  <1> QED
    BY <1>1, <1>4, <1>9, <1>10 DEF StatusNow

-----------------------------------------------------------------------------
(* The refinement *)

LEMMA FactOfType ==
    ASSUME NEW type \in EventTypes
    PROVE  Fact(NatsSubject(type)) = StatusAfter(type)
  BY DEF EventTypes, NatsSubject, Fact, StatusAfter, EventOrderCreated, EventOrderPaid,
         EventOrderCancelled

LEMMA StatusTellsType ==
    ASSUME NEW s \in EventTypes, NEW t \in EventTypes, StatusAfter(s) = StatusAfter(t)
    PROVE  s = t
  BY StatusAfterTypes DEF EventTypes

FactOf(e) == [order |-> e.order, status |-> StatusAfter(e.type)]

\* The feed holds the facts of stored events, and grows by one that is announced.
LEMMA FeedOfRows ==
    ASSUME TypeOK, FeedInv, NEW i \in 1..Len(Log)
    PROVE  \E e \in store : Log[i] = OrderMessage(e) /\ FeedNow[i] = FactOf(e)
  <1>1. PICK e \in store : Log[i] = OrderMessage(e)
    BY DEF FeedInv
  <1>2. e.type \in EventTypes
    BY DEF TypeOK, EventStoreType, StoredEvent
  <1>3. FeedNow[i] = [order |-> Log[i].order, status |-> Fact(Log[i].subject)]
    BY DEF FeedNow, Log
  <1>4. FeedNow[i] = FactOf(e)
    BY <1>1, <1>2, <1>3, FactOfType DEF OrderMessage, FactOf
  <1> QED
    BY <1>1, <1>4

LEMMA LogType ==
    ASSUME TypeOK
    PROVE  Log \in Seq(Message)
  BY DEF TypeOK, JetStreamType, Streams, Log

LEMMA FeedGrows ==
    ASSUME TypeOK, NEW e \in StoredEvent, Publish("ORDERS", OrderMessage(e))
    PROVE  FeedNow' = Append(FeedNow, FactOf(e))
  <1>1. Log \in Seq(Message) /\ Log' = Append(Log, OrderMessage(e))
    BY LogType DEF Publish, TypeOK, JetStreamType, Streams, Log
  <1>2. Len(Log) \in Nat /\ Len(Log') = Len(Log) + 1
    BY <1>1
  <1>3. FeedNow = [i \in 1..Len(Log) |-> [order |-> Log[i].order, status |-> Fact(Log[i].subject)]]
        /\ FeedNow' = [i \in 1..Len(Log') |->
                          [order |-> Log'[i].order, status |-> Fact(Log'[i].subject)]]
    BY DEF FeedNow, Log
  <1>4. e.type \in EventTypes
    BY DEF StoredEvent
  <1>5. Fact(OrderMessage(e).subject) = StatusAfter(e.type) /\ OrderMessage(e).order = e.order
    BY <1>4, FactOfType DEF OrderMessage
  <1> DEFINE F(m) == [order |-> m.order, status |-> Fact(m.subject)]
  <1>6. F(OrderMessage(e)) = FactOf(e)
    BY <1>5 DEF FactOf
  <1> HIDE DEF F
  <1>7. FeedNow = [i \in 1..Len(Log) |-> F(Log[i])] /\ FeedNow' = [i \in 1..Len(Log') |-> F(Log'[i])]
    BY <1>3 DEF F
  <1>8. FeedNow' = [i \in 1..(Len(Log) + 1) |-> IF i <= Len(Log) THEN F(Log[i]) ELSE FactOf(e)]
    BY <1>1, <1>2, <1>6, <1>7
  <1>9. Len(FeedNow) = Len(Log) /\ \A i \in 1..Len(Log) : FeedNow[i] = F(Log[i])
    BY <1>2, <1>7
  <1> DEFINE Facts == {F(Log[i]) : i \in 1..Len(Log)} \cup {FactOf(e)}
             longer == Append(FeedNow, FactOf(e))
  <1>10. FeedNow \in Seq(Facts)
    BY <1>2, <1>7
  <1>11. /\ longer \in Seq(Facts) /\ Len(longer) = Len(Log) + 1
         /\ \A i \in 1..Len(Log) : longer[i] = F(Log[i])
         /\ longer[Len(Log) + 1] = FactOf(e)
    BY <1>2, <1>9, <1>10, AppendProperties
  <1>12. FeedNow' \in Seq(Facts) /\ Len(FeedNow') = Len(Log) + 1
    BY <1>2, <1>8
  <1>13. \A i \in 1..Len(FeedNow') : FeedNow'[i] = longer[i]
    BY <1>2, <1>8, <1>11, <1>12
  <1> QED
    BY <1>11, <1>12, <1>13, SeqEqual

\* An announcement maps to Announce: the fact happened, and is new.
LEMMA AnnouncingMaps ==
    ASSUME IInv, FeedInv, NEW h \in Handlers, Announces(h)
    PROVE  Lifecycle!Next
  <1> USE DEF IInv
  <1> DEFINE e == Owed(h)
             s == StatusAfter(e.type)
  <1>1. e \in store /\ Silent(e) /\ store' = store /\ Publish("ORDERS", OrderMessage(e))
    BY DEF Announces, FeedInv
  <1>2. e \in StoredEvent /\ e.order \in Orders /\ e.type \in EventTypes
    BY <1>1 DEF TypeOK, EventStoreType, StoredEvent
  <1>3. UNCHANGED StatusNow
    BY <1>1 DEF StatusNow, StatusOf, CurrentOrder, Load
  <1>4. FeedNow' = Append(FeedNow, [order |-> e.order, status |-> s])
    BY <1>1, <1>2, FeedGrows DEF FactOf
  <1>5. Lifecycle!Happened(e.order, s)
    <2>1. PICK c \in store : c.order = e.order /\ c.version = 1
      BY <1>1 DEF HistoryWellFormed
    <2>2. CASE e.version = 2
      <3>1. StatusOf(e.order) = s /\ s # "none"
        BY <1>1, <1>2, <2>2, StatusByRows, StatusAfterTypes DEF EventTypes
      <3> QED
        BY <1>2, <3>1 DEF Lifecycle!Happened, StatusNow
    <2>3. CASE e.version = 1
      <3>1. s = "pending"
        BY <1>1, <2>3, StatusAfterTypes DEF HistoryWellFormed
      <3>2. CASE \E f \in store : f.order = e.order /\ f.version = 2
        <4>1. PICK f \in store : f.order = e.order /\ f.version = 2
          BY <3>2
        <4>2. f.type \in EventTypes
          BY DEF TypeOK, EventStoreType, StoredEvent
        <4>3. StatusOf(e.order) # "none"
          BY <1>2, <4>1, <4>2, StatusByRows, StatusAfterTypes DEF EventTypes
        <4> QED
          BY <1>2, <3>1, <4>3 DEF Lifecycle!Happened, StatusNow
      <3>3. CASE ~\E f \in store : f.order = e.order /\ f.version = 2
        <4>1. \A f \in store : f.order = e.order => f.version = 1
          BY <3>3 DEF HistoryWellFormed
        <4>2. Created(e.order)
          BY <2>1 DEF Created
        <4>3. StatusOf(e.order) = "pending"
          BY <1>2, <4>1, <4>2, StatusByRows
        <4> QED
          BY <1>2, <3>1, <4>3 DEF Lifecycle!Happened, StatusNow
      <3> QED
        BY <3>2, <3>3
    <2> QED
      BY <1>1, <2>2, <2>3 DEF HistoryWellFormed
  <1>6. ~Lifecycle!Announced(e.order, s)
    <2>1. Len(FeedNow) = Len(Log)
      BY LogType DEF FeedNow, Log
    <2>2. ASSUME NEW i \in 1..Len(Log), FeedNow[i] = [order |-> e.order, status |-> s]
          PROVE  FALSE
      <3>1. PICK f \in store : Log[i] = OrderMessage(f) /\ FeedNow[i] = FactOf(f)
        BY FeedOfRows
      <3>2. f.order = e.order /\ StatusAfter(f.type) = s
        BY <2>2, <3>1 DEF FactOf
      <3>3. f.type \in EventTypes
        BY DEF TypeOK, EventStoreType, StoredEvent
      <3>4. f.type = e.type
        BY <1>2, <3>2, <3>3, StatusTellsType
      <3>5. f = e
        BY <1>1, <3>2, <3>4, OneRowPerType
      <3> QED
        BY <1>1, <3>1, <3>5 DEF Silent
    <2> QED
      BY <2>1, <2>2 DEF Lifecycle!Announced
  <1>7. s \in {"pending", "paid", "cancelled"}
    BY <1>2, StatusAfterTypes DEF EventTypes
  <1>8. Lifecycle!Announce(e.order, s)
    BY <1>3, <1>4, <1>5, <1>6 DEF Lifecycle!Announce
  <1> QED
    BY <1>2, <1>7, <1>8 DEF Lifecycle!Next

LEMMA StepMaps ==
    ASSUME IInv, FeedInv, [Next]_vars
    PROVE  [Lifecycle!Next]_(Lifecycle!vars)
  <1>1. IInv'
    BY StepIInv
  <1>2. UNCHANGED Log => UNCHANGED FeedNow
    BY DEF Log, FeedNow
  <1>3. CASE UNCHANGED store /\ UNCHANGED Log
    <2>1. UNCHANGED StatusNow
      BY <1>3 DEF StatusNow, StatusOf, CurrentOrder, Load
    <2> QED
      BY <1>2, <1>3, <2>1 DEF Lifecycle!vars
  <1>4. CASE \E h \in Handlers : Announces(h)
    BY <1>4, AnnouncingMaps
  <1>5. ASSUME NEW o \in Orders, OrderStored(o), UNCHANGED Log
        PROVE  Lifecycle!Next
    <2>1. Lifecycle!Place(o)
      BY <1>1, <1>2, <1>5, PlacingStatus DEF Lifecycle!Place, Lifecycle!Becomes
    <2> QED
      BY <2>1 DEF Lifecycle!Next
  <1>6. ASSUME NEW e \in StoredEvent, OutcomeStored(e), UNCHANGED Log
        PROVE  Lifecycle!Next
    <2>1. Lifecycle!Pay(e.order) \/ Lifecycle!Cancel(e.order)
      BY <1>1, <1>2, <1>6, OutcomeStatus DEF Lifecycle!Pay, Lifecycle!Cancel, Lifecycle!Becomes
    <2> QED
      BY <1>1, <1>6, <2>1, OutcomeStatus DEF Lifecycle!Next
  <1>7. UNCHANGED Log \/ \E h \in Handlers : Announces(h)
    BY KindOfEveryStep DEF KindOfStep, Quiet, Stores
  <1> QED
    BY <1>3, <1>4, <1>5, <1>6, <1>7, StoreChange

LEMMA InitMaps == Init => Lifecycle!Init
  <1> SUFFICES ASSUME Init PROVE Lifecycle!Init
    OBVIOUS
  <1>1. \A o \in Orders : StatusOf(o) = "none"
    BY DEF Init, EventStoreInit, StatusOf, CurrentOrder, Load, LoadFromEvents, NewOrder
  <1>2. Log = << >>
    BY DEF Init, JetStreamInit, Streams, Log
  <1>3. FeedNow = << >>
    BY <1>2 DEF FeedNow, Log
  <1> QED
    BY <1>1, <1>3 DEF Lifecycle!Init, StatusNow

-----------------------------------------------------------------------------
(* The theorems *)

\* Whatever fails, restarts, is delivered twice or races, an order goes from
\* pending to one final outcome, and the stream ORDERS states only facts, each
\* of them at most once.
THEOREM WriteSideImplementsLifecycle == Spec => ImplementsLifecycle
  <1>1. Init => IInv /\ FeedInv /\ Lifecycle!Init
    BY InitIInv, InitFeed, InitMaps
  <1>2. IInv /\ FeedInv /\ [Next]_vars => IInv' /\ FeedInv' /\ [Lifecycle!Next]_(Lifecycle!vars)
    BY StepIInv, StepFeed, StepMaps
  <1> QED
    BY <1>1, <1>2, PTL DEF Spec, ImplementsLifecycle, Lifecycle!Spec

PaidInv == IInv /\ PaidByItsPayment

\* What the streams hold, they keep.
LEMMA StoredStays ==
    ASSUME TypeOK, NEW s \in Streams, NEW m, Stored(s, m),
           streams' = streams \/ \E t \in Streams, n \in Message : Publish(t, n)
    PROVE  Stored(s, m)'
  <1>1. PICK i \in 1..Len(streams[s]) : streams[s][i] = m
    BY DEF Stored
  <1>2. streams[s] \in Seq(Message)
    BY DEF TypeOK, JetStreamType
  <1>3. streams'[s] = streams[s] \/ \E n \in Message : streams'[s] = Append(streams[s], n)
    BY DEF Publish, TypeOK, JetStreamType
  <1>4. i \in 1..Len(streams'[s]) /\ streams'[s][i] = m
    BY <1>1, <1>2, <1>3
  <1> QED
    BY <1>4 DEF Stored

LEMMA StepStreams ==
    ASSUME IInv, [Next]_vars
    PROVE  streams' = streams \/ \E s \in Streams, m \in Message : Publish(s, m)
  <1> USE DEF IInv, HandlersInv
  <1>1. ASSUME NEW o \in Orders, PlaceStart(o) \/ PlaceStep(o)
        PROVE  UNCHANGED streams \/ PublishOrIgnore(OrderCreated(o))
    BY <1>1 DEF PlaceStart, PlaceStep, ReserveLine, ReserveRefused, ReserveReplyLost,
                RollbackLine, PlaceAppend, PlaceAppendFails, PlacePublish
  <1>2. ASSUME NEW c \in Cancels, CancelStep(c) \/ \E o \in Orders : CancelLoad(c, o)
        PROVE  \/ UNCHANGED streams
               \/ PublishOrIgnore(CancelChange(c)) /\ cancel[c].pc = "publishing"
    BY <1>2 DEF CancelStep, CancelLoad, CancelAppend, CancelAppendFails, CancelRelease,
                CancelPublish
  <1>3. ASSUME SubStep
        PROVE  \/ UNCHANGED streams
               \/ PublishOrIgnore(SubChange) /\ sub.pc = "publishing"
    <2>1. CASE SubPublish
      BY <2>1 DEF SubPublish
    <2>2. CASE ~SubPublish
      <3>1. streams' = streams
        BY <1>3, <2>2 DEF SubStep, SubHandle, SubAppend, SubAppendFails, SubAck
      <3> QED
        BY <3>1
    <2> QED
      BY <2>1, <2>2
  <1>4. ASSUME NEW p \in Payments, NEW o \in Orders, NEW s \in PaymentSubjects,
               PaymentSettled(p, o, s)
        PROVE  \E m \in Message : Publish("PAYMENTS", m)
    BY <1>4 DEF PaymentSettled, PaymentMessage, Message
  <1>5. ASSUME NEW c \in Cancels, cancel[c].pc = "publishing"
        PROVE  CancelChange(c) \in StoredEvent
    BY <1>5, EventTypesOK DEF CancelInv, CancelChange
  <1>6. ASSUME NEW o \in Orders
        PROVE  OrderCreated(o) \in StoredEvent
    BY EventTypesOK DEF OrderCreated
  <1>7. sub.pc = "publishing" => SubChange \in StoredEvent
    BY SubMessageType
  <1>8. CASE Crash \/ Shutdown \/ AtRest \/ UNCHANGED vars
    BY <1>8 DEF Crash, Shutdown, AtRest, vars
  <1> QED
    BY <1>1, <1>2, <1>3, <1>4, <1>5, <1>6, <1>7, <1>8, PublishedOrNot DEF Next, Streams

\* A paid event is stored by the subscriber alone.
LEMMA NewPaidEvent ==
    ASSUME IInv, [Next]_vars, NEW e \in store', e \notin store, e.type = EventOrderPaid
    PROVE  e = SubChange /\ sub.pc = "persisting"
  <1> USE DEF IInv, HandlersInv
  <1>1. ASSUME NEW f, Commit(f)
        PROVE  e = f
    BY <1>1 DEF Commit
  <1>2. ASSUME NEW o \in Orders, PlaceStart(o) \/ PlaceStep(o)
        PROVE  e = OrderCreated(o)
    BY <1>1, <1>2 DEF PlaceStart, PlaceStep, ReserveLine, ReserveRefused, ReserveReplyLost,
                RollbackLine, PlaceAppend, PlaceAppendFails, PlacePublish
  <1>3. ASSUME NEW c \in Cancels, CancelStep(c) \/ \E o \in Orders : CancelLoad(c, o)
        PROVE  e = CancelChange(c)
    BY <1>1, <1>3 DEF CancelStep, CancelLoad, CancelAppend, CancelAppendFails, CancelRelease,
                CancelPublish
  <1>4. ASSUME SubStep
        PROVE  e = SubChange /\ sub.pc = "persisting"
    BY <1>1, <1>4 DEF SubStep, SubHandle, SubAppend, SubAppendFails, SubPublish, SubAck
  <1>5. UNCHANGED store => FALSE
    OBVIOUS
  <1>6. CASE \/ \E p \in Payments, o \in Orders, s \in PaymentSubjects : PaymentSettled(p, o, s)
             \/ Crash \/ Shutdown \/ AtRest \/ UNCHANGED vars
    BY <1>5, <1>6 DEF PaymentSettled, Crash, Shutdown, AtRest, vars
  <1>7. \A o \in Orders : OrderCreated(o).type # EventOrderPaid
    BY DEF OrderCreated, EventOrderCreated, EventOrderPaid
  <1>8. \A c \in Cancels : CancelChange(c).type # EventOrderPaid
    BY DEF CancelChange, OrderCancelled, EventOrderCancelled, EventOrderPaid
  <1> QED
    BY <1>2, <1>3, <1>4, <1>6, <1>7, <1>8 DEF Next

LEMMA StepPaid == PaidInv /\ [Next]_vars => PaidInv'
  <1> SUFFICES ASSUME PaidInv, [Next]_vars PROVE PaidByItsPayment'
    BY StepIInv DEF PaidInv
  <1> USE DEF PaidInv, IInv, HandlersInv
  <1> SUFFICES ASSUME NEW e \in store', e.type = EventOrderPaid
               PROVE  Stored("PAYMENTS", PaymentMessage("payments.completed", e.order, e.payment))'
    BY DEF PaidByItsPayment, PaymentMessage
  <1> DEFINE m == PaymentMessage("payments.completed", e.order, e.payment)
  <1>1. Stored("PAYMENTS", m)
    <2>1. CASE e \in store
      BY <2>1 DEF PaidByItsPayment
    <2>2. CASE e \notin store
      <3>1. e = SubChange /\ sub.pc = "persisting"
        BY <2>2, NewPaidEvent
      <3>2. SubMessage \in Message /\ sub.msg \in 1..Len(streams["PAYMENTS"])
        BY <3>1, SubMessageType DEF SubInv
      <3>3. SubMessage.subject = "payments.completed"
        BY <3>1 DEF SubChange, OrderCancelled, EventOrderCancelled, EventOrderPaid
      <3>4. e.order = SubMessage.order /\ e.payment = SubMessage.payment
        BY <3>1, <3>3 DEF SubChange, OrderPaid
      <3>5. SubMessage = m
        BY <3>2, <3>3, <3>4 DEF Message, PaymentMessage
      <3> QED
        BY <3>2, <3>5 DEF Stored, SubMessage
    <2> QED
      BY <2>1, <2>2
  <1> QED
    BY <1>1, StepStreams, StoredStays DEF Streams

\* An order is recorded as paid only by a completed payment of this very order:
\* no redelivery, no restart and no lost race makes another one paid.
THEOREM PaidOnlyByPayment == Spec => []PaidByItsPayment
  <1>1. Init => PaidInv
    BY InitIInv DEF Init, EventStoreInit, PaidByItsPayment, PaidInv
  <1>2. PaidInv => PaidByItsPayment
    BY DEF PaidInv
  <1> QED
    BY <1>1, <1>2, StepPaid, PTL DEF Spec

-----------------------------------------------------------------------------
(* Proof that the stream ORDERS tells of an order's creation before it     *)
(* tells of its outcome, as long as no publish fails.  The service never   *)
(* checks this: it holds because nobody but the handler of PlaceOrder has  *)
(* the id of an order whose created message is not in the stream.          *)

CreatedMessage(o) == OrderMessage(OrderCreated(o))
Known(o) == Stored("ORDERS", CreatedMessage(o))

\* Whoever can make an outcome of an order happen got its id after the created
\* message was in the stream: a client by PlaceOrder's answer, a CancelOrder call
\* at work from its client, the payment service by the message.
KnownInv ==
    /\ \A o \in Orders : place[o].pc = "done" => Known(o)
    /\ \A c \in Cancels : cancel[c].pc \in {"persisting", "releasing", "publishing"} =>
          Known(cancel[c].order)
    /\ \A i \in 1..Len(streams["PAYMENTS"]) : Known(streams["PAYMENTS"][i].order)

FirstInv == IInv /\ KnownInv /\ CreatedFirst

LEMMA KnownStays ==
    ASSUME TypeOK, NEW o, Known(o),
           streams' = streams \/ \E s \in Streams, m \in Message : Publish(s, m)
    PROVE  Known(o)'
  <1>1. CreatedMessage(o)' = CreatedMessage(o)
    BY DEF CreatedMessage, OrderMessage, OrderCreated, NewOrder
  <1>2. Stored("ORDERS", CreatedMessage(o))'
    BY StoredStays DEF Known, Streams
  <1> QED
    BY <1>1, <1>2 DEF Known

\* What is in a stream after its last message was added.
LEMMA PublishedKnown ==
    ASSUME TypeOK, NEW o \in Orders, Publish("ORDERS", CreatedMessage(o))
    PROVE  Known(o)'
  <1>1. Log \in Seq(Message) /\ Log' = Append(Log, CreatedMessage(o))
    BY LogType DEF Publish, TypeOK, JetStreamType, Streams, Log
  <1>2. Len(Log') \in 1..Len(Log') /\ Log'[Len(Log')] = CreatedMessage(o)
    BY <1>1
  <1> QED
    BY <1>2 DEF Known, Stored, Log

\* The steps that publish.
Publishes(o, e) == Publish("ORDERS", OrderMessage(e)) /\ e \in StoredEvent /\ e.order = o

LEMMA WhoPublishes ==
    ASSUME "publish_error" \notin FaultKinds, FirstInv, [Next]_vars
    PROVE  \/ UNCHANGED streams
           \/ \E o \in Orders, e \in StoredEvent :
                 Publishes(o, e) /\ (e = OrderCreated(o) \/ Known(o))
           \/ \E p \in Payments, o \in Orders, s \in PaymentSubjects : PaymentSettled(p, o, s)
  <1> USE DEF FirstInv, IInv, HandlersInv
  <1>1. ASSUME NEW e, PublishOrIgnore(e)
        PROVE  Publish("ORDERS", OrderMessage(e))
    BY <1>1 DEF PublishOrIgnore, Fault
  <1>2. ASSUME NEW o \in Orders, PlaceStart(o) \/ PlaceStep(o)
        PROVE  UNCHANGED streams \/ Publishes(o, OrderCreated(o))
    <2>1. OrderCreated(o) \in StoredEvent /\ OrderCreated(o).order = o
      BY EventTypesOK DEF OrderCreated
    <2> QED
      BY <1>1, <1>2, <2>1
      DEF PlaceStart, PlaceStep, ReserveLine, ReserveRefused, ReserveReplyLost,
          RollbackLine, PlaceAppend, PlaceAppendFails, PlacePublish, Publishes
  <1>3. ASSUME NEW c \in Cancels, CancelStep(c) \/ \E o \in Orders : CancelLoad(c, o)
        PROVE  \/ UNCHANGED streams
               \/ \E o \in Orders : Publishes(o, CancelChange(c)) /\ Known(o)
    <2>1. CASE CancelPublish(c)
      <3>1. cancel[c].order \in Orders /\ cancel[c].version \in Nat /\ Known(cancel[c].order)
        BY <2>1 DEF CancelPublish, CancelInv, KnownInv
      <3>2. CancelChange(c) \in StoredEvent /\ CancelChange(c).order = cancel[c].order
        BY <3>1, EventTypesOK DEF CancelChange, OrderCancelled
      <3> QED
        BY <1>1, <2>1, <3>1, <3>2 DEF CancelPublish, Publishes
    <2>2. CASE ~CancelPublish(c)
      BY <1>3, <2>2 DEF CancelStep, CancelLoad, CancelAppend, CancelAppendFails, CancelRelease
    <2> QED
      BY <2>1, <2>2
  <1>4. ASSUME SubStep
        PROVE  \/ UNCHANGED streams
               \/ \E o \in Orders : Publishes(o, SubChange) /\ Known(o)
    <2>1. CASE SubPublish
      <3>1. SubMessage \in Message /\ SubChange \in StoredEvent /\ Known(SubMessage.order)
        BY <2>1, SubMessageType DEF SubPublish, SubInv, KnownInv, SubMessage
      <3>2. SubChange.order = SubMessage.order /\ SubMessage.order \in Orders
        BY <3>1 DEF SubChange, OrderPaid, OrderCancelled, Message
      <3> QED
        BY <1>1, <2>1, <3>1, <3>2 DEF SubPublish, Publishes
    <2>2. CASE ~SubPublish
      BY <1>4, <2>2 DEF SubStep, SubHandle, SubAppend, SubAppendFails, SubAck
    <2> QED
      BY <2>1, <2>2
  <1>5. CASE Crash \/ Shutdown \/ AtRest \/ UNCHANGED vars
    BY <1>5 DEF Crash, Shutdown, AtRest, vars
  <1> QED
    BY <1>2, <1>3, <1>4, <1>5 DEF Next, Publishes

-----------------------------------------------------------------------------
(* The order of the messages *)

LEMMA StepFirst ==
    ASSUME "publish_error" \notin FaultKinds, FirstInv, [Next]_vars
    PROVE  CreatedFirst'
  <1> USE DEF FirstInv, IInv
  <1>1. CASE UNCHANGED Log
    BY <1>1 DEF CreatedFirst, Log
  <1>2. ASSUME NEW o \in Orders, NEW e \in StoredEvent, Publishes(o, e),
               e = OrderCreated(o) \/ Known(o)
        PROVE  CreatedFirst'
    <2>1. Log \in Seq(Message) /\ Log' = Append(Log, OrderMessage(e))
      BY <1>2, LogType DEF Publishes, Publish, TypeOK, JetStreamType, Streams, Log
    <2>2. /\ Len(Log) \in Nat /\ Len(Log') = Len(Log) + 1
          /\ \A i \in 1..Len(Log) : Log'[i] = Log[i]
          /\ Log'[Len(Log) + 1] = OrderMessage(e)
      BY <2>1
    <2>3. OrderMessage(e).order = o
      BY <1>2 DEF OrderMessage, Publishes
    <2>4. ASSUME NEW i \in 1..Len(Log')
          PROVE  \E j \in 1..i : Log'[j] = CreatedMessage(Log'[i].order)
      <3>1. CASE i \in 1..Len(Log)
        <4>1. PICK j \in 1..i : Log[j] = CreatedMessage(Log[i].order)
          BY <3>1 DEF CreatedFirst, Log, CreatedMessage
        <4>2. j \in 1..Len(Log)
          BY <2>2, <3>1, <4>1
        <4> QED
          BY <2>2, <3>1, <4>1, <4>2
      <3>2. CASE i = Len(Log) + 1
        <4>1. CASE e = OrderCreated(o)
          BY <2>2, <2>3, <3>2, <4>1 DEF CreatedMessage
        <4>2. CASE Known(o)
          <5>1. PICK j \in 1..Len(Log) : Log[j] = CreatedMessage(o)
            BY <4>2 DEF Known, Stored, Log
          <5>2. j \in 1..i /\ Log'[j] = CreatedMessage(o)
            BY <2>2, <3>2, <5>1
          <5> QED
            BY <2>2, <2>3, <3>2, <5>2
        <4> QED
          BY <1>2, <4>1, <4>2
      <3> QED
        BY <2>2, <3>1, <3>2
    <2> QED
      BY <2>4 DEF CreatedFirst, Log, CreatedMessage, OrderMessage
  <1>3. ASSUME NEW p \in Payments, NEW o \in Orders, NEW s \in PaymentSubjects,
               PaymentSettled(p, o, s)
        PROVE  UNCHANGED Log
    BY <1>3 DEF PaymentSettled, Publish, TypeOK, JetStreamType, Streams, Log
  <1> QED
    BY <1>1, <1>2, <1>3, WhoPublishes DEF Log

-----------------------------------------------------------------------------
(* Who knows an order *)

LEMMA PlaceKnown ==
    ASSUME "publish_error" \notin FaultKinds, FirstInv, [Next]_vars,
           NEW o \in Orders, place'[o].pc = "done"
    PROVE  Known(o)'
  <1> USE DEF FirstInv, IInv
  <1>1. place \in [Orders -> [pc : PlacePcs, reserved : Nat, released : Nat]]
    BY DEF TypeOK
  <1>2. CASE place[o].pc = "done"
    <2>1. Known(o)
      BY <1>2 DEF KnownInv
    <2> QED
      BY <2>1, KnownStays, StepStreams
  <1>3. CASE place[o].pc # "done"
    <2>1. ASSUME NEW q \in Orders, PlaceStart(q) \/ PlaceStep(q)
          PROVE  PlacePublish(q) /\ q = o
      <3>1. CASE PlaceStart(q)
        BY <1>1, <1>3, <3>1 DEF PlaceStart, PlaceGoes
      <3>2. CASE ReserveLine(q) \/ RollbackLine(q)
        BY <1>1, <1>3, <3>2 DEF ReserveLine, RollbackLine
      <3>3. CASE ReserveRefused(q) \/ ReserveReplyLost(q) \/ PlaceAppendFails(q)
        <4>1. FailPlace(q)
          BY <3>3 DEF ReserveRefused, ReserveReplyLost, PlaceAppendFails
        <4> QED
          BY <1>1, <1>3, <4>1 DEF FailPlace, PlaceGoes
      <3>4. CASE PlaceAppend(q)
        BY <1>1, <1>3, <3>4 DEF PlaceAppend, PlaceGoes
      <3>5. CASE PlacePublish(q)
        BY <1>1, <1>3, <3>5 DEF PlacePublish, PlaceGoes
      <3> QED
        BY <2>1, <3>1, <3>2, <3>3, <3>4, <3>5 DEF PlaceStep
    <2>2. UNCHANGED place => FALSE
      BY <1>3
    <2>3. ~Crash
      BY <1>1, <1>3 DEF Crash
    <2>4. ASSUME NEW c \in Cancels, CancelStep(c) \/ \E q \in Orders : CancelLoad(c, q)
          PROVE  UNCHANGED place
      BY <2>4 DEF CancelStep, CancelLoad, CancelAppend, CancelAppendFails, CancelRelease,
                  CancelPublish
    <2>5. SubStep => UNCHANGED place
      BY DEF SubStep, SubHandle, SubAppend, SubAppendFails, SubPublish, SubAck
    <2>6. \/ \E p \in Payments, q \in Orders, s \in PaymentSubjects : PaymentSettled(p, q, s)
          \/ Shutdown \/ AtRest \/ UNCHANGED vars
          => UNCHANGED place
      BY DEF PaymentSettled, Shutdown, AtRest, vars
    <2>7. PlacePublish(o)
      BY <2>1, <2>2, <2>3, <2>4, <2>5, <2>6 DEF Next
    <2>8. Publish("ORDERS", CreatedMessage(o))
      BY <2>7 DEF PlacePublish, PublishOrIgnore, Fault, CreatedMessage
    <2> QED
      BY <2>8, PublishedKnown
  <1> QED
    BY <1>2, <1>3

LEMMA CancelKnown ==
    ASSUME FirstInv, [Next]_vars, NEW c \in Cancels,
           cancel'[c].pc \in {"persisting", "releasing", "publishing"}
    PROVE  Known(cancel[c].order)'
  <1> USE DEF FirstInv, IInv, HandlersInv
  <1>1. cancel \in [Cancels -> [pc : CancelPcs, order : Orders \cup {NoOrder},
                                version : Nat, released : Nat]]
    BY DEF TypeOK
  <1> DEFINE Busy == cancel[c].pc \in {"persisting", "releasing", "publishing"}
             Stays == Busy /\ cancel'[c].order = cancel[c].order
             Learns == \E o \in Orders : cancel'[c].order = o /\ Known(o)
  <1>2. UNCHANGED cancel => Stays
    OBVIOUS
  <1>3. ASSUME NEW d \in Cancels, NEW o \in Orders, CancelLoad(d, o)
        PROVE  Stays \/ Learns
    <2>1. CASE d # c
      BY <1>1, <1>3, <2>1 DEF CancelLoad
    <2>2. CASE d = c
      <3>1. PICK rows \in {Load(o)} \cup PartialLoads(o) :
              /\ Loads(o, rows)
              /\ cancel' = [cancel EXCEPT ![c] =
                    [pc |-> IF CanChange(LoadFromEvents(rows).status)
                            THEN "persisting" ELSE "rejected",
                     order |-> o, version |-> LoadFromEvents(rows).version, released |-> 0]]
        BY <1>3, <2>2 DEF CancelLoad
      <3>2. CanChange(LoadFromEvents(rows).status) /\ cancel'[c].order = o
        BY <1>1, <3>1
      <3>3. Created(o)
        BY <3>1, <3>2, LoadedPending DEF TypeOK
      <3>4. Load(o) # {}
        BY <3>3 DEF Created, Load
      <3>5. Known(o)
        BY <1>3, <3>4 DEF CancelLoad, ClientKnows, KnownInv, Known, CreatedMessage
      <3> QED
        BY <3>2, <3>5
    <2> QED
      BY <2>1, <2>2
  <1>4. ASSUME NEW d \in Cancels, CancelStep(d)
        PROVE  Stays
    <2>1. ASSUME NEW pc, CancelGoes(d, pc),
                 pc # "rejected" => cancel[d].pc \in {"persisting", "releasing", "publishing"}
          PROVE  Stays
      BY <1>1, <2>1 DEF CancelGoes
    <2>2. CASE CancelAppend(d) \/ CancelPublish(d) \/ CancelAppendFails(d)
      BY <2>1, <2>2 DEF CancelAppend, CancelPublish, CancelAppendFails
    <2>3. CASE CancelRelease(d)
      BY <1>1, <2>3 DEF CancelRelease
    <2> QED
      BY <1>4, <2>2, <2>3 DEF CancelStep
  <1>5. Crash => UNCHANGED cancel \/ Stays
    BY <1>1 DEF Crash
  <1>6. ASSUME NEW o \in Orders, PlaceStart(o) \/ PlaceStep(o)
        PROVE  UNCHANGED cancel
    BY <1>6 DEF PlaceStart, PlaceStep, ReserveLine, ReserveRefused, ReserveReplyLost,
                RollbackLine, PlaceAppend, PlaceAppendFails, PlacePublish
  <1>7. SubStep => UNCHANGED cancel
    BY DEF SubStep, SubHandle, SubAppend, SubAppendFails, SubPublish, SubAck
  <1>8. \/ \E p \in Payments, o \in Orders, s \in PaymentSubjects : PaymentSettled(p, o, s)
        \/ Shutdown \/ AtRest \/ UNCHANGED vars
        => UNCHANGED cancel
    BY DEF PaymentSettled, Shutdown, AtRest, vars
  <1>9. Stays \/ Learns
    BY <1>2, <1>3, <1>4, <1>5, <1>6, <1>7, <1>8 DEF Next
  <1>10. Known(cancel'[c].order)
    BY <1>9 DEF KnownInv
  <1>11. ASSUME NEW o, Known(o)
         PROVE  Known(o)'
    BY <1>11, KnownStays, StepStreams
  <1> QED
    BY <1>10, <1>11

LEMMA PaymentsKnown ==
    ASSUME "publish_error" \notin FaultKinds, FirstInv, [Next]_vars,
           NEW i \in 1..Len(streams'["PAYMENTS"])
    PROVE  Known(streams["PAYMENTS"][i].order)'
  <1> USE DEF FirstInv, IInv
  <1> DEFINE log == streams["PAYMENTS"]
  <1>1. log \in Seq(Message)
    BY DEF TypeOK, JetStreamType, Streams
  <1>2. \/ i \in 1..Len(log) /\ log'[i] = log[i]
        \/ \E o \in Orders : log'[i].order = o /\ Known(o)
    <2>1. CASE UNCHANGED log
      BY <2>1
    <2>2. ASSUME NEW o \in Orders, NEW e \in StoredEvent, Publishes(o, e)
          PROVE  UNCHANGED log
      BY <2>2 DEF Publishes, Publish, TypeOK, JetStreamType, Streams
    <2>3. ASSUME NEW p \in Payments, NEW o \in Orders, NEW s \in PaymentSubjects,
                 PaymentSettled(p, o, s)
          PROVE  \/ i \in 1..Len(log) /\ log'[i] = log[i]
                 \/ log'[i].order = o /\ Known(o)
      <3>1. log' = Append(log, PaymentMessage(s, o, p)) /\ Known(o)
        BY <2>3 DEF PaymentSettled, Publish, TypeOK, JetStreamType, Streams, Known, CreatedMessage
      <3>2. i \in 1..Len(log) \/ i = Len(log) + 1
        BY <1>1, <3>1
      <3>3. CASE i \in 1..Len(log)
        BY <1>1, <3>1, <3>3
      <3>4. CASE i = Len(log) + 1
        <4>1. log'[i] = PaymentMessage(s, o, p)
          BY <1>1, <3>1, <3>4
        <4> QED
          BY <3>1, <4>1 DEF PaymentMessage
      <3> QED
        BY <3>2, <3>3, <3>4
    <2> QED
      BY <2>1, <2>2, <2>3, WhoPublishes
  <1>3. Known(log'[i].order)
    BY <1>2 DEF KnownInv
  <1>4. ASSUME NEW o, Known(o)
        PROVE  Known(o)'
    BY <1>4, KnownStays, StepStreams
  <1> QED
    BY <1>3, <1>4

-----------------------------------------------------------------------------
(* The theorem *)

LEMMA InitFirst == Init => FirstInv
  BY InitIInv DEF Init, JetStreamInit, Streams, FirstInv, KnownInv, CreatedFirst

LEMMA StepFirstInv ==
    ASSUME "publish_error" \notin FaultKinds, FirstInv, [Next]_vars
    PROVE  FirstInv'
  <1>1. IInv' /\ CreatedFirst'
    BY StepIInv, StepFirst DEF FirstInv
  <1>2. KnownInv'
    BY PlaceKnown, CancelKnown, PaymentsKnown DEF KnownInv
  <1> QED
    BY <1>1, <1>2 DEF FirstInv

\* Nobody reads in the stream ORDERS of an outcome without having read of the
\* order, for any number of orders, cancellations, payments, crashes, restarts
\* and redeliveries, if no publish fails.
THEOREM CreatedIsFirst ==
    ASSUME "publish_error" \notin FaultKinds
    PROVE  Spec => []CreatedFirst
  <1>1. FirstInv /\ [Next]_vars => FirstInv'
    BY StepFirstInv
  <1>2. FirstInv => CreatedFirst
    BY DEF FirstInv
  <1> QED
    BY <1>1, <1>2, InitFirst, PTL DEF Spec

-----------------------------------------------------------------------------
(* Beside other services.  What the write side holds on to survives a step of *)
(* another service: it may change the consumers and count a failure, but of   *)
(* what the write side reads it only extends PAYMENTS.                        *)

WriteInv == IInv /\ FeedInv /\ PaidByItsPayment

Aside ==
    /\ UNCHANGED <<store, stock, place, cancel, sub>>
    /\ JetStreamType(Message)' /\ FaultsType'
    /\ UNCHANGED streams \/ \E m \in Message : Publish("PAYMENTS", m)

\* The process dies, and with it the clients of more consumers than the write side has.
Restarts ==
    /\ place' = [o \in Orders |->
          IF PlaceInProgress(o) THEN [place[o] EXCEPT !.pc = "crashed"] ELSE place[o]]
    /\ cancel' = [c \in Cancels |->
          IF CancelInProgress(c) THEN [cancel[c] EXCEPT !.pc = "crashed"] ELSE cancel[c]]
    /\ SubRests
    /\ JetStreamType(Message)' /\ FaultsType'
    /\ UNCHANGED <<streams, store, stock>>

LEMMA StepWrite == WriteInv /\ [Next]_vars => WriteInv'
  <1>1. WriteInv /\ [Next]_vars => IInv' /\ FeedInv'
    BY StepIInv, StepFeed DEF WriteInv
  <1>2. WriteInv /\ [Next]_vars => PaidByItsPayment'
    BY StepPaid DEF WriteInv, PaidInv
  <1> QED
    BY <1>1, <1>2 DEF WriteInv

LEMMA InitWrite == Init => WriteInv
  BY InitIInv, InitFeed DEF Init, EventStoreInit, PaidByItsPayment, WriteInv

LEMMA AsideKeeps == WriteInv /\ Aside => WriteInv'
  <1> SUFFICES ASSUME WriteInv, Aside PROVE WriteInv'
    OBVIOUS
  <1> USE DEF WriteInv, IInv, HandlersInv
  <1>1. streams' = streams \/ \E s \in Streams, m \in Message : Publish(s, m)
    BY DEF Aside, Streams
  <1>2. UNCHANGED Log
    BY DEF Aside, Publish, TypeOK, JetStreamType, Streams, Log
  <1>3. TypeOK' /\ HistoryWellFormed'
    BY DEF Aside, TypeOK, EventStoreType, StockType, HistoryWellFormed
  <1>4. PlaceInv' /\ CancelInv'
    BY DEF Aside, PlaceInv, CancelInv, Load, Created, CancelChange, OrderCancelled
  <1>5. SubInv'
    <2>1. CASE sub.pc = "idle"
      BY <2>1 DEF Aside, SubInv
    <2>2. CASE sub.pc # "idle"
      <3>1. SubMessage' = SubMessage /\ SubChange' = SubChange
        BY <1>1, <2>2, SubChangeStable DEF Aside
      <3>2. sub.msg \in 1..Len(streams'["PAYMENTS"])
        BY <2>2, PublishAppends DEF Aside, SubInv, TypeOK, Streams
      <3> QED
        BY <3>1, <3>2 DEF Aside, SubInv, Created
    <2> QED
      BY <2>1, <2>2
  <1>6. FeedInv'
    <2>1. Quiet
      BY <1>1, <1>2, OthersKeep, HandlersKeep DEF Aside, Quiet, Handlers
    <2> QED
      BY <1>3, <2>1, FeedSteps DEF Aside
  <1>7. PaidByItsPayment'
    <2>1. ASSUME NEW e \in store, e.type = EventOrderPaid
          PROVE  Stored("PAYMENTS", PaymentMessage("payments.completed", e.order, e.payment))'
      <3> DEFINE m == PaymentMessage("payments.completed", e.order, e.payment)
      <3>1. Stored("PAYMENTS", m)
        BY <2>1 DEF PaidByItsPayment
      <3> HIDE DEF m
      <3>2. Stored("PAYMENTS", m)'
        BY <1>1, <3>1, StoredStays DEF Streams
      <3> QED
        BY <3>2 DEF m, PaymentMessage
    <2> QED
      BY <2>1 DEF Aside, PaidByItsPayment, PaymentMessage
  <1> QED
    BY <1>3, <1>4, <1>5, <1>6, <1>7

LEMMA RestartsKeeps == WriteInv /\ Restarts => WriteInv'
  <1> SUFFICES ASSUME WriteInv, Restarts PROVE WriteInv'
    OBVIOUS
  <1> USE DEF WriteInv, IInv, HandlersInv
  <1>1. \A o \in Orders :
           /\ place'[o] \in [pc : PlacePcs, reserved : Nat, released : Nat]
           /\ \/ place'[o] = place[o] /\ ~PlaceInProgress(o)
              \/ place'[o].pc = "crashed"
    BY DEF Restarts, TypeOK, PlacePcs
  <1>2. \A c \in Cancels :
           /\ cancel'[c] \in [pc : CancelPcs, order : Orders \cup {NoOrder},
                              version : Nat, released : Nat]
           /\ \/ cancel'[c] = cancel[c] /\ ~CancelInProgress(c)
              \/ cancel'[c].pc = "crashed"
    BY DEF Restarts, TypeOK, CancelPcs
  <1>3. sub' = [pc |-> "idle", msg |-> 0, version |-> 0]
    BY DEF Restarts, SubRests
  <1>4. TypeOK'
    <2>1. /\ place' \in [Orders -> [pc : PlacePcs, reserved : Nat, released : Nat]]
          /\ cancel' \in [Cancels -> [pc : CancelPcs, order : Orders \cup {NoOrder},
                                      version : Nat, released : Nat]]
      BY <1>1, <1>2 DEF Restarts
    <2> QED
      BY <1>3, <2>1 DEF Restarts, TypeOK, EventStoreType, StockType, SubPcs
  <1>5. HistoryWellFormed' /\ PaidByItsPayment'
    BY DEF Restarts, HistoryWellFormed, PaidByItsPayment, Stored, PaymentMessage
  <1>6. PlaceInv'
    BY <1>1 DEF Restarts, PlaceInv, PlaceInProgress, Load, Created
  <1>7. CancelInv' /\ SubInv'
    BY <1>2, <1>3 DEF CancelInv, SubInv, CancelInProgress
  <1>8. FeedInv'
    <2>1. \A h \in Handlers : ~Owing(h)'
      BY <1>1, <1>2, <1>3 DEF Handlers, Owing, PlaceInProgress, CancelInProgress
    <2> QED
      BY <2>1 DEF Restarts, FeedInv, Log
  <1> QED
    BY <1>4, <1>5, <1>6, <1>7, <1>8

LEMMA AsideKnown ==
    ASSUME WriteInv, KnownInv, CreatedFirst, Aside,
           \A m \in Message : Publish("PAYMENTS", m) => Known(m.order)
    PROVE  KnownInv' /\ CreatedFirst'
  <1> USE DEF WriteInv, IInv
  <1>1. UNCHANGED Log
    BY DEF Aside, Publish, TypeOK, JetStreamType, Streams, Log
  <1>2. ASSUME NEW o
        PROVE  Known(o)' <=> Known(o)
    BY <1>1 DEF Known, CreatedMessage, OrderMessage, OrderCreated, NewOrder, Stored, Log
  <1>3. ASSUME NEW i \in 1..Len(streams'["PAYMENTS"])
        PROVE  Known(streams'["PAYMENTS"][i].order)
    <2>1. CASE UNCHANGED streams
      BY <1>3, <2>1 DEF KnownInv
    <2>2. ASSUME NEW m \in Message, Publish("PAYMENTS", m)
          PROVE  Known(streams'["PAYMENTS"][i].order)
      <3>1. \/ i \in 1..Len(streams["PAYMENTS"])
               /\ streams'["PAYMENTS"][i] = streams["PAYMENTS"][i]
            \/ streams'["PAYMENTS"][i] = m
        <4>1. JetStreamType(Message) /\ "PAYMENTS" \in Streams
          BY DEF TypeOK, Streams
        <4>2. /\ Len(streams["PAYMENTS"]) \in Nat
              /\ Len(streams'["PAYMENTS"]) = Len(streams["PAYMENTS"]) + 1
              /\ streams'["PAYMENTS"][Len(streams["PAYMENTS"]) + 1] = m
              /\ \A n \in 1..Len(streams["PAYMENTS"]) :
                    streams'["PAYMENTS"][n] = streams["PAYMENTS"][n]
          BY <2>2, <4>1, PublishAppends
        <4> HIDE DEF WriteInv
        <4> QED
          BY <1>3, <4>2
      <3> QED
        BY <2>2, <3>1 DEF KnownInv
    <2> QED
      BY <2>1, <2>2 DEF Aside
  <1>4. KnownInv'
    BY <1>2, <1>3 DEF KnownInv, Aside
  <1>5. CreatedFirst'
    BY <1>1 DEF CreatedFirst, Log, OrderMessage, OrderCreated, NewOrder
  <1> QED
    BY <1>4, <1>5

LEMMA RestartsKnown ==
    ASSUME WriteInv, KnownInv, CreatedFirst, Restarts
    PROVE  KnownInv' /\ CreatedFirst'
  <1> USE DEF WriteInv, IInv
  <1>1. UNCHANGED streams
    BY DEF Restarts
  <1>2. \A o \in Orders : place'[o].pc = "done" => place[o].pc = "done"
    BY DEF Restarts, TypeOK
  <1>3. \A c \in Cancels :
           cancel'[c].pc \in {"persisting", "releasing", "publishing"} => cancel'[c] = cancel[c]
    BY DEF Restarts, TypeOK
  <1>4. KnownInv'
    BY <1>1, <1>2, <1>3
    DEF KnownInv, Known, CreatedMessage, OrderMessage, OrderCreated, NewOrder, Stored
  <1>5. CreatedFirst'
    BY <1>1 DEF CreatedFirst, OrderMessage, OrderCreated, NewOrder
  <1> QED
    BY <1>4, <1>5

\* A step that puts a message on ORDERS fails at nothing and takes no message.
LEMMA AnnouncingAlone ==
    ASSUME "publish_error" \notin FaultKinds, IInv, [Next]_vars, ~UNCHANGED Log
    PROVE  NoFault /\ UNCHANGED consumers
  <1> USE DEF IInv
  <1>1. ASSUME NEW e, PublishOrIgnore(e)
        PROVE  NoFault
    BY <1>1 DEF PublishOrIgnore, Fault
  <1>2. ASSUME NEW o \in Orders, PlaceStart(o) \/ PlaceStep(o)
        PROVE  NoFault /\ UNCHANGED consumers
    BY <1>1, <1>2
    DEF Log, PlaceStart, PlaceStep, ReserveLine, ReserveRefused, ReserveReplyLost, RollbackLine,
        PlaceAppend, PlaceAppendFails, PlacePublish
  <1>3. ASSUME NEW c \in Cancels, CancelStep(c) \/ \E o \in Orders : CancelLoad(c, o)
        PROVE  NoFault /\ UNCHANGED consumers
    BY <1>1, <1>3
    DEF Log, CancelStep, CancelLoad, CancelAppend, CancelAppendFails, CancelRelease, CancelPublish
  <1>4. ASSUME SubStep
        PROVE  NoFault /\ UNCHANGED consumers
    BY <1>1, <1>4 DEF Log, SubStep, SubHandle, SubAppend, SubAppendFails, SubPublish, SubAck
  <1>5. ASSUME NEW p \in Payments, NEW o \in Orders, NEW s \in PaymentSubjects,
               PaymentSettled(p, o, s)
        PROVE  UNCHANGED Log
    BY <1>5 DEF PaymentSettled, Publish, Log, TypeOK, JetStreamType, Streams
  <1>6. Crash \/ Shutdown \/ AtRest \/ UNCHANGED vars => UNCHANGED Log
    BY DEF Crash, Shutdown, AtRest, vars, Log
  <1> QED
    BY <1>2, <1>3, <1>4, <1>5, <1>6 DEF Next

\* What is put on ORDERS is a stored event that was not announced before.
LEMMA AnnouncedEvent ==
    ASSUME WriteInv, [Next]_vars, ~UNCHANGED Log
    PROVE  \E e \in store :
              /\ Publish("ORDERS", OrderMessage(e)) /\ Silent(e)
              /\ e.type = EventOrderCreated => e = OrderCreated(e.order)
              /\ e.type # EventOrderPaid => e.payment = NoPayment
              /\ KnownInv /\ e.type # EventOrderCreated => Known(e.order)
  <1> USE DEF WriteInv, IInv, HandlersInv
  <1>1. PICK h \in Handlers : Announces(h)
    BY KindOfEveryStep DEF KindOfStep, Quiet, Stores
  <1> DEFINE e == Owed(h)
  <1>2. e \in store /\ Silent(e) /\ Publish("ORDERS", OrderMessage(e))
    BY <1>1 DEF Announces, FeedInv
  <1> DEFINE Told == /\ e.type = EventOrderCreated => e = OrderCreated(e.order)
                     /\ e.type # EventOrderPaid => e.payment = NoPayment
                     /\ KnownInv /\ e.type # EventOrderCreated => Known(e.order)
  <1>3. CASE h[1] = "place"
    BY <1>2, <1>3 DEF Owed, OrderCreated, NewOrder
  <1>4. CASE h[1] = "cancel"
    <2>1. h[2] \in Cancels /\ cancel[h[2]].pc \in {"releasing", "publishing"}
      BY <1>1, <1>4 DEF Announces, Owing, Handlers
    <2>2. e = OrderCancelled(cancel[h[2]].order, cancel[h[2]].version)
      BY <1>4 DEF Owed, CancelChange
    <2>3. Told
      BY <2>1, <2>2 DEF KnownInv, OrderCancelled, EventOrderCancelled, EventOrderPaid,
                        EventOrderCreated
    <2> QED
      BY <1>2, <2>3
  <1>5. CASE h[1] = "sub"
    <2>1. sub.msg \in 1..Len(streams["PAYMENTS"])
      BY <1>1, <1>5 DEF Announces, Owing, SubInv
    <2>2. KnownInv => Known(SubMessage.order)
      BY <2>1 DEF KnownInv, SubMessage
    <2>3. e = SubChange
      BY <1>5 DEF Owed
    <2>4. /\ SubChange.order = SubMessage.order /\ SubChange.type # EventOrderCreated
          /\ SubChange.type # EventOrderPaid => SubChange.payment = NoPayment
      BY DEF SubChange, OrderPaid, OrderCancelled, EventOrderCancelled, EventOrderPaid,
             EventOrderCreated
    <2> QED
      BY <1>2, <2>2, <2>3, <2>4
  <1> QED
    BY <1>3, <1>4, <1>5 DEF Handlers

\* The message is of an order no message was about before, or of its outcome, after
\* its creation was told.
LEMMA AnnouncedRightly ==
    ASSUME "publish_error" \notin FaultKinds, WriteInv, KnownInv, CreatedFirst, [Next]_vars,
           ~UNCHANGED Log
    PROVE  \E e \in store :
              /\ Publish("ORDERS", OrderMessage(e)) /\ NoFault /\ UNCHANGED consumers
              /\ IF e.type = EventOrderCreated
                 THEN \A i \in 1..Len(Log) : Log[i].order # e.order
                 ELSE /\ Known(e.order)
                      /\ \A i \in 1..Len(Log) :
                            Log[i].order = e.order => Log[i].subject = "orders.created"
              /\ e.type # EventOrderPaid => e.payment = NoPayment
  <1> USE DEF WriteInv, IInv
  <1>1. PICK e \in store :
           /\ Publish("ORDERS", OrderMessage(e)) /\ Silent(e)
           /\ e.type = EventOrderCreated => e = OrderCreated(e.order)
           /\ e.type # EventOrderPaid => e.payment = NoPayment
           /\ e.type # EventOrderCreated => Known(e.order)
    BY AnnouncedEvent
  <1>2. ASSUME NEW i \in 1..Len(Log), Log[i].order = e.order
        PROVE  e.type # EventOrderCreated /\ Log[i].subject = "orders.created"
    <2>1. PICK f \in store : Log[i] = OrderMessage(f)
      BY DEF FeedInv
    <2>2. f.order = e.order /\ f # e
      BY <1>1, <1>2, <2>1 DEF OrderMessage, Silent
    <2>3. e.type # EventOrderCreated
      <3> SUFFICES ASSUME e.type = EventOrderCreated PROVE FALSE
        OBVIOUS
      <3>1. PICK j \in 1..i : Log[j] = CreatedMessage(e.order)
        BY <1>2 DEF CreatedFirst, CreatedMessage, Log
      <3>2. j \in 1..Len(Log) /\ Log[j] = OrderMessage(e)
        BY <1>1, <3>1, LogType DEF CreatedMessage
      <3> QED
        BY <1>1, <3>2 DEF Silent
    <2>4. f.version = 1
      BY <1>1, <2>2, <2>3 DEF HistoryWellFormed
    <2>5. f.type = EventOrderCreated
      BY <2>4 DEF HistoryWellFormed
    <2> QED
      BY <2>1, <2>3, <2>5
      DEF OrderMessage, NatsSubject, EventOrderCreated, EventOrderPaid, EventOrderCancelled
  <1> QED
    BY <1>1, <1>2, AnnouncingAlone

\* The steps of the service itself.
ServiceStep ==
    \/ \E o \in Orders : PlaceStart(o) \/ PlaceStep(o)
    \/ \E c \in Cancels : CancelStep(c) \/ \E o \in Orders : CancelLoad(c, o)
    \/ SubStep

LEMMA ServicePublishes ==
    ASSUME TypeOK, ServiceStep
    PROVE  streams' = streams \/ \E m : Publish("ORDERS", m)
  <1>1. ASSUME NEW e, PublishOrIgnore(e)
        PROVE  streams' = streams \/ \E m : Publish("ORDERS", m)
    BY <1>1 DEF PublishOrIgnore
  <1>2. ASSUME NEW o \in Orders, PlaceStart(o) \/ PlaceStep(o)
        PROVE  streams' = streams \/ PublishOrIgnore(OrderCreated(o))
    BY <1>2 DEF PlaceStart, PlaceStep, ReserveLine, ReserveRefused, ReserveReplyLost,
                RollbackLine, PlaceAppend, PlaceAppendFails, PlacePublish
  <1>3. ASSUME NEW c \in Cancels, CancelStep(c) \/ \E o \in Orders : CancelLoad(c, o)
        PROVE  streams' = streams \/ PublishOrIgnore(CancelChange(c))
    BY <1>3 DEF CancelStep, CancelLoad, CancelAppend, CancelAppendFails, CancelRelease,
                CancelPublish
  <1>4. SubStep => streams' = streams \/ PublishOrIgnore(SubChange)
    BY DEF SubStep, SubHandle, SubAppend, SubAppendFails, SubPublish, SubAck
  <1> QED
    BY <1>1, <1>2, <1>3, <1>4 DEF ServiceStep

-----------------------------------------------------------------------------
(* The books of the stock are sums.  SumFunctionOnSet is a fold, a          *)
(* recursive function over the subsets of its set: these lemmas say how it  *)
(* adds up.                                                                 *)

\* A set of subsets of a finite set that holds every subset whose proper
\* subsets it holds, holds them all.
LEMMA SubsetsInduce ==
    ASSUME NEW S, IsFiniteSet(S), NEW G,
           \A T \in SUBSET S : (\A U \in SUBSET T : U # T => U \in G) => T \in G
    PROVE  \A T \in SUBSET S : T \in G
  <1> DEFINE Bad == {T \in SUBSET S : T \notin G}
             R == StrictSubsetOrdering(S)
  <1>1. IsWellFoundedOn(R, FiniteSubsetsOf(S))
    BY FS_StrictSubsetOrderingWellFounded
  <1>2. FiniteSubsetsOf(S) = SUBSET S
    BY FS_FiniteSubsetsOfFinite
  <1>3. SUFFICES ASSUME Bad # {} PROVE FALSE
    OBVIOUS
  <1>4. Bad \subseteq FiniteSubsetsOf(S)
    BY <1>2
  <1>5. PICK T \in Bad : \A U \in Bad : <<U, T>> \notin R
    <2> HIDE DEF Bad, R
    <2> QED
      BY <1>1, <1>3, <1>4, WFMin
  <1>6. \A U \in SUBSET T : U # T => U \in G
    BY <1>5 DEF StrictSubsetOrdering
  <1> QED
    BY <1>5, <1>6

\* g is the function over the subsets of S by which the fold adds up f.
Choice(T) == CHOOSE x \in T : TRUE
Summing(f, S, g) ==
    g = [T \in SUBSET S |-> IF T = {} THEN 0 ELSE f[Choice(T)] + g[T \ {Choice(T)}]]

LEMMA SumIsSumming ==
    ASSUME NEW f, NEW S
    PROVE  SumFunctionOnSet(f, S) = (CHOOSE g : Summing(f, S, g))[S]
  BY Zenon DEF SumFunctionOnSet, FoldFunctionOnSet, MapThenFoldSet, Summing, Choice

LEMMA ChoiceIn ==
    ASSUME NEW T, T # {}
    PROVE  Choice(T) \in T
  BY DEF Choice

LEMMA SummingAt ==
    ASSUME NEW f, NEW S, NEW g, Summing(f, S, g), NEW T \in SUBSET S
    PROVE  g[T] = IF T = {} THEN 0 ELSE f[Choice(T)] + g[T \ {Choice(T)}]
  BY Zenon DEF Summing

\* The functions over the subsets of two sets agree on what both are over.
LEMMA SummingUnique ==
    ASSUME NEW f, NEW S, IsFiniteSet(S), NEW U \in SUBSET S,
           NEW g, Summing(f, S, g), NEW h, Summing(f, U, h)
    PROVE  \A T \in SUBSET U : g[T] = h[T]
  <1> DEFINE G == {T \in SUBSET U : g[T] = h[T]}
  <1>1. IsFiniteSet(U)
    BY FS_Subset
  <1>2. ASSUME NEW T \in SUBSET U, \A V \in SUBSET T : V # T => V \in G
        PROVE  T \in G
    <2>1. CASE T = {}
      <3>1. g[T] = 0 /\ h[T] = 0
        BY <2>1, SummingAt
      <3> QED
        BY <3>1
    <2>2. CASE T # {}
      <3> DEFINE c == Choice(T)
      <3>1. T \ {c} \in SUBSET T /\ T \ {c} # T
        BY <2>2, ChoiceIn
      <3>2. g[T \ {c}] = h[T \ {c}]
        BY <1>2, <3>1
      <3>3. g[T] = f[c] + g[T \ {c}]
        <4>1. T \in SUBSET S
          OBVIOUS
        <4> QED
          BY <2>2, <4>1, SummingAt
      <3>4. h[T] = f[c] + h[T \ {c}]
        BY <2>2, SummingAt
      <3> QED
        BY <3>2, <3>3, <3>4
    <2> QED
      BY <2>1, <2>2
  <1> HIDE DEF G
  <1>3. \A T \in SUBSET U : T \in G
    BY <1>1, <1>2, SubsetsInduce
  <1> QED
    BY <1>3 DEF G

\* There is such a function over every finite set.
LEMMA SummingExists ==
    ASSUME NEW f, NEW S, IsFiniteSet(S)
    PROVE  \E g : Summing(f, S, g)
  <1> DEFINE G == {T \in SUBSET S : \E g : Summing(f, T, g)}
             F(U) == CHOOSE g : Summing(f, U, g)
  <1>1. ASSUME NEW T \in SUBSET S, \A U \in SUBSET T : U # T => U \in G
        PROVE  T \in G
    <2>1. \A U \in SUBSET T : U # T => Summing(f, U, F(U))
      BY <1>1
    <2> DEFINE below == [U \in SUBSET T |-> F(U)[U]]
               c(U) == Choice(U)
               top == IF T = {} THEN 0 ELSE f[c(T)] + below[T \ {c(T)}]
               g == [U \in SUBSET T |-> IF U = T THEN top ELSE below[U]]
    <2>2. ASSUME NEW U \in SUBSET T, U # T
          PROVE  below[U] = IF U = {} THEN 0 ELSE f[c(U)] + below[U \ {c(U)}]
      <3>1. below[U] = F(U)[U] /\ Summing(f, U, F(U))
        BY <2>1, <2>2
      <3>2. CASE U = {}
        BY <3>1, <3>2, SummingAt
      <3>3. CASE U # {}
        <4> DEFINE V == U \ {c(U)}
        <4>1. V \in SUBSET U /\ V \in SUBSET T /\ V # T
          <5>1. V \subseteq U /\ U \subseteq T
            OBVIOUS
          <5> QED
            BY <2>2, <5>1
        <4>2. Summing(f, V, F(V)) /\ below[V] = F(V)[V]
          BY <2>1, <4>1
        <4>3. IsFiniteSet(U)
          BY FS_Subset
        <4>4. F(U)[V] = F(V)[V]
          <5> HIDE DEF V, F
          <5> QED
            BY <3>1, <4>1, <4>2, <4>3, SummingUnique
        <4>5. F(U)[U] = f[c(U)] + F(U)[V]
          <5> HIDE DEF F
          <5> QED
            BY <3>1, <3>3, SummingAt
        <4> QED
          BY <3>1, <3>3, <4>2, <4>4, <4>5
      <3> QED
        BY <3>2, <3>3
    <2>3. ASSUME NEW U \in SUBSET T
          PROVE  g[U] = IF U = {} THEN 0 ELSE f[c(U)] + g[U \ {c(U)}]
      <3> HIDE DEF below
      <3>1. U # {} => c(U) \in U
        BY ChoiceIn
      <3>2. U # {} => g[U \ {c(U)}] = below[U \ {c(U)}]
        BY <3>1
      <3>3. CASE U = T
        BY <3>2, <3>3
      <3>4. CASE U # T
        BY <2>2, <3>2, <3>4
      <3> QED
        BY <3>3, <3>4
    <2>4. g = [U \in SUBSET T |-> IF U = {} THEN 0 ELSE f[c(U)] + g[U \ {c(U)}]]
      <3> HIDE DEF top, below, c
      <3> QED
        BY <2>3
    <2>5. Summing(f, T, g)
      <3> HIDE DEF g
      <3> QED
        BY <2>4 DEF Summing
    <2> QED
      BY <2>5
  <1> HIDE DEF G
  <1>2. S \in G
    BY <1>1, SubsetsInduce
  <1> QED
    BY <1>2 DEF G

\* The sum starts at 0 and takes the chosen element first.
LEMMA SumChosen ==
    ASSUME NEW f, NEW S, IsFiniteSet(S)
    PROVE  SumFunctionOnSet(f, S) =
              IF S = {} THEN 0 ELSE f[Choice(S)] + SumFunctionOnSet(f, S \ {Choice(S)})
  <1> DEFINE V == S \ {Choice(S)}
             g == CHOOSE h : Summing(f, S, h)
             k == CHOOSE h : Summing(f, V, h)
  <1>1. IsFiniteSet(V) /\ V \in SUBSET S
    BY FS_Subset
  <1>2. Summing(f, S, g) /\ Summing(f, V, k)
    BY <1>1, SummingExists
  <1>3. g[V] = k[V]
    <2> HIDE DEF g, k, V
    <2> QED
      BY <1>1, <1>2, SummingUnique
  <1>4. SumFunctionOnSet(f, S) = g[S] /\ SumFunctionOnSet(f, V) = k[V]
    BY SumIsSumming
  <1>5. g[S] = IF S = {} THEN 0 ELSE f[Choice(S)] + g[V]
    <2> HIDE DEF g
    <2> QED
      BY <1>2, SummingAt
  <1> QED
    BY <1>3, <1>4, <1>5

\* Integers add up to an integer, and any element may be taken first.
LEMMA SumTake ==
    ASSUME NEW S, IsFiniteSet(S), NEW f, \A x \in S : f[x] \in Int
    PROVE  /\ SumFunctionOnSet(f, {}) = 0
           /\ \A T \in SUBSET S :
                 /\ SumFunctionOnSet(f, T) \in Int
                 /\ \A x \in T : SumFunctionOnSet(f, T) = f[x] + SumFunctionOnSet(f, T \ {x})
  <1> DEFINE Sum(T) == SumFunctionOnSet(f, T)
             Good(T) == Sum(T) \in Int /\ \A x \in T : Sum(T) = f[x] + Sum(T \ {x})
             G == {T \in SUBSET S : Good(T)}
  <1>1. Sum({}) = 0
    BY FS_EmptySet, SumChosen
  <1>2. ASSUME NEW T \in SUBSET S, \A U \in SUBSET T : U # T => U \in G
        PROVE  T \in G
    <2>1. CASE T = {}
      BY <1>1, <2>1
    <2>2. CASE T # {}
      <3> DEFINE c == Choice(T)
      <3>1. c \in T /\ f[c] \in Int
        BY <2>2, ChoiceIn
      <3>2. Sum(T) = f[c] + Sum(T \ {c})
        BY <2>2, FS_Subset, SumChosen
      <3>3. Good(T \ {c})
        BY <1>2, <3>1
      <3> HIDE DEF Sum, c
      <3>4. Sum(T) \in Int
        BY <3>1, <3>2, <3>3
      <3>5. ASSUME NEW x \in T
            PROVE  Sum(T) = f[x] + Sum(T \ {x})
        <4>1. CASE x = c
          BY <3>2, <4>1
        <4>2. CASE x # c
          <5> DEFINE both == T \ {x, c}
          <5>1. Good(T \ {x}) /\ Good(both)
            BY <1>2, <3>1
          <5>2. (T \ {x}) \ {c} = both /\ (T \ {c}) \ {x} = both
            OBVIOUS
          <5>3. Sum(T \ {x}) = f[c] + Sum(both)
            BY <3>1, <4>2, <5>1, <5>2
          <5>4. Sum(T \ {c}) = f[x] + Sum(both)
            BY <3>3, <4>2, <5>2
          <5>5. Sum(both) \in Int /\ f[x] \in Int
            BY <5>1
          <5> HIDE DEF both
          <5> QED
            BY <3>1, <3>2, <5>3, <5>4, <5>5
        <4> QED
          BY <4>1, <4>2
      <3> QED
        BY <3>4, <3>5
    <2> QED
      BY <2>1, <2>2
  <1> HIDE DEF G
  <1>3. \A T \in SUBSET S : T \in G
    BY <1>2, SubsetsInduce
  <1> QED
    BY <1>1, <1>3 DEF G

\* The larger function has the larger sum.
LEMMA SumBelow ==
    ASSUME NEW S, IsFiniteSet(S), NEW f, NEW g,
           \A x \in S : f[x] \in Int /\ g[x] \in Int /\ f[x] <= g[x]
    PROVE  SumFunctionOnSet(f, S) <= SumFunctionOnSet(g, S)
  <1> DEFINE G == {T \in SUBSET S : SumFunctionOnSet(f, T) <= SumFunctionOnSet(g, T)}
  <1>1. ASSUME NEW T \in SUBSET S, \A U \in SUBSET T : U # T => U \in G
        PROVE  T \in G
    <2>1. CASE T = {}
      BY <2>1, SumTake
    <2>2. CASE T # {}
      <3>1. PICK x \in T : TRUE
        BY <2>2
      <3> DEFINE U == T \ {x}
      <3>2. SumFunctionOnSet(f, U) <= SumFunctionOnSet(g, U)
        BY <1>1
      <3>3. /\ SumFunctionOnSet(f, T) = f[x] + SumFunctionOnSet(f, U)
            /\ SumFunctionOnSet(f, U) \in Int
        BY SumTake
      <3>4. /\ SumFunctionOnSet(g, T) = g[x] + SumFunctionOnSet(g, U)
            /\ SumFunctionOnSet(g, U) \in Int
        BY SumTake
      <3>5. f[x] \in Int /\ g[x] \in Int /\ f[x] <= g[x]
        OBVIOUS
      <3> HIDE DEF U
      <3> QED
        BY <3>2, <3>3, <3>4, <3>5
    <2> QED
      BY <2>1, <2>2
  <1> HIDE DEF G
  <1>2. S \in G
    BY <1>1, SubsetsInduce
  <1> QED
    BY <1>2 DEF G

\* A sum looks at nothing but the values.
LEMMA SumSame ==
    ASSUME NEW S, IsFiniteSet(S), NEW f, NEW g, \A x \in S : f[x] \in Int /\ f[x] = g[x]
    PROVE  SumFunctionOnSet(f, S) = SumFunctionOnSet(g, S)
  <1>1. SumFunctionOnSet(f, S) \in Int /\ SumFunctionOnSet(g, S) \in Int
    BY SumTake
  <1>2. /\ SumFunctionOnSet(f, S) <= SumFunctionOnSet(g, S)
        /\ SumFunctionOnSet(g, S) <= SumFunctionOnSet(f, S)
    BY SumBelow
  <1> QED
    BY <1>1, <1>2

\* One value that changes changes the sum by as much.
LEMMA SumChange ==
    ASSUME NEW S, IsFiniteSet(S), NEW f, NEW g, \A x \in S : f[x] \in Int /\ g[x] \in Int,
           NEW x \in S, \A y \in S \ {x} : f[y] = g[y]
    PROVE  /\ SumFunctionOnSet(f, S) \in Int
           /\ SumFunctionOnSet(g, S) = SumFunctionOnSet(f, S) + (g[x] - f[x])
  <1> DEFINE U == S \ {x}
  <1>1. SumFunctionOnSet(f, U) = SumFunctionOnSet(g, U)
    BY FS_Subset, SumSame
  <1>2. /\ SumFunctionOnSet(f, S) = f[x] + SumFunctionOnSet(f, U)
        /\ SumFunctionOnSet(f, U) \in Int /\ SumFunctionOnSet(f, S) \in Int
    BY SumTake
  <1>3. /\ SumFunctionOnSet(g, S) = g[x] + SumFunctionOnSet(g, U)
    BY SumTake
  <1>4. f[x] \in Int /\ g[x] \in Int
    OBVIOUS
  <1> HIDE DEF U
  <1> QED
    BY <1>1, <1>2, <1>3, <1>4

\* Natural numbers add up to a natural number.
LEMMA SumNat ==
    ASSUME NEW S, IsFiniteSet(S), NEW f, \A x \in S : f[x] \in Nat
    PROVE  SumFunctionOnSet(f, S) \in Nat
  <1> DEFINE G == {T \in SUBSET S : SumFunctionOnSet(f, T) \in Nat}
  <1>1. ASSUME NEW T \in SUBSET S, \A U \in SUBSET T : U # T => U \in G
        PROVE  T \in G
    <2>1. CASE T = {}
      BY <2>1, SumTake
    <2>2. CASE T # {}
      <3>1. PICK x \in T : TRUE
        BY <2>2
      <3>2. SumFunctionOnSet(f, T \ {x}) \in Nat
        BY <1>1
      <3>3. SumFunctionOnSet(f, T) = f[x] + SumFunctionOnSet(f, T \ {x})
        BY SumTake
      <3> QED
        BY <3>2, <3>3
    <2> QED
      BY <2>1, <2>2
  <1> HIDE DEF G
  <1>2. S \in G
    BY <1>1, SubsetsInduce
  <1> QED
    BY <1>2 DEF G

LEMMA SumZero ==
    ASSUME NEW S, IsFiniteSet(S), NEW f, \A x \in S : f[x] = 0
    PROVE  SumFunctionOnSet(f, S) = 0
  <1> DEFINE G == {T \in SUBSET S : SumFunctionOnSet(f, T) = 0}
  <1>1. \A x \in S : f[x] \in Int
    OBVIOUS
  <1>2. ASSUME NEW T \in SUBSET S, \A U \in SUBSET T : U # T => U \in G
        PROVE  T \in G
    <2>1. CASE T = {}
      BY <1>1, <2>1, SumTake
    <2>2. CASE T # {}
      <3>1. PICK x \in T : TRUE
        BY <2>2
      <3>2. SumFunctionOnSet(f, T \ {x}) = 0
        BY <1>2
      <3>3. SumFunctionOnSet(f, T) = f[x] + SumFunctionOnSet(f, T \ {x})
        BY <1>1, SumTake
      <3> QED
        BY <3>2, <3>3
    <2> QED
      BY <2>1, <2>2
  <1> HIDE DEF G
  <1>3. S \in G
    BY <1>2, SubsetsInduce
  <1> QED
    BY <1>3 DEF G

-----------------------------------------------------------------------------
(* The lines of a cart *)

LEMMA LineUnitsNat ==
    ASSUME NEW o \in Orders, NEW p
    PROVE  \A n \in 1..Len(Cart[o]) : LineUnits(o, p)[n] \in Nat
  BY CartLine DEF LineUnits

\* The units of some lines are those of all but the first, or all but the last,
\* and those of that line.
LEMMA UnitsSpan ==
    ASSUME NEW o \in Orders, NEW p, NEW from \in Nat \ {0}, NEW to \in Nat, to <= Len(Cart[o])
    PROVE  /\ Units(o, p, from, to) \in Nat
           /\ from > to => Units(o, p, from, to) = 0
           /\ from <= to =>
                /\ Units(o, p, from, to) = LineUnits(o, p)[from] + Units(o, p, from + 1, to)
                /\ Units(o, p, from, to) = LineUnits(o, p)[to] + Units(o, p, from, to - 1)
  <1> DEFINE f == LineUnits(o, p)
             S == from..to
  <1>1. IsFiniteSet(S) /\ \A n \in S : f[n] \in Nat /\ f[n] \in Int
    <2>1. Len(Cart[o]) \in Nat
      BY CartLine
    <2>2. S \subseteq 1..Len(Cart[o])
      BY <2>1
    <2>3. IsFiniteSet(S)
      BY FS_Interval
    <2> QED
      BY <2>2, <2>3, LineUnitsNat
  <1> HIDE DEF f
  <1>2. SumFunctionOnSet(f, S) \in Nat
    <2> HIDE DEF S
    <2> QED
      BY <1>1, SumNat
  <1>3. ASSUME from > to
        PROVE  SumFunctionOnSet(f, S) = 0
    <2>1. S = {}
      BY <1>3
    <2> QED
      BY <1>1, <2>1, SumTake
  <1>4. ASSUME from <= to
        PROVE  /\ SumFunctionOnSet(f, S) = f[from] + SumFunctionOnSet(f, (from + 1)..to)
               /\ SumFunctionOnSet(f, S) = f[to] + SumFunctionOnSet(f, from..(to - 1))
    <2>1. S \ {from} = (from + 1)..to /\ S \ {to} = from..(to - 1)
      BY <1>4
    <2>2. from \in S /\ to \in S
      BY <1>4
    <2>3. \A x \in S : SumFunctionOnSet(f, S) = f[x] + SumFunctionOnSet(f, S \ {x})
      <3> HIDE DEF S
      <3> QED
        BY <1>1, SumTake
    <2> QED
      BY <2>1, <2>2, <2>3
  <1> QED
    BY <1>2, <1>3, <1>4 DEF f, Units

LEMMA UnitsToEnd ==
    ASSUME NEW o \in Orders, NEW p, NEW from \in Nat \ {0}
    PROVE  /\ Len(Cart[o]) \in Nat /\ Units(o, p, from, Len(Cart[o])) \in Nat
           /\ from > Len(Cart[o]) => Units(o, p, from, Len(Cart[o])) = 0
           /\ from <= Len(Cart[o]) =>
                 Units(o, p, from, Len(Cart[o])) =
                    LineUnits(o, p)[from] + Units(o, p, from + 1, Len(Cart[o]))
  <1>1. PICK to \in Nat : to = Len(Cart[o])
    BY CartLine
  <1>2. to <= Len(Cart[o])
    BY <1>1
  <1>3. /\ Units(o, p, from, to) \in Nat
        /\ from > to => Units(o, p, from, to) = 0
        /\ from <= to => Units(o, p, from, to) = LineUnits(o, p)[from] + Units(o, p, from + 1, to)
    BY <1>2, UnitsSpan
  <1> QED
    BY <1>1, <1>3

-----------------------------------------------------------------------------
(* The books *)

\* Every entry of the books is a number of units.
BooksType ==
    \A p \in Products :
        /\ stock[p] \in Nat
        /\ \A o \in Orders : SoldOf(p)[o] \in Nat /\ HeldForPlacing(p)[o] \in Nat
        /\ \A c \in Cancels : HeldForCancelling(p)[c] \in Nat

LEMMA BooksTyped == IInv => BooksType
  <1> SUFFICES ASSUME IInv, NEW p \in Products
               PROVE  /\ stock[p] \in Nat
                      /\ \A o \in Orders : SoldOf(p)[o] \in Nat /\ HeldForPlacing(p)[o] \in Nat
                      /\ \A c \in Cancels : HeldForCancelling(p)[c] \in Nat
    BY DEF BooksType
  <1> USE DEF IInv, HandlersInv
  <1>1. stock[p] \in Nat
    BY DEF TypeOK, StockType
  <1>2. ASSUME NEW o \in Orders
        PROVE  SoldOf(p)[o] \in Nat
    <2>1. AllUnits(o, p) \in Nat
      BY UnitsToEnd DEF AllUnits
    <2> QED
      BY <2>1 DEF SoldOf
  <1>3. ASSUME NEW o \in Orders
        PROVE  HeldForPlacing(p)[o] \in Nat
    <2>1. CASE place[o].pc \in {"reserving", "rollback"} /\ ~Created(o)
      <3>1. place[o].released + 1 \in Nat \ {0} /\ place[o].reserved \in Nat
        BY DEF TypeOK
      <3>2. place[o].reserved <= Len(Cart[o])
        BY <2>1 DEF PlaceInv
      <3>3. Units(o, p, place[o].released + 1, place[o].reserved) \in Nat
        BY <3>1, <3>2, UnitsSpan
      <3> QED
        BY <2>1, <3>3 DEF HeldForPlacing
    <2>2. CASE ~(place[o].pc \in {"reserving", "rollback"} /\ ~Created(o))
      BY <2>2 DEF HeldForPlacing
    <2> QED
      BY <2>1, <2>2
  <1>4. ASSUME NEW c \in Cancels
        PROVE  HeldForCancelling(p)[c] \in Nat
    <2>1. CASE cancel[c].pc = "releasing"
      <3> DEFINE o == cancel[c].order
                 from == cancel[c].released + 1
      <3>1. from \in Nat \ {0} /\ o \in Orders
        BY <2>1 DEF TypeOK, CancelInv
      <3> HIDE DEF o, from
      <3>3. Units(o, p, from, Len(Cart[o])) \in Nat
        BY <3>1, UnitsToEnd
      <3> USE DEF o, from
      <3> QED
        BY <2>1, <3>3 DEF HeldForCancelling
    <2>2. CASE cancel[c].pc # "releasing"
      BY <2>2 DEF HeldForCancelling
    <2> QED
      BY <2>1, <2>2
  <1> QED
    BY <1>1, <1>2, <1>3, <1>4

LEMMA BooksTypedNext == IInv' => BooksType'
  BY BooksTyped, PTL

\* The sums of the books, and what one entry that changes does to its sum.
LEMMA BooksMove ==
    ASSUME FiniteRequests, IInv, IInv', NEW p \in Products
    PROVE  /\ stock[p] \in Nat /\ stock'[p] \in Nat
           /\ Sold(p) \in Int /\ HeldByPlacing(p) \in Int /\ HeldByCancelling(p) \in Int
           /\ \A o \in Orders :
                 (\A q \in Orders \ {o} : SoldOf(p)'[q] = SoldOf(p)[q])
                    => Sold(p)' = Sold(p) + (SoldOf(p)'[o] - SoldOf(p)[o])
           /\ \A o \in Orders :
                 (\A q \in Orders \ {o} : HeldForPlacing(p)'[q] = HeldForPlacing(p)[q])
                    => HeldByPlacing(p)' =
                          HeldByPlacing(p) + (HeldForPlacing(p)'[o] - HeldForPlacing(p)[o])
           /\ \A c \in Cancels :
                 (\A d \in Cancels \ {c} : HeldForCancelling(p)'[d] = HeldForCancelling(p)[d])
                    => HeldByCancelling(p)' = HeldByCancelling(p)
                          + (HeldForCancelling(p)'[c] - HeldForCancelling(p)[c])
           /\ (\A o \in Orders : HeldForPlacing(p)'[o] <= HeldForPlacing(p)[o])
                 => HeldByPlacing(p)' <= HeldByPlacing(p)
           /\ (\A c \in Cancels : HeldForCancelling(p)'[c] <= HeldForCancelling(p)[c])
                 => HeldByCancelling(p)' <= HeldByCancelling(p)
  <1>1. /\ stock[p] \in Nat
        /\ \A o \in Orders : SoldOf(p)[o] \in Int /\ HeldForPlacing(p)[o] \in Int
        /\ \A c \in Cancels : HeldForCancelling(p)[c] \in Int
    BY BooksTyped DEF BooksType
  <1>2. /\ stock'[p] \in Nat
        /\ \A o \in Orders : SoldOf(p)'[o] \in Int /\ HeldForPlacing(p)'[o] \in Int
        /\ \A c \in Cancels : HeldForCancelling(p)'[c] \in Int
    BY BooksTypedNext DEF BooksType
  <1>3. IsFiniteSet(Orders) /\ IsFiniteSet(Cancels)
    BY DEF FiniteRequests
  <1>4. Sold(p) \in Int /\ HeldByPlacing(p) \in Int /\ HeldByCancelling(p) \in Int
    BY <1>1, <1>3, SumTake DEF Sold, HeldByPlacing, HeldByCancelling
  <1>5. ASSUME NEW o \in Orders, \A q \in Orders \ {o} : SoldOf(p)'[q] = SoldOf(p)[q]
        PROVE  Sold(p)' = Sold(p) + (SoldOf(p)'[o] - SoldOf(p)[o])
    BY <1>1, <1>2, <1>3, <1>5, SumChange DEF Sold
  <1>6. ASSUME NEW o \in Orders,
               \A q \in Orders \ {o} : HeldForPlacing(p)'[q] = HeldForPlacing(p)[q]
        PROVE  HeldByPlacing(p)' =
                  HeldByPlacing(p) + (HeldForPlacing(p)'[o] - HeldForPlacing(p)[o])
    BY <1>1, <1>2, <1>3, <1>6, SumChange DEF HeldByPlacing
  <1>7. ASSUME NEW c \in Cancels,
               \A d \in Cancels \ {c} : HeldForCancelling(p)'[d] = HeldForCancelling(p)[d]
        PROVE  HeldByCancelling(p)' = HeldByCancelling(p)
                  + (HeldForCancelling(p)'[c] - HeldForCancelling(p)[c])
    BY <1>1, <1>2, <1>3, <1>7, SumChange DEF HeldByCancelling
  <1>8. ASSUME \A o \in Orders : HeldForPlacing(p)'[o] <= HeldForPlacing(p)[o]
        PROVE  HeldByPlacing(p)' <= HeldByPlacing(p)
    BY <1>1, <1>2, <1>3, <1>8, SumBelow DEF HeldByPlacing
  <1>9. ASSUME \A c \in Cancels : HeldForCancelling(p)'[c] <= HeldForCancelling(p)[c]
        PROVE  HeldByCancelling(p)' <= HeldByCancelling(p)
    BY <1>1, <1>2, <1>3, <1>9, SumBelow DEF HeldByCancelling
  <1> QED
    BY <1>1, <1>2, <1>4, <1>5, <1>6, <1>7, <1>8, <1>9

-----------------------------------------------------------------------------
(* No step lets the books grow *)

\* A call that has not arrived holds nothing, none gives back more lines than there
\* are, or lines of an order it knows to be stored, and the payment service announces
\* only what this instance of the model lets it.
BooksInv ==
    /\ \A o \in Orders : place[o].pc = "idle" => place[o].reserved = 0
    /\ \A o \in Orders : place[o].released <= Len(Cart[o])
    /\ GivenBackUnknowing
    /\ \A i \in 1..Len(streams["PAYMENTS"]) :
          streams["PAYMENTS"][i].subject \in PaymentOutcomes

GivenType == \A p \in Products, o \in Orders : GivenAwayOf(p)[o] \in Nat

LEMMA GivenTyped == IInv /\ BooksInv => GivenType
  <1> SUFFICES ASSUME IInv, BooksInv, NEW p \in Products, NEW o \in Orders
               PROVE  GivenAwayOf(p)[o] \in Nat
    BY DEF GivenType
  <1>1. place[o].released \in Nat /\ place[o].released <= Len(Cart[o])
    BY DEF IInv, TypeOK, BooksInv
  <1>2. 1 \in Nat \ {0}
    OBVIOUS
  <1>3. Units(o, p, 1, place[o].released) \in Nat
    BY <1>1, <1>2, UnitsSpan
  <1> QED
    BY <1>3 DEF GivenAwayOf

LEMMA GivenTypedNext == IInv' /\ BooksInv' => GivenType'
  BY GivenTyped, PTL

\* The sum of what was given away, and what one entry that changes does to it.
LEMMA GivenMoves ==
    ASSUME FiniteRequests, IInv, IInv', BooksInv, BooksInv', NEW p \in Products
    PROVE  /\ GivenAway(p) \in Nat /\ GivenAway(p)' \in Nat
           /\ \A o \in Orders :
                 (\A q \in Orders \ {o} : GivenAwayOf(p)'[q] = GivenAwayOf(p)[q])
                    => GivenAway(p)' = GivenAway(p) + (GivenAwayOf(p)'[o] - GivenAwayOf(p)[o])
  <1>1. \A o \in Orders : GivenAwayOf(p)[o] \in Nat /\ GivenAwayOf(p)[o] \in Int
    BY GivenTyped DEF GivenType
  <1>2. \A o \in Orders : GivenAwayOf(p)'[o] \in Nat /\ GivenAwayOf(p)'[o] \in Int
    BY GivenTypedNext DEF GivenType
  <1>3. IsFiniteSet(Orders)
    BY DEF FiniteRequests
  <1>4. GivenAway(p) \in Nat /\ GivenAway(p)' \in Nat
    BY <1>1, <1>2, <1>3, SumNat DEF GivenAway
  <1>5. ASSUME NEW o \in Orders,
               \A q \in Orders \ {o} : GivenAwayOf(p)'[q] = GivenAwayOf(p)[q]
        PROVE  GivenAway(p)' = GivenAway(p) + (GivenAwayOf(p)'[o] - GivenAwayOf(p)[o])
    BY <1>1, <1>2, <1>3, <1>5, SumChange DEF GivenAway
  <1> QED
    BY <1>4, <1>5

\* What a step does to the units of p that are accounted for: it adds none but
\* those that PlaceOrder gives away.
Kept(p) ==
    /\ Accounted(p)' <= Accounted(p) + (GivenAway(p)' - GivenAway(p))
    /\ faults' = 0 /\ "payments.failed" \notin PaymentOutcomes => Accounted(p)' = Accounted(p)

\* A line moves its units out of the stock and back.
LEMMA LineMoves ==
    ASSUME TypeOK, NEW o \in Orders, NEW n \in 1..Len(Cart[o]), NEW p \in Products
    PROVE  /\ ReserveStock(Cart[o][n].product, Cart[o][n].quantity)
                 => stock'[p] = stock[p] - LineUnits(o, p)[n]
           /\ ReleaseStock(Cart[o][n].product, Cart[o][n].quantity)
                 => stock'[p] = stock[p] + LineUnits(o, p)[n]
           /\ UNCHANGED stock => stock'[p] = stock[p]
           /\ stock[p] \in Nat /\ LineUnits(o, p)[n] \in Nat
  <1>1. Cart[o][n].product \in Products /\ Cart[o][n].quantity \in Nat
    BY CartLine
  <1>2. stock \in [Products -> Nat]
    BY DEF TypeOK, StockType
  <1>3. LineUnits(o, p)[n] = IF Cart[o][n].product = p THEN Cart[o][n].quantity ELSE 0
    BY DEF LineUnits
  <1> QED
    BY <1>1, <1>2, <1>3 DEF ReserveStock, Available, ReleaseStock

\* A failure counts.
LEMMA FaultShows ==
    ASSUME TypeOK, NEW kind, Fault(kind)
    PROVE  faults' # 0
  <1>1. faults \in Nat /\ faults' = faults + 1
    BY FaultsAssumption DEF TypeOK, FaultsType, Fault
  <1> QED
    BY <1>1

LEMMA SoldFollowsStatus ==
    ASSUME NEW q \in Orders, NEW p
    PROVE  /\ StatusOf(q)' = StatusOf(q) => SoldOf(p)'[q] = SoldOf(p)[q]
           /\ StatusOf(q) \in {"none", "cancelled"} => SoldOf(p)[q] = 0
           /\ StatusOf(q)' \in {"none", "cancelled"} => SoldOf(p)'[q] = 0
           /\ StatusOf(q) \in {"pending", "paid"} => SoldOf(p)[q] = AllUnits(q, p)
           /\ StatusOf(q)' \in {"pending", "paid"} => SoldOf(p)'[q] = AllUnits(q, p)
  <1>1. AllUnits(q, p)' = AllUnits(q, p)
    BY DEF AllUnits, Units, LineUnits
  <1>2. SoldOf(p)'[q] = IF StatusOf(q)' \in {"pending", "paid"} THEN AllUnits(q, p) ELSE 0
    BY <1>1 DEF SoldOf
  <1>3. SoldOf(p)[q] = IF StatusOf(q) \in {"pending", "paid"} THEN AllUnits(q, p) ELSE 0
    BY DEF SoldOf
  <1> QED
    BY <1>2, <1>3

\* While the store stays as it is, so does what is sold.
LEMMA SoldStays ==
    ASSUME UNCHANGED store, NEW p
    PROVE  (\A q \in Orders : SoldOf(p)'[q] = SoldOf(p)[q]) /\ Sold(p)' = Sold(p)
  <1>1. \A q \in Orders : StatusOf(q)' = StatusOf(q)
    BY DEF StatusOf, CurrentOrder, Load, LoadFromEvents, Newest
  <1>2. SoldOf(p)' = SoldOf(p)
    BY <1>1 DEF SoldOf, AllUnits, Units, LineUnits
  <1> QED
    BY <1>2 DEF Sold

\* Neither do calls that do not move change what they hold or have given away.
LEMMA HeldStays ==
    ASSUME NEW p
    PROVE  /\ UNCHANGED cancel => HeldByCancelling(p)' = HeldByCancelling(p)
           /\ \A c \in Cancels : cancel'[c] = cancel[c] =>
                 HeldForCancelling(p)'[c] = HeldForCancelling(p)[c]
           /\ \A o \in Orders : Created(o)' = Created(o) /\ place'[o] = place[o] =>
                 HeldForPlacing(p)'[o] = HeldForPlacing(p)[o]
           /\ \A o \in Orders :
                 Created(o)' = Created(o) /\ place'[o].released = place[o].released =>
                 GivenAwayOf(p)'[o] = GivenAwayOf(p)[o]
  BY DEF HeldForPlacing, HeldByCancelling, HeldForCancelling, GivenAwayOf, Units, LineUnits

\* A step that stores no created event and moves no PlaceOrder call leaves what
\* these hold and have given away as it is.
LEMMA PlacingStays ==
    ASSUME \A q \in Orders : Created(q)' = Created(q), UNCHANGED place, NEW p
    PROVE  HeldByPlacing(p)' = HeldByPlacing(p) /\ GivenAway(p)' = GivenAway(p)
  <1>1. HeldForPlacing(p)' = HeldForPlacing(p)
    BY DEF HeldForPlacing, Units, LineUnits
  <1>2. GivenAwayOf(p)' = GivenAwayOf(p)
    BY DEF GivenAwayOf, Units, LineUnits
  <1> QED
    BY <1>1, <1>2 DEF HeldByPlacing, GivenAway

\* Only a created event creates an order, and only its own.
LEMMA CreatedStays ==
    ASSUME NEW q
    PROVE  /\ UNCHANGED store => Created(q)' = Created(q)
           /\ \A e : Commit(e) /\ (e.version # 1 \/ e.order # q) => Created(q)' = Created(q)
  <1>1. CASE UNCHANGED store
    BY <1>1 DEF Created
  <1>2. ASSUME NEW e, Commit(e), e.version # 1 \/ e.order # q
        PROVE  Created(q)' = Created(q)
    BY <1>2 DEF Created, Commit
  <1> QED
    BY <1>1, <1>2

\* PlaceOrder: a line leaves the stock and is held, is given back, or is sold
\* with all the others at the moment the created event is stored.
LEMMA PlaceBooks ==
    ASSUME FiniteRequests, IInv, IInv', BooksInv, BooksInv',
           NEW o \in Orders, PlaceStart(o) \/ PlaceStep(o), NEW p \in Products
    PROVE  Kept(p)
  <1> USE DEF IInv, HandlersInv
  <1> DEFINE held == HeldForPlacing(p)[o]
             heldNext == HeldForPlacing(p)'[o]
             sold == SoldOf(p)[o]
             soldNext == SoldOf(p)'[o]
             given == GivenAwayOf(p)[o]
             givenNext == GivenAwayOf(p)'[o]
             change == (stock'[p] - stock[p]) + (heldNext - held) + (soldNext - sold)
             r == place[o].reserved
             l == place[o].released
             len == Len(Cart[o])
  <1>1. UNCHANGED cancel /\ \A q \in Orders \ {o} : place'[q] = place[q]
    BY DEF PlaceStart, PlaceStep, ReserveLine, ReserveRefused, ReserveReplyLost, RollbackLine,
           PlaceAppend, PlaceAppendFails, PlacePublish, FailPlace, PlaceGoes, TypeOK
  <1>2. UNCHANGED store \/ Commit(OrderCreated(o))
    BY DEF PlaceStart, PlaceStep, ReserveLine, ReserveRefused, ReserveReplyLost, RollbackLine,
           PlaceAppend, PlaceAppendFails, PlacePublish
  <1>3. \A q \in Orders \ {o} : SoldOf(p)'[q] = SoldOf(p)[q]
    <2>1. OrderCreated(o).order = o
      BY DEF OrderCreated
    <2>2. CASE UNCHANGED store
      BY <2>2, SoldStays
    <2>3. CASE Commit(OrderCreated(o))
      <3>1. \A q \in Orders \ {o} : StatusOf(q)' = StatusOf(q)
        BY <2>1, <2>3, OthersUnchanged
      <3> QED
        BY <3>1, SoldFollowsStatus
    <2> QED
      BY <1>2, <2>2, <2>3
  <1>3a. \A q \in Orders \ {o} : Created(q)' = Created(q)
    <2>1. OrderCreated(o).order = o
      BY DEF OrderCreated
    <2> QED
      BY <1>2, <2>1, CreatedStays
  <1>4. /\ held \in Nat /\ heldNext \in Nat /\ sold \in Nat /\ soldNext \in Nat
        /\ stock[p] \in Nat /\ stock'[p] \in Nat
        /\ given \in Nat /\ givenNext \in Nat
    BY BooksTyped, BooksTypedNext, GivenTyped, GivenTypedNext DEF BooksType, GivenType
  <1>4a. GivenAway(p)' = GivenAway(p) + (givenNext - given) /\ GivenAway(p) \in Nat
    BY <1>1, <1>3a, HeldStays, GivenMoves
  <1>5. Accounted(p)' = Accounted(p) + change /\ Accounted(p) \in Int
    <2>1. Sold(p)' = Sold(p) + (soldNext - sold)
      BY <1>3, BooksMove
    <2>2. HeldByPlacing(p)' = HeldByPlacing(p) + (heldNext - held)
      BY <1>1, <1>3a, HeldStays, BooksMove
    <2>3. HeldByCancelling(p)' = HeldByCancelling(p)
      BY <1>1, HeldStays
    <2>4. Sold(p) \in Int /\ HeldByPlacing(p) \in Int /\ HeldByCancelling(p) \in Int
      BY BooksMove
    <2> HIDE DEF held, heldNext, sold, soldNext
    <2> QED
      BY <1>4, <2>1, <2>2, <2>3, <2>4 DEF Accounted
  <1>6. SUFFICES /\ change <= givenNext - given
                 /\ faults' = 0 => change = 0
    <2> HIDE DEF change, given, givenNext
    <2>1. change \in Int
      BY <1>4 DEF change
    <2> QED
      BY <1>4, <1>4a, <1>5, <2>1 DEF Kept
  <1>7. /\ place \in [Orders -> [pc : PlacePcs, reserved : Nat, released : Nat]]
        /\ r \in Nat /\ l \in Nat /\ len \in Nat
    BY CartLine DEF TypeOK
  <1>8. /\ held = IF place[o].pc \in {"reserving", "rollback"} /\ ~Created(o)
                  THEN Units(o, p, l + 1, r) ELSE 0
        /\ heldNext = IF place'[o].pc \in {"reserving", "rollback"} /\ ~Created(o)'
                      THEN Units(o, p, place'[o].released + 1, place'[o].reserved) ELSE 0
        /\ given = IF Created(o) THEN Units(o, p, 1, l) ELSE 0
        /\ givenNext = IF Created(o)' THEN Units(o, p, 1, place'[o].released) ELSE 0
    BY DEF HeldForPlacing, GivenAwayOf, Units, LineUnits
  <1>9. UNCHANGED store => soldNext = sold /\ Created(o)' = Created(o)
    BY SoldStays, CreatedStays
  <1>10. place[o].pc \in {"idle", "reserving"} => ~Created(o) /\ l = 0 /\ r <= len
    BY <1>7 DEF PlaceInv, Created, Load
  <1>10a. place[o].pc = "reserving" => held = Units(o, p, 1, r)
    BY <1>8, <1>10
  <1>11. Units(o, p, 1, 0) = 0
    <2>1. 1..0 = {}
      OBVIOUS
    <2> QED
      BY <2>1, FS_EmptySet, SumTake DEF Units
  <1>11a. place[o].pc \in {"idle", "reserving"} => given = 0
    BY <1>8, <1>10
  <1>11b. place[o].pc \in {"idle", "reserving"} /\ place'[o].released = l => givenNext = 0
    BY <1>8, <1>10, <1>11
  <1>12. ASSUME FailPlace(o), place[o].pc = "reserving"
         PROVE  place'[o].released = l /\ heldNext = IF Created(o)' THEN 0 ELSE held
    <2>1. place'[o] = [place[o] EXCEPT !.pc = IF r = 0 THEN "failed" ELSE "rollback"]
      BY <1>7, <1>12 DEF FailPlace, PlaceGoes
    <2>2. CASE r = 0
      BY <1>7, <1>8, <1>10a, <1>11, <1>12, <2>1, <2>2
    <2>3. CASE r # 0
      <3>1. place'[o].pc = "rollback" /\ place'[o].released = l /\ place'[o].reserved = r
        BY <1>7, <2>1, <2>3
      <3> QED
        BY <1>8, <1>10, <1>12, <3>1
    <2> QED
      BY <2>2, <2>3
  <1> HIDE DEF held, heldNext, sold, soldNext, given, givenNext
  <1>13. CASE PlaceStart(o)
    <2>1. /\ place[o].pc = "idle" /\ place'[o] = [place[o] EXCEPT !.pc = "reserving"]
          /\ stock' = stock /\ store' = store
      BY <1>7, <1>13 DEF PlaceStart, PlaceGoes
    <2>2. r = 0 /\ l = 0
      BY <2>1 DEF BooksInv, PlaceInv
    <2>3. held = 0 /\ heldNext = 0 /\ place'[o].released = l
      BY <1>7, <1>8, <1>11, <2>1, <2>2
    <2> QED
      BY <1>4, <1>9, <1>11a, <1>11b, <2>1, <2>3
  <1>14. ASSUME Reserving(o)
         PROVE  /\ r + 1 \in 1..len /\ NextLine(o) = Cart[o][r + 1]
                /\ Units(o, p, 1, r + 1) = LineUnits(o, p)[r + 1] + held
    <2>1. place[o].pc = "reserving" /\ r + 1 <= len
      BY <1>7, <1>14 DEF Reserving
    <2>2. r + 1 \in Nat /\ r + 1 >= 1 /\ (r + 1) - 1 = r
      BY <1>7
    <2>3. Units(o, p, 1, r + 1) = LineUnits(o, p)[r + 1] + Units(o, p, 1, (r + 1) - 1)
      <3> DEFINE to == r + 1
      <3>1. to \in Nat /\ 1 <= to /\ to <= len
        BY <2>1, <2>2
      <3> HIDE DEF to
      <3>2. Units(o, p, 1, to) = LineUnits(o, p)[to] + Units(o, p, 1, to - 1)
        BY <3>1, UnitsSpan
      <3> QED
        BY <3>2 DEF to
    <2> QED
      BY <1>7, <1>10, <1>10a, <2>1, <2>2, <2>3 DEF NextLine
  <1>15. CASE ReserveLine(o)
    <2>1. Reserving(o) /\ ReserveStock(NextLine(o).product, NextLine(o).quantity)
      BY <1>15 DEF ReserveLine
    <2>2. stock'[p] = stock[p] - LineUnits(o, p)[r + 1] /\ LineUnits(o, p)[r + 1] \in Nat
      BY <1>14, <2>1, LineMoves
    <2>3. place'[o] = [place[o] EXCEPT !.reserved = @ + 1] /\ place[o].pc = "reserving"
      BY <1>7, <1>15, <2>1 DEF ReserveLine, Reserving
    <2>4. place'[o].pc = "reserving" /\ place'[o].released = 0 /\ place'[o].reserved = r + 1
      BY <1>7, <1>10, <2>3
    <2>5. soldNext = sold /\ Created(o)' = Created(o)
      BY <1>9, <1>15 DEF ReserveLine
    <2>6. heldNext = LineUnits(o, p)[r + 1] + held
      BY <1>8, <1>10, <1>14, <2>1, <2>3, <2>4, <2>5
    <2>7. given = 0 /\ givenNext = 0
      BY <1>10, <1>11a, <1>11b, <2>3, <2>4
    <2> QED
      BY <1>4, <2>2, <2>5, <2>6, <2>7
  <1>16. CASE ReserveRefused(o)
    <2>1. FailPlace(o) /\ place[o].pc = "reserving" /\ stock' = stock /\ store' = store
      BY <1>16 DEF ReserveRefused, Reserving
    <2>2. heldNext = held /\ soldNext = sold /\ given = 0 /\ givenNext = 0
      BY <1>9, <1>10, <1>11a, <1>11b, <1>12, <2>1
    <2> QED
      BY <1>4, <2>1, <2>2
  <1>17. CASE ReserveReplyLost(o)
    <2>1. /\ Reserving(o) /\ ReserveStock(NextLine(o).product, NextLine(o).quantity)
          /\ FailPlace(o) /\ place[o].pc = "reserving" /\ store' = store
      BY <1>17 DEF ReserveReplyLost, Reserving
    <2>2. stock'[p] = stock[p] - LineUnits(o, p)[r + 1] /\ LineUnits(o, p)[r + 1] \in Nat
      BY <1>14, <2>1, LineMoves
    <2>3. faults' # 0
      BY <1>17, FaultShows DEF ReserveReplyLost
    <2>4. heldNext = held /\ soldNext = sold /\ given = 0 /\ givenNext = 0
      BY <1>9, <1>10, <1>11a, <1>11b, <1>12, <2>1
    <2> QED
      BY <1>4, <2>2, <2>3, <2>4
  <1>18. CASE RollbackLine(o)
    <2>1. /\ place[o].pc = "rollback" /\ l < r /\ r <= len
          /\ place'[o] = [pc |-> IF l + 1 = r THEN "failed" ELSE "rollback",
                          reserved |-> r, released |-> l + 1]
          /\ store' = store
      BY <1>7, <1>18 DEF RollbackLine, PlaceInv
    <2>2. l + 1 \in 1..len /\ l + 1 \in Nat \ {0} /\ l + 1 <= r /\ r <= len /\ (l + 1) + 1 \in Nat \ {0}
      BY <1>7, <2>1
    <2>3. held = IF Created(o) THEN 0 ELSE LineUnits(o, p)[l + 1] + Units(o, p, (l + 1) + 1, r)
      <3> DEFINE from == l + 1
      <3>2. from \in Nat \ {0} /\ from <= r /\ r \in Nat /\ r <= Len(Cart[o])
        BY <1>7, <2>2
      <3> HIDE DEF from
      <3>1. Units(o, p, from, r) = LineUnits(o, p)[from] + Units(o, p, from + 1, r)
        BY <3>2, UnitsSpan
      <3> QED
        BY <1>8, <2>1, <3>1 DEF from
    <2>4. heldNext = IF Created(o) THEN 0 ELSE Units(o, p, (l + 1) + 1, r)
      <3>1. CASE l + 1 = r
        <4>1. heldNext = 0
          BY <1>8, <2>1, <3>1
        <4>2. (l + 1) + 1 > r
          BY <1>7, <3>1
        <4>3. Units(o, p, (l + 1) + 1, r) = 0
          BY <1>7, <2>2, <4>2, UnitsSpan
        <4> QED
          BY <4>1, <4>3
      <3>2. CASE l + 1 # r
        BY <1>8, <1>9, <2>1, <3>2
      <3> QED
        BY <3>1, <3>2
    <2>5. LineUnits(o, p)[l + 1] \in Nat
      BY <2>2, LineMoves
    <2>6. \/ stock'[p] = stock[p] + LineUnits(o, p)[l + 1]
          \/ stock'[p] = stock[p] /\ faults' # 0
      <3>1. CASE ReleaseStock(Cart[o][l + 1].product, Cart[o][l + 1].quantity)
        BY <2>2, <3>1, LineMoves
      <3>2. CASE UNCHANGED stock /\ Fault("release_lost")
        BY <3>2, FaultShows
      <3> QED
        BY <1>18, <3>1, <3>2 DEF RollbackLine
    <2>7. soldNext = sold
      BY <1>9, <2>1
    <2>8. given = (IF Created(o) THEN Units(o, p, 1, l) ELSE 0)
          /\ givenNext = IF Created(o) THEN LineUnits(o, p)[l + 1] + Units(o, p, 1, l) ELSE 0
      <3> DEFINE to == l + 1
      <3>1. to \in Nat /\ 1 <= to /\ to <= Len(Cart[o]) /\ to - 1 = l
        BY <1>7, <2>2
      <3>2. 1 \in Nat \ {0}
        OBVIOUS
      <3> HIDE DEF to
      <3>3. Units(o, p, 1, to) = LineUnits(o, p)[to] + Units(o, p, 1, to - 1)
        BY <3>1, <3>2, UnitsSpan
      <3>4. place'[o].released = to
        BY <2>1 DEF to
      <3> QED
        BY <1>8, <1>9, <2>1, <3>1, <3>3, <3>4 DEF to
    <2>9. Created(o) => faults' # 0
      <3>1. Created(o) => faults # 0
        BY <2>1 DEF BooksInv, GivenBackUnknowing
      <3>2. faults \in Nat /\ (faults' = faults \/ faults' = faults + 1)
        BY <1>18, FaultsAssumption DEF TypeOK, FaultsType, RollbackLine, NoFault, Fault
      <3> QED
        BY <3>1, <3>2
    <2> HIDE DEF l, r
    <2>10. CASE Created(o)
      <3>1. held = 0 /\ heldNext = 0 /\ givenNext = LineUnits(o, p)[l + 1] + given
        BY <2>3, <2>4, <2>8, <2>10
      <3> QED
        BY <1>4, <2>5, <2>6, <2>7, <2>9, <2>10, <3>1
    <2>11. CASE ~Created(o)
      <3>1. held = LineUnits(o, p)[l + 1] + heldNext /\ given = 0 /\ givenNext = 0
        BY <2>3, <2>4, <2>8, <2>11
      <3> QED
        BY <1>4, <2>5, <2>6, <2>7, <3>1
    <2> QED
      BY <2>10, <2>11
  <1>19. ASSUME FullyReserved(o)
         PROVE  place[o].pc = "reserving" /\ held = AllUnits(o, p)
    BY <1>10a, <1>19 DEF FullyReserved, AllUnits
  <1>19a. ASSUME FullyReserved(o), Commit(OrderCreated(o)),
                 PlaceAppend(o) \/ PlaceAppendFails(o)
          PROVE  sold = 0 /\ soldNext = AllUnits(o, p) /\ Created(o)'
    <2>1. OrderStored(o)
      BY <1>19a DEF OrderStored
    <2>2. StatusNow[o] = "none" /\ StatusNow'[o] = "pending"
      <3>1. StatusNow[o] = "none" /\ StatusNow' = [StatusNow EXCEPT ![o] = "pending"]
        BY <2>1, PlacingStatus
      <3>2. DOMAIN StatusNow = Orders
        BY DEF StatusNow
      <3> HIDE DEF IInv
      <3> QED
        BY <3>1, <3>2
    <2>3. StatusOf(o) = "none" /\ StatusOf(o)' = "pending"
      BY <2>2 DEF StatusNow
    <2>4. OrderCreated(o).order = o /\ OrderCreated(o).version = 1
      BY DEF OrderCreated, NewOrder
    <2>5. Created(o)'
      BY <1>19a, <2>4 DEF Commit, Created
    <2> QED
      BY <2>3, <2>5, SoldFollowsStatus DEF sold, soldNext
  <1>20. CASE PlaceAppend(o)
    <2>1. FullyReserved(o) /\ stock' = stock
          /\ place' = [place EXCEPT ![o].pc = "publishing"]
      BY <1>20 DEF PlaceAppend, PlaceGoes
    <2>2. place'[o].pc = "publishing" /\ place'[o].released = l
      BY <1>7, <2>1
    <2>3. heldNext = 0
      BY <1>8, <2>2
    <2>4. sold = 0 /\ soldNext = AllUnits(o, p)
      BY <1>19a, <1>20 DEF PlaceAppend
    <2>5. given = 0 /\ givenNext = 0
      BY <1>10, <1>11a, <1>11b, <1>19, <2>1, <2>2
    <2> QED
      BY <1>4, <1>19, <2>1, <2>3, <2>4, <2>5
  <1>21. CASE PlaceAppendFails(o)
    <2>1. faults' # 0
      BY <1>21, FaultShows DEF PlaceAppendFails
    <2>2. FullyReserved(o) /\ FailPlace(o) /\ stock' = stock
          /\ (store' = store \/ Commit(OrderCreated(o)))
      BY <1>21 DEF PlaceAppendFails
    <2>3. place[o].pc = "reserving" /\ held = AllUnits(o, p)
      BY <1>19, <2>2
    <2>4. place'[o].released = l /\ heldNext = IF Created(o)' THEN 0 ELSE held
      BY <1>12, <2>2, <2>3
    <2>5. given = 0 /\ givenNext = 0
      BY <1>11a, <1>11b, <2>3, <2>4
    <2>6. CASE store' = store
      <3>1. heldNext = held /\ soldNext = sold
        BY <1>9, <1>10, <2>3, <2>4, <2>6
      <3> QED
        BY <1>4, <2>1, <2>2, <2>5, <3>1
    <2>7. CASE Commit(OrderCreated(o))
      <3>1. sold = 0 /\ soldNext = AllUnits(o, p) /\ heldNext = 0
        BY <1>19a, <1>21, <2>2, <2>4, <2>7
      <3> QED
        BY <1>4, <2>1, <2>2, <2>3, <2>5, <3>1
    <2> QED
      BY <2>2, <2>6, <2>7
  <1>22. CASE PlacePublish(o)
    <2>1. /\ place[o].pc = "publishing" /\ place' = [place EXCEPT ![o].pc = "done"]
          /\ stock' = stock /\ store' = store
      BY <1>22 DEF PlacePublish, PlaceGoes
    <2>2. place'[o].pc = "done" /\ place'[o].released = l
      BY <1>7, <2>1
    <2>3. held = 0 /\ heldNext = 0 /\ soldNext = sold /\ givenNext = given
      BY <1>8, <1>9, <2>1, <2>2
    <2> QED
      BY <1>4, <2>1, <2>3
  <1> QED
    BY <1>13, <1>15, <1>16, <1>17, <1>18, <1>20, <1>21, <1>22 DEF PlaceStep

\* An outcome that is stored takes the units of a cancelled order off what is
\* sold, and leaves those of a paid one.
LEMMA OutcomeBooks ==
    ASSUME FiniteRequests, IInv, IInv', NEW e \in StoredEvent, OutcomeStored(e), NEW p \in Products
    PROVE  /\ e.order \in Orders /\ AllUnits(e.order, p) \in Nat
           /\ Sold(p) \in Int /\ Sold(p)' \in Int
           /\ \/ e.type = EventOrderPaid /\ Sold(p)' = Sold(p)
              \/ e.type = EventOrderCancelled /\ Sold(p)' = Sold(p) - AllUnits(e.order, p)
  <1> DEFINE x == e.order
  <1>1. /\ x \in Orders /\ StatusNow[x] = "pending"
        /\ StatusAfter(e.type) \in {"paid", "cancelled"}
        /\ StatusNow' = [StatusNow EXCEPT ![x] = StatusAfter(e.type)]
    BY OutcomeStatus
  <1>2. StatusOf(x) = "pending" /\ StatusOf(x)' = StatusAfter(e.type)
    <2>1. StatusNow'[x] = StatusAfter(e.type)
      <3>1. DOMAIN StatusNow = Orders
        BY DEF StatusNow
      <3> QED
        BY <1>1, <3>1
    <2> QED
      BY <1>1, <2>1 DEF StatusNow
  <1>3. \A q \in Orders \ {x} : SoldOf(p)'[q] = SoldOf(p)[q]
    <2>1. \A q \in Orders \ {x} : StatusOf(q)' = StatusOf(q)
      BY OthersUnchanged DEF OutcomeStored
    <2> QED
      BY <2>1, SoldFollowsStatus
  <1>4. Sold(p)' = Sold(p) + (SoldOf(p)'[x] - SoldOf(p)[x]) /\ Sold(p) \in Int
    BY <1>1, <1>3, BooksMove
  <1>5. AllUnits(x, p) \in Nat
    <2>1. \A o \in Orders : AllUnits(o, p) \in Nat
      BY UnitsToEnd DEF AllUnits
    <2> QED
      BY <1>1, <2>1
  <1>6. SoldOf(p)[x] = AllUnits(x, p)
    BY <1>1, <1>2, SoldFollowsStatus
  <1>7. e.type = EventOrderPaid \/ e.type = EventOrderCancelled
    BY DEF StoredEvent, EventTypes, OutcomeStored
  <1>8. CASE e.type = EventOrderPaid
    <2>1. SoldOf(p)'[x] = AllUnits(x, p)
      BY <1>1, <1>2, <1>8, StatusAfterTypes, SoldFollowsStatus
    <2> HIDE DEF x
    <2> QED
      BY <1>1, <1>4, <1>5, <1>6, <1>8, <2>1 DEF x
  <1>9. CASE e.type = EventOrderCancelled
    <2>1. SoldOf(p)'[x] = 0
      BY <1>1, <1>2, <1>9, StatusAfterTypes, SoldFollowsStatus
    <2> QED
      BY <1>1, <1>4, <1>5, <1>6, <1>9, <2>1
  <1> QED
    BY <1>7, <1>8, <1>9

\* CancelOrder: the units of an order go from sold to held at the moment the
\* cancellation is stored, and line by line into the stock.
LEMMA CancelBooks ==
    ASSUME FiniteRequests, IInv, IInv', BooksInv, BooksInv', NEW c \in Cancels,
           CancelStep(c) \/ \E o \in Orders : CancelLoad(c, o), NEW p \in Products
    PROVE  Kept(p)
  <1> USE DEF IInv, HandlersInv
  <1> DEFINE held == HeldForCancelling(p)[c]
             heldNext == HeldForCancelling(p)'[c]
             change == (stock'[p] - stock[p]) + (heldNext - held) + (Sold(p)' - Sold(p))
             x == cancel[c].order
             l == cancel[c].released
             len == Len(Cart[x])
  <1>1. UNCHANGED place /\ \A d \in Cancels \ {c} : cancel'[d] = cancel[d]
    BY DEF CancelStep, CancelAppend, CancelAppendFails, CancelRelease, CancelPublish, CancelLoad,
           CancelGoes, TypeOK
  <1>2. held \in Nat /\ heldNext \in Nat /\ stock[p] \in Nat /\ stock'[p] \in Nat
    BY BooksTyped, BooksTypedNext DEF BooksType
  <1>3. UNCHANGED store => Sold(p)' = Sold(p)
    BY SoldStays
  <1>4. ASSUME Commit(CancelChange(c)), cancel[c].pc = "persisting"
        PROVE  x \in Orders /\ AllUnits(x, p) \in Nat /\ Sold(p)' = Sold(p) - AllUnits(x, p)
    <2> DEFINE e == CancelChange(c)
    <2>1. x \in Orders /\ cancel[c].version = 1 /\ Created(x)
      BY <1>4 DEF CancelInv
    <2>2. e \in StoredEvent /\ e.order = x
      BY <2>1, EventTypesOK DEF CancelChange, OrderCancelled
    <2>3. e.version = 2 /\ e.type = EventOrderCancelled /\ e.type # EventOrderCreated
          /\ e.type # EventOrderPaid
      BY <2>1 DEF CancelChange, OrderCancelled, EventOrderCancelled, EventOrderCreated,
                  EventOrderPaid
    <2>4. OutcomeStored(e)
      BY <1>1, <1>4, <2>1, <2>2, <2>3 DEF OutcomeStored
    <2> HIDE DEF e
    <2> QED
      BY <2>1, <2>2, <2>3, <2>4, OutcomeBooks
  <1>5. Sold(p) \in Int /\ HeldByPlacing(p) \in Int /\ HeldByCancelling(p) \in Int
    BY BooksMove
  <1>5a. HeldByPlacing(p)' = HeldByPlacing(p) /\ GivenAway(p)' = GivenAway(p) /\ GivenAway(p) \in Nat
    <2>1. UNCHANGED store \/ (cancel[c].pc = "persisting" /\ Commit(CancelChange(c)))
      BY DEF CancelStep, CancelAppend, CancelAppendFails, CancelRelease, CancelPublish, CancelLoad
    <2>2. cancel[c].pc = "persisting" => CancelChange(c).version # 1
      <3>1. cancel[c].pc = "persisting" => cancel[c].version = 1
        BY DEF CancelInv
      <3> QED
        BY <3>1 DEF CancelChange, OrderCancelled
    <2>3. \A q \in Orders : Created(q)' = Created(q)
      BY <2>1, <2>2, CreatedStays
    <2> QED
      BY <1>1, <2>3, PlacingStays, GivenMoves
  <1>6. CASE Sold(p)' \in Int
    <2>1. Accounted(p)' = Accounted(p) + change /\ Accounted(p) \in Int /\ change \in Int
      <3>1. HeldByCancelling(p)' = HeldByCancelling(p) + (heldNext - held)
        BY <1>1, HeldStays, BooksMove
      <3> HIDE DEF held, heldNext
      <3> QED
        BY <1>2, <1>5, <1>5a, <1>6, <3>1 DEF Accounted
    <2>2. SUFFICES change <= 0 /\ (faults' = 0 => change = 0)
      <3> HIDE DEF change
      <3> QED
        BY <1>5a, <2>1 DEF Kept
    <2>3. cancel \in [Cancels -> [pc : CancelPcs, order : Orders \cup {NoOrder},
                                  version : Nat, released : Nat]]
      BY DEF TypeOK
    <2>4. /\ held = IF cancel[c].pc = "releasing" THEN Units(x, p, l + 1, len) ELSE 0
          /\ heldNext = IF cancel'[c].pc = "releasing"
                        THEN Units(cancel'[c].order, p, cancel'[c].released + 1,
                                   Len(Cart[cancel'[c].order])) ELSE 0
      BY DEF HeldForCancelling, Units, LineUnits
    <2> HIDE DEF held, heldNext
    <2>5. CASE \E o \in Orders : CancelLoad(c, o)
      <3>1. cancel[c].pc = "idle" /\ stock' = stock /\ store' = store
        BY <2>5 DEF CancelLoad
      <3>2. PICK o \in Orders : CancelLoad(c, o)
        BY <2>5
      <3>3. PICK rows \in {Load(o)} \cup PartialLoads(o) :
              LET order == LoadFromEvents(rows)
              IN  cancel' = [cancel EXCEPT ![c] =
                    [pc |-> IF CanChange(order.status) THEN "persisting" ELSE "rejected",
                     order |-> o, version |-> order.version, released |-> 0]]
        BY <3>2 DEF CancelLoad
      <3>4. cancel'[c].pc \in {"persisting", "rejected"}
        BY <2>3, <3>3
      <3> QED
        BY <1>2, <1>3, <1>5, <2>4, <3>1, <3>4
    <2>6. CASE CancelAppend(c)
      <3>1. /\ cancel[c].pc = "persisting" /\ Commit(CancelChange(c)) /\ stock' = stock
            /\ cancel' = [cancel EXCEPT ![c].pc = "releasing"]
        BY <2>6 DEF CancelAppend, CancelGoes
      <3>2. l = 0
        BY <3>1 DEF CancelInv
      <3>3. cancel'[c].pc = "releasing" /\ cancel'[c].order = x /\ cancel'[c].released = 0
        BY <2>3, <3>1, <3>2
      <3>4. heldNext = AllUnits(x, p)
        BY <2>4, <3>3 DEF AllUnits
      <3>5. held = 0
        BY <2>4, <3>1
      <3> QED
        BY <1>2, <1>4, <1>5, <3>1, <3>4, <3>5
    <2>7. CASE CancelAppendFails(c)
      <3>1. /\ cancel[c].pc = "persisting" /\ stock' = stock
            /\ cancel' = [cancel EXCEPT ![c].pc = "rejected"]
        BY <2>7 DEF CancelAppendFails, CancelGoes
      <3>2. cancel'[c].pc = "rejected"
        BY <2>3, <3>1
      <3>3. held = 0 /\ heldNext = 0
        BY <2>4, <3>1, <3>2
      <3>4. \/ store' = store
            \/ Commit(CancelChange(c)) /\ faults' # 0
        <4>1. Fault("commit_unknown") => faults' # 0
          BY FaultShows
        <4> QED
          BY <2>7, <4>1 DEF CancelAppendFails
      <3>5. CASE store' = store
        BY <1>2, <1>3, <1>5, <3>1, <3>3, <3>5
      <3>6. CASE Commit(CancelChange(c)) /\ faults' # 0
        <4>1. AllUnits(x, p) \in Nat /\ Sold(p)' = Sold(p) - AllUnits(x, p)
          BY <1>4, <3>1, <3>6
        <4> QED
          BY <1>2, <1>5, <3>1, <3>3, <3>6, <4>1
      <3> QED
        BY <3>4, <3>5, <3>6
    <2>8. CASE CancelRelease(c)
      <3>1. /\ cancel[c].pc = "releasing" /\ l < len /\ x \in Orders /\ l \in Nat /\ len \in Nat
            /\ cancel'[c] = [pc |-> IF l + 1 = len THEN "publishing" ELSE "releasing",
                             order |-> x, version |-> cancel[c].version, released |-> l + 1]
            /\ store' = store
        <4>1. cancel[c].pc = "releasing" /\ x \in Orders /\ l < len /\ store' = store
          BY <2>8 DEF CancelRelease, CancelInv
        <4>2. l \in Nat /\ len \in Nat
          BY <2>3, <4>1, CartLine
        <4> QED
          BY <2>3, <2>8, <4>1, <4>2 DEF CancelRelease
      <3> DEFINE from == l + 1
      <3>2. /\ from \in 1..len /\ from \in Nat \ {0} /\ from + 1 \in Nat \ {0} /\ from <= len
            /\ (from = len => from + 1 > len)
        <4> HIDE DEF l, len
        <4> QED
          BY <3>1
      <3>3. cancel'[c].released + 1 = from + 1
        BY <3>1
      <3>4. heldNext = IF from = len THEN 0 ELSE Units(x, p, from + 1, len)
        BY <2>4, <3>1, <3>3
      <3>5. held = Units(x, p, from, len)
        BY <2>4, <3>1
      <3> HIDE DEF from
      <3>6. held = LineUnits(x, p)[from] + Units(x, p, from + 1, len)
        BY <3>1, <3>2, <3>5, UnitsToEnd
      <3>7. heldNext = Units(x, p, from + 1, len)
        BY <3>1, <3>2, <3>4, UnitsToEnd
      <3>8. LineUnits(x, p)[from] \in Nat
        BY <3>1, <3>2, LineMoves
      <3>9. \/ stock'[p] = stock[p] + LineUnits(x, p)[from]
            \/ stock'[p] = stock[p] /\ faults' # 0
        <4>1. CASE ReleaseStock(Cart[x][from].product, Cart[x][from].quantity)
          BY <3>1, <3>2, <4>1, LineMoves
        <4>2. CASE UNCHANGED stock /\ Fault("release_lost")
          BY <4>2, FaultShows
        <4> QED
          BY <2>8, <4>1, <4>2 DEF CancelRelease, from
      <3> HIDE DEF l, len, x
      <3> QED
        BY <1>2, <1>3, <1>5, <3>1, <3>6, <3>7, <3>8, <3>9
    <2>9. CASE CancelPublish(c)
      <3>1. /\ cancel[c].pc = "publishing" /\ cancel' = [cancel EXCEPT ![c].pc = "done"]
            /\ stock' = stock /\ store' = store
        BY <2>9 DEF CancelPublish, CancelGoes
      <3>2. cancel'[c].pc = "done"
        BY <2>3, <3>1
      <3> QED
        BY <1>2, <1>3, <1>5, <2>4, <3>1, <3>2
    <2> QED
      BY <2>5, <2>6, <2>7, <2>8, <2>9 DEF CancelStep
  <1>7. Sold(p)' \in Int
    <2>1. CASE UNCHANGED store
      BY <1>3, <1>5, <2>1
    <2>2. CASE Commit(CancelChange(c)) /\ cancel[c].pc = "persisting"
      BY <1>4, <1>5, <2>2
    <2> QED
      BY <2>1, <2>2 DEF CancelStep, CancelAppend, CancelAppendFails, CancelRelease,
         CancelPublish, CancelLoad
  <1> QED
    BY <1>6, <1>7

\* The subscriber: a payment that was completed leaves the books alone.
LEMMA SubBooks ==
    ASSUME FiniteRequests, IInv, IInv', BooksInv, BooksInv', SubStep, NEW p \in Products
    PROVE  Kept(p)
  <1> USE DEF IInv, HandlersInv
  <1>1. UNCHANGED <<stock, place, cancel>>
    BY DEF SubStep, SubHandle, SubAppend, SubAppendFails, SubPublish, SubAck
  <1>2. /\ stock'[p] = stock[p] /\ HeldByPlacing(p)' = HeldByPlacing(p)
        /\ HeldByCancelling(p)' = HeldByCancelling(p)
        /\ stock[p] \in Nat /\ HeldByPlacing(p) \in Int /\ HeldByCancelling(p) \in Int
        /\ Sold(p) \in Int /\ GivenAway(p)' = GivenAway(p) /\ GivenAway(p) \in Nat
    <2>1. UNCHANGED store \/ (sub.pc = "persisting" /\ Commit(SubChange))
      BY DEF SubStep, SubHandle, SubAppend, SubAppendFails, SubPublish, SubAck
    <2>2. sub.pc = "persisting" => SubChange.version # 1
      BY DEF SubInv, SubChange, OrderCancelled, OrderPaid
    <2>3. \A q \in Orders : Created(q)' = Created(q)
      BY <2>1, <2>2, CreatedStays
    <2> QED
      BY <1>1, <2>3, HeldStays, PlacingStays, BooksMove, GivenMoves
  <1>3. CASE UNCHANGED store
    <2>1. Sold(p)' = Sold(p)
      BY <1>3, SoldStays
    <2> QED
      BY <1>2, <2>1 DEF Kept, Accounted
  <1>4. CASE sub.pc = "persisting" /\ Commit(SubChange)
    <2>1. sub.version = 1 /\ Created(SubMessage.order) /\ SubMessage \in Message
          /\ SubChange \in StoredEvent /\ sub.msg \in 1..Len(streams["PAYMENTS"])
      BY <1>4, SubMessageType DEF SubInv
    <2>2. SubChange.version = 2 /\ SubChange.type # EventOrderCreated /\ Created(SubChange.order)
      BY <2>1 DEF SubChange, OrderCancelled, OrderPaid, EventOrderCancelled, EventOrderPaid,
                  EventOrderCreated
    <2>3. OutcomeStored(SubChange)
      BY <1>1, <1>4, <2>2 DEF OutcomeStored
    <2>4. SubMessage.subject \in PaymentOutcomes
      BY <2>1 DEF BooksInv, SubMessage
    <2>5. "payments.failed" \notin PaymentOutcomes => SubChange.type = EventOrderPaid
      BY <2>4, WriteSideAssumption DEF PaymentSubjects, SubChange, OrderPaid
    <2>6. /\ AllUnits(SubChange.order, p) \in Nat
          /\ Sold(p)' = Sold(p) \/ Sold(p)' = Sold(p) - AllUnits(SubChange.order, p)
          /\ "payments.failed" \notin PaymentOutcomes => Sold(p)' = Sold(p)
      BY <2>1, <2>3, <2>5, OutcomeBooks DEF EventOrderPaid, EventOrderCancelled
    <2> QED
      BY <1>2, <2>6 DEF Kept, Accounted
  <1> QED
    BY <1>3, <1>4 DEF SubStep, SubHandle, SubAppend, SubAppendFails, SubPublish, SubAck

\* A crash: what the calls in progress hold is nobody's from then on.
LEMMA CrashBooks ==
    ASSUME FiniteRequests, IInv, IInv', BooksInv, BooksInv', Crash, NEW p \in Products
    PROVE  Kept(p)
  <1> USE DEF IInv, HandlersInv
  <1>1. UNCHANGED <<store, stock>> /\ faults' # 0
    BY FaultShows DEF Crash
  <1>2. Sold(p)' = Sold(p) /\ stock'[p] = stock[p]
        /\ \A q \in Orders : Created(q)' = Created(q)
    BY <1>1, SoldStays, CreatedStays
  <1>3. ASSUME NEW o \in Orders
        PROVE  HeldForPlacing(p)'[o] <= HeldForPlacing(p)[o]
    <2>1. HeldForPlacing(p)[o] \in Nat
      BY BooksTyped DEF BooksType
    <2>2. CASE PlaceInProgress(o)
      <3>1. place'[o].pc = "crashed"
        BY <2>2 DEF Crash, TypeOK
      <3>2. HeldForPlacing(p)'[o] = 0
        BY <3>1 DEF HeldForPlacing
      <3> QED
        BY <2>1, <3>2
    <2>3. CASE ~PlaceInProgress(o)
      <3>1. place'[o] = place[o]
        BY <2>3 DEF Crash
      <3> QED
        BY <1>2, <2>1, <3>1, HeldStays
    <2> QED
      BY <2>2, <2>3
  <1>4. ASSUME NEW c \in Cancels
        PROVE  HeldForCancelling(p)'[c] <= HeldForCancelling(p)[c]
    <2>1. HeldForCancelling(p)[c] \in Nat
      BY BooksTyped DEF BooksType
    <2>2. CASE CancelInProgress(c)
      <3>1. cancel'[c].pc = "crashed"
        BY <2>2 DEF Crash, TypeOK
      <3>2. HeldForCancelling(p)'[c] = 0
        BY <3>1 DEF HeldForCancelling
      <3> QED
        BY <2>1, <3>2
    <2>3. CASE ~CancelInProgress(c)
      <3>1. cancel'[c] = cancel[c]
        BY <2>3 DEF Crash
      <3> QED
        BY <2>1, <3>1, HeldStays
    <2> QED
      BY <2>2, <2>3
  <1>5. HeldByPlacing(p)' <= HeldByPlacing(p) /\ HeldByCancelling(p)' <= HeldByCancelling(p)
    BY <1>3, <1>4, BooksMove
  <1>6. stock[p] \in Nat /\ Sold(p) \in Int /\ HeldByPlacing(p) \in Int /\ HeldByCancelling(p) \in Int
    BY BooksMove
  <1>7. HeldByPlacing(p)' \in Int /\ HeldByCancelling(p)' \in Int
    <2>1. /\ \A o \in Orders : HeldForPlacing(p)'[o] \in Int
          /\ \A c \in Cancels : HeldForCancelling(p)'[c] \in Int
      BY BooksTypedNext DEF BooksType
    <2> QED
      BY <2>1, SumTake DEF HeldByPlacing, HeldByCancelling, FiniteRequests
  <1>8. GivenAway(p)' = GivenAway(p) /\ GivenAway(p) \in Nat
    <2>1. \A o \in Orders : place'[o].released = place[o].released
      BY DEF Crash, TypeOK
    <2>2. GivenAwayOf(p)' = GivenAwayOf(p)
      BY <1>2, <2>1 DEF GivenAwayOf, Units, LineUnits
    <2> QED
      BY <2>2, GivenMoves DEF GivenAway
  <1> QED
    BY <1>1, <1>2, <1>5, <1>6, <1>7, <1>8 DEF Kept, Accounted

LEMMA StepBooks ==
    ASSUME FiniteRequests, IInv, IInv', BooksInv, BooksInv', [Next]_vars, NEW p \in Products
    PROVE  Kept(p)
  <1>1. ASSUME UNCHANGED <<store, stock, place, cancel>>
        PROVE  Kept(p)
    <2>1. /\ Sold(p)' = Sold(p) /\ stock'[p] = stock[p]
          /\ HeldByPlacing(p)' = HeldByPlacing(p) /\ HeldByCancelling(p)' = HeldByCancelling(p)
          /\ GivenAway(p)' = GivenAway(p)
      BY <1>1, SoldStays, HeldStays, CreatedStays, PlacingStays
    <2>2. Accounted(p) \in Int /\ GivenAway(p) \in Nat
      BY BooksMove, GivenMoves DEF Accounted
    <2> QED
      BY <2>1, <2>2 DEF Kept, Accounted
  <1>2. ASSUME \/ \E q \in Payments, o \in Orders, s \in PaymentSubjects : PaymentSettled(q, o, s)
               \/ Shutdown \/ AtRest \/ UNCHANGED vars
        PROVE  UNCHANGED <<store, stock, place, cancel>>
    BY <1>2 DEF PaymentSettled, Shutdown, AtRest, vars
  <1> QED
    BY <1>1, <1>2, PlaceBooks, CancelBooks, SubBooks, CrashBooks DEF Next

-----------------------------------------------------------------------------
(* The theorems *)

\* Failures are counted, never forgotten.
LEMMA StepFaults ==
    ASSUME [Next]_vars
    PROVE  faults' = faults \/ faults' = faults + 1
  <1> USE DEF NoFault, Fault
  <1>1. ASSUME NEW o \in Orders, PlaceStart(o) \/ PlaceStep(o)
        PROVE  faults' = faults \/ faults' = faults + 1
    BY <1>1 DEF PlaceStart, PlaceStep, ReserveLine, ReserveRefused, ReserveReplyLost,
       RollbackLine, PlaceAppend, PlaceAppendFails, PlacePublish, PublishOrIgnore
  <1>2. ASSUME NEW c \in Cancels, CancelStep(c) \/ \E o \in Orders : CancelLoad(c, o)
        PROVE  faults' = faults \/ faults' = faults + 1
    BY <1>2 DEF CancelStep, CancelAppend, CancelAppendFails, CancelRelease, CancelPublish,
       CancelLoad, Loads, PublishOrIgnore
  <1>3. ASSUME SubStep
        PROVE  faults' = faults \/ faults' = faults + 1
    BY <1>3 DEF SubStep, SubHandle, SubAppend, SubAppendFails, SubPublish, SubAck, Loads,
       PublishOrIgnore
  <1>4. ASSUME \/ \E p \in Payments, o \in Orders, s \in PaymentSubjects : PaymentSettled(p, o, s)
               \/ Crash \/ Shutdown \/ AtRest \/ UNCHANGED vars
        PROVE  faults' = faults \/ faults' = faults + 1
    BY <1>4 DEF PaymentSettled, Crash, Shutdown, AtRest, vars
  <1> QED
    BY <1>1, <1>2, <1>3, <1>4 DEF Next

\* An order comes to be only by its own PlaceOrder call.
LEMMA CreatedByPlacing ==
    ASSUME IInv, [Next]_vars, NEW o \in Orders, Created(o)' # Created(o)
    PROVE  OrderStored(o)
  <1>1. ASSUME NEW q \in Orders, OrderStored(q)
        PROVE  q = o
    <2>1. Commit(OrderCreated(q)) /\ OrderCreated(q).order = q
      BY <1>1 DEF OrderStored, OrderCreated
    <2> QED
      BY <2>1, CreatedStays
  <1>2. ASSUME NEW e \in StoredEvent, OutcomeStored(e)
        PROVE  FALSE
    <2>1. Commit(e) /\ e.version # 1
      BY <1>2 DEF OutcomeStored
    <2> QED
      BY <2>1, CreatedStays
  <1> QED
    BY <1>1, <1>2, CreatedStays, StoreChange

\* A call gives lines back one after the other, and only while it rolls back, which
\* it comes to from reserving.
LEMMA ReleasedMoves ==
    ASSUME IInv, [Next]_vars, NEW o \in Orders
    PROVE  \/ /\ place'[o].released = place[o].released
              /\ place'[o].pc = "rollback" => place[o].pc \in {"reserving", "rollback"}
           \/ /\ place'[o].released = place[o].released + 1
              /\ place[o].pc = "rollback"
  <1> USE DEF IInv, HandlersInv
  <1>1. place \in [Orders -> [pc : PlacePcs, reserved : Nat, released : Nat]]
    BY DEF TypeOK
  <1>2. CASE PlaceStart(o) \/ PlaceStep(o)
    BY <1>1, <1>2 DEF PlaceStart, PlaceStep, ReserveLine, ReserveRefused, ReserveReplyLost,
       RollbackLine, PlaceAppend, PlaceAppendFails, PlacePublish, FailPlace, PlaceGoes, Reserving,
       FullyReserved
  <1>3. CASE Crash
    <2>1. place'[o] = IF PlaceInProgress(o) THEN [place[o] EXCEPT !.pc = "crashed"] ELSE place[o]
      BY <1>3 DEF Crash
    <2> QED
      BY <1>1, <2>1
  <1>4. CASE place'[o] = place[o]
    BY <1>4
  <1>5. ASSUME NEW q \in Orders, q # o, PlaceStart(q) \/ PlaceStep(q)
        PROVE  place'[o] = place[o]
    BY <1>1, <1>5 DEF PlaceStart, PlaceStep, ReserveLine, ReserveRefused, ReserveReplyLost,
       RollbackLine, PlaceAppend, PlaceAppendFails, PlacePublish, FailPlace, PlaceGoes
  <1>6. ASSUME \/ \E c \in Cancels : CancelStep(c) \/ \E q \in Orders : CancelLoad(c, q)
               \/ SubStep
               \/ \E p \in Payments, q \in Orders, s \in PaymentSubjects : PaymentSettled(p, q, s)
               \/ Shutdown \/ AtRest \/ UNCHANGED vars
        PROVE  place'[o] = place[o]
    BY <1>6 DEF CancelStep, CancelAppend, CancelAppendFails, CancelRelease, CancelPublish,
       CancelLoad, SubStep, SubHandle, SubAppend, SubAppendFails, SubPublish, SubAck,
       PaymentSettled, Shutdown, AtRest, vars
  <1> QED
    BY <1>2, <1>3, <1>4, <1>5, <1>6 DEF Next

\* No call gives back more lines than its cart has.
LEMMA StepReleased ==
    ASSUME IInv, BooksInv, [Next]_vars, NEW o \in Orders
    PROVE  place'[o].released <= Len(Cart[o])
  <1>1. place[o].released <= Len(Cart[o])
    BY DEF BooksInv
  <1>2. CASE place'[o].released = place[o].released
    BY <1>1, <1>2
  <1>3. CASE place'[o].released = place[o].released + 1 /\ place[o].pc = "rollback"
    <2>1. place[o].released < place[o].reserved /\ place[o].reserved <= Len(Cart[o])
      BY <1>3 DEF IInv, HandlersInv, PlaceInv
    <2>2. place[o].released \in Nat /\ place[o].reserved \in Nat /\ Len(Cart[o]) \in Nat
      BY CartLine DEF IInv, TypeOK
    <2>3. \A k, m, n \in Nat : k < m /\ m <= n => k + 1 <= n
      OBVIOUS
    <2>4. place[o].released + 1 <= Len(Cart[o])
      BY <2>1, <2>2, <2>3, Zenon
    <2> QED
      BY <1>3, <2>4, Zenon
  <1> QED
    BY <1>2, <1>3, ReleasedMoves

\* A call gives lines of a stored order back only if it was told that it is not.
LEMMA StepGivenBack ==
    ASSUME IInv, BooksInv, [Next]_vars
    PROVE  GivenBackUnknowing'
  <1> SUFFICES ASSUME NEW o \in Orders, Created(o)'
               PROVE  \/ place'[o].pc # "rollback" /\ place'[o].released = 0
                      \/ faults' # 0 /\ "commit_unknown" \in FaultKinds
    BY DEF GivenBackUnknowing
  <1>1. ASSUME faults # 0
        PROVE  faults' # 0
    <2>1. faults \in Nat
      BY FaultsAssumption DEF IInv, TypeOK, FaultsType
    <2> QED
      BY <1>1, <2>1, StepFaults
  <1>2. CASE Created(o)
    <2>1. CASE faults # 0 /\ "commit_unknown" \in FaultKinds
      BY <1>1, <2>1
    <2>2. CASE place[o].pc # "rollback" /\ place[o].released = 0
      <3>1. place[o].pc # "reserving"
        BY <1>2 DEF IInv, HandlersInv, PlaceInv, Created, Load
      <3> QED
        BY <2>2, <3>1, ReleasedMoves
    <2> QED
      BY <1>2, <2>1, <2>2 DEF BooksInv, GivenBackUnknowing
  <1>3. CASE ~Created(o)
    <2>1. OrderStored(o)
      BY <1>3, CreatedByPlacing
    <2>2. FullyReserved(o) /\ store' # store
      BY <1>3, <2>1 DEF OrderStored, PlaceAppend, PlaceAppendFails, Created
    <2>3. place[o].pc = "reserving" /\ place[o].released = 0
      BY <2>2 DEF FullyReserved, IInv, HandlersInv, PlaceInv
    <2>4. CASE PlaceAppend(o)
      <3>1. place'[o].pc = "publishing"
        BY <2>4 DEF PlaceAppend, PlaceGoes, IInv, TypeOK
      <3>2. place'[o].released = 0
        BY <2>3, ReleasedMoves
      <3> QED
        BY <3>1, <3>2
    <2>5. CASE PlaceAppendFails(o)
      <3>1. Fault("commit_unknown")
        BY <2>2, <2>5 DEF PlaceAppendFails
      <3>2. faults' # 0
        BY <3>1, FaultShows DEF IInv
      <3> QED
        BY <3>1, <3>2 DEF Fault
    <2> QED
      BY <2>1, <2>4, <2>5 DEF OrderStored
  <1> QED
    BY <1>2, <1>3

LEMMA StepBooksInv ==
    ASSUME IInv, BooksInv, [Next]_vars
    PROVE  BooksInv'
  <1> USE DEF IInv, HandlersInv
  <1>1. place \in [Orders -> [pc : PlacePcs, reserved : Nat, released : Nat]]
        /\ streams["PAYMENTS"] \in Seq(Message) /\ DOMAIN streams = Streams
    BY DEF TypeOK, JetStreamType, Streams
  <1>2. ASSUME NEW o \in Orders, place'[o].pc = "idle"
        PROVE  place'[o].reserved = 0
    <2>1. CASE PlaceStart(o) \/ PlaceStep(o)
      <3>1. PICK pc \in PlacePcs \ {"idle"} : place'[o].pc = pc
        BY <1>1, <2>1 DEF PlaceStart, PlaceStep, ReserveLine, ReserveRefused, ReserveReplyLost,
           RollbackLine, PlaceAppend, PlaceAppendFails, PlacePublish, FailPlace, PlaceGoes,
           Reserving, PlacePcs
      <3> QED
        BY <1>2, <3>1
    <2>2. CASE Crash
      <3>1. place'[o] = IF PlaceInProgress(o) THEN [place[o] EXCEPT !.pc = "crashed"] ELSE place[o]
        BY <2>2 DEF Crash
      <3>2. place'[o] = place[o]
        BY <1>1, <1>2, <3>1
      <3> QED
        BY <1>2, <3>2 DEF BooksInv
    <2>3. CASE place'[o] = place[o]
      BY <1>2, <2>3 DEF BooksInv
    <2>4. ASSUME NEW q \in Orders, q # o, PlaceStart(q) \/ PlaceStep(q)
          PROVE  place'[o] = place[o]
      BY <1>1, <2>4 DEF PlaceStart, PlaceStep, ReserveLine, ReserveRefused, ReserveReplyLost,
         RollbackLine, PlaceAppend, PlaceAppendFails, PlacePublish, FailPlace, PlaceGoes
    <2>5. CASE UNCHANGED place
      BY <2>3, <2>5
    <2>6. ASSUME \/ \E c \in Cancels : CancelStep(c) \/ \E q \in Orders : CancelLoad(c, q)
                 \/ SubStep
                 \/ \E p \in Payments, q \in Orders, s \in PaymentSubjects : PaymentSettled(p, q, s)
                 \/ Shutdown \/ AtRest \/ UNCHANGED vars
          PROVE  UNCHANGED place
      BY <2>6 DEF CancelStep, CancelAppend, CancelAppendFails, CancelRelease, CancelPublish,
         CancelLoad, SubStep, SubHandle, SubAppend, SubAppendFails, SubPublish, SubAck,
         PaymentSettled, Shutdown, AtRest, vars
    <2> QED
      BY <2>1, <2>2, <2>3, <2>4, <2>5, <2>6 DEF Next
  <1>2a. (\A o \in Orders : place'[o].released <= Len(Cart[o])) /\ GivenBackUnknowing'
    BY StepReleased, StepGivenBack
  <1>3. CASE streams'["PAYMENTS"] = streams["PAYMENTS"]
    BY <1>2, <1>2a, <1>3 DEF BooksInv
  <1>4. ASSUME NEW p \in Payments, NEW o \in Orders, NEW s \in PaymentSubjects,
               PaymentSettled(p, o, s)
        PROVE  BooksInv'
    <2> DEFINE m == PaymentMessage(s, o, p)
    <2>1. streams'["PAYMENTS"] = Append(streams["PAYMENTS"], m) /\ s \in PaymentOutcomes
      BY <1>1, <1>4 DEF PaymentSettled, Publish, Streams
    <2>2. m \in Message /\ m.subject = s
      BY DEF PaymentMessage, Message
    <2> HIDE DEF m
    <2>3. \A i \in 1..Len(streams'["PAYMENTS"]) :
            streams'["PAYMENTS"][i] = m \/ (i \in 1..Len(streams["PAYMENTS"])
                                            /\ streams'["PAYMENTS"][i] = streams["PAYMENTS"][i])
      BY <1>1, <2>1, <2>2
    <2> QED
      BY <1>2, <1>2a, <2>1, <2>2, <2>3 DEF BooksInv
  <1>5. ASSUME NEW e, PublishOrIgnore(e)
        PROVE  streams'["PAYMENTS"] = streams["PAYMENTS"]
    BY <1>1, <1>5 DEF PublishOrIgnore, Publish, Streams
  <1>6. ASSUME NEW o \in Orders, PlaceStart(o) \/ PlaceStep(o)
        PROVE  streams'["PAYMENTS"] = streams["PAYMENTS"]
    BY <1>5, <1>6 DEF PlaceStart, PlaceStep, ReserveLine, ReserveRefused, ReserveReplyLost,
       RollbackLine, PlaceAppend, PlaceAppendFails, PlacePublish
  <1>7. ASSUME NEW c \in Cancels, CancelStep(c) \/ \E o \in Orders : CancelLoad(c, o)
        PROVE  streams'["PAYMENTS"] = streams["PAYMENTS"]
    BY <1>5, <1>7 DEF CancelStep, CancelAppend, CancelAppendFails, CancelRelease, CancelPublish,
       CancelLoad
  <1>8. ASSUME SubStep
        PROVE  streams'["PAYMENTS"] = streams["PAYMENTS"]
    BY <1>5, <1>8 DEF SubStep, SubHandle, SubAppend, SubAppendFails, SubPublish, SubAck
  <1>9. ASSUME Crash \/ Shutdown \/ AtRest \/ UNCHANGED vars
        PROVE  streams'["PAYMENTS"] = streams["PAYMENTS"]
    BY <1>9 DEF Crash, Shutdown, AtRest, vars
  <1> QED
    BY <1>3, <1>4, <1>6, <1>7, <1>8, <1>9 DEF Next

\* At the start everything is in stock.
LEMMA InitBooks ==
    ASSUME FiniteRequests, Init
    PROVE  BooksInv /\ \A p \in Products : Accounted(p) = InitialStock[p]
  <1>1. BooksInv
    <2>1. \A o \in Orders : Len(Cart[o]) \in Nat
      BY CartLine
    <2>2. \A o \in Orders : ~Created(o)
      BY DEF Init, EventStoreInit, Created
    <2> QED
      BY <2>1, <2>2 DEF Init, JetStreamInit, BooksInv, GivenBackUnknowing, Streams
  <1>2. ASSUME NEW p \in Products
        PROVE  Accounted(p) = InitialStock[p]
    <2>1. \A o \in Orders : SoldOf(p)[o] = 0
      <3>1. \A o \in Orders : StatusOf(o) = "none"
        BY DEF Init, EventStoreInit, StatusOf, CurrentOrder, Load, LoadFromEvents, NewOrder
      <3> QED
        BY <3>1, SoldFollowsStatus
    <2>2. /\ \A o \in Orders : HeldForPlacing(p)[o] = 0
          /\ \A c \in Cancels : HeldForCancelling(p)[c] = 0
      BY DEF Init, HeldForPlacing, HeldForCancelling
    <2>3. ASSUME NEW S, IsFiniteSet(S), NEW f, \A x \in S : f[x] = 0
          PROVE  SumFunctionOnSet(f, S) = 0
      BY <2>3, SumZero
    <2>4. Sold(p) = 0 /\ HeldByPlacing(p) = 0 /\ HeldByCancelling(p) = 0
      BY <2>1, <2>2, <2>3 DEF Sold, HeldByPlacing, HeldByCancelling, FiniteRequests
    <2>5. stock[p] = InitialStock[p] /\ InitialStock[p] \in Nat
      BY StockAssumption DEF Init, StockInit
    <2> QED
      BY <2>4, <2>5 DEF Accounted
  <1> QED
    BY <1>1, <1>2

\* The units of the books are at most those of the start and those given away.
OversellInv == IInv /\ BooksInv /\ NoOversell
ConservedInv == IInv /\ BooksInv /\ StockConserved

LEMMA AccountedType ==
    ASSUME FiniteRequests, IInv, IInv', NEW p \in Products
    PROVE  Accounted(p) \in Int /\ Accounted(p)' \in Int /\ InitialStock[p] \in Nat
  <1>1. Accounted(p) \in Int
    BY BooksMove DEF Accounted
  <1>2. /\ stock'[p] \in Nat
        /\ \A o \in Orders : SoldOf(p)'[o] \in Int /\ HeldForPlacing(p)'[o] \in Int
        /\ \A c \in Cancels : HeldForCancelling(p)'[c] \in Int
    BY BooksTypedNext DEF BooksType
  <1>3. Sold(p)' \in Int /\ HeldByPlacing(p)' \in Int /\ HeldByCancelling(p)' \in Int
    BY <1>2, SumTake DEF Sold, HeldByPlacing, HeldByCancelling, FiniteRequests
  <1> QED
    BY <1>1, <1>2, <1>3, StockAssumption DEF Accounted

LEMMA InitOversell ==
    ASSUME FiniteRequests, Init
    PROVE  OversellInv
  <1>1. IInv /\ BooksInv /\ \A p \in Products : Accounted(p) = InitialStock[p]
    BY InitIInv, InitBooks
  <1>2. \A p \in Products : InitialStock[p] \in Nat
    BY StockAssumption
  <1>3. \A p \in Products : GivenAway(p) \in Nat
    <2>1. \A p \in Products, o \in Orders : GivenAwayOf(p)[o] \in Nat
      BY <1>1, GivenTyped DEF GivenType
    <2> QED
      BY <2>1, SumNat DEF GivenAway, FiniteRequests
  <1> QED
    BY <1>1, <1>2, <1>3 DEF OversellInv, NoOversell

LEMMA StepOversell ==
    ASSUME FiniteRequests, OversellInv, [Next]_vars
    PROVE  OversellInv'
  <1>1. IInv /\ BooksInv /\ IInv' /\ BooksInv'
    BY StepIInv, StepBooksInv DEF OversellInv
  <1>2. ASSUME NEW p \in Products
        PROVE  Accounted(p)' <= InitialStock[p] + GivenAway(p)'
    <2>1. Accounted(p)' <= Accounted(p) + (GivenAway(p)' - GivenAway(p))
      BY <1>1, StepBooks DEF Kept
    <2>2. Accounted(p) <= InitialStock[p] + GivenAway(p)
      BY DEF OversellInv, NoOversell
    <2>3. Accounted(p) \in Int /\ Accounted(p)' \in Int /\ InitialStock[p] \in Nat
      BY <1>1, AccountedType
    <2>4. GivenAway(p) \in Nat /\ GivenAway(p)' \in Nat
      BY <1>1, GivenMoves
    <2> QED
      BY <2>1, <2>2, <2>3, <2>4
  <1> QED
    BY <1>1, <1>2 DEF OversellInv, NoOversell

\* No unit is promised twice, for every number of orders, carts, cancellations
\* and payments and every number of failures and crashes, but those PlaceOrder
\* gives back because the Append that committed answered with an error
\* (handler.go:83 takes every error for "nothing stored").
THEOREM NeverOversold ==
    ASSUME FiniteRequests
    PROVE  Spec => []NoOversell
  <1>1. Init => OversellInv
    BY InitOversell
  <1>2. OversellInv /\ [Next]_vars => OversellInv'
    BY StepOversell
  <1>3. OversellInv => NoOversell
    BY DEF OversellInv
  <1> QED
    BY <1>1, <1>2, <1>3, PTL DEF Spec

\* Where an error of Append means that nothing was stored, nothing is given away:
\* the units in stock, sold and in the hands of calls are never more than there were.
THEOREM NoneGivenAway ==
    ASSUME FiniteRequests, "commit_unknown" \notin FaultKinds
    PROVE  Spec => [](\A p \in Products : Accounted(p) <= InitialStock[p])
  <1>1. Init => OversellInv
    BY InitOversell
  <1>2. OversellInv /\ [Next]_vars => OversellInv'
    BY StepOversell
  <1>3. OversellInv => \A p \in Products : Accounted(p) <= InitialStock[p]
    <2> SUFFICES ASSUME OversellInv, NEW p \in Products
                 PROVE  Accounted(p) <= InitialStock[p]
      OBVIOUS
    <2>1. ASSUME NEW o \in Orders
          PROVE  GivenAwayOf(p)[o] = 0
      <3>1. 1..0 = {}
        OBVIOUS
      <3>2. Units(o, p, 1, 0) = 0
        BY <3>1, FS_EmptySet, SumTake DEF Units
      <3>3. Created(o) => place[o].released = 0
        BY DEF OversellInv, BooksInv, GivenBackUnknowing
      <3> QED
        BY <3>2, <3>3 DEF GivenAwayOf
    <2>2. GivenAway(p) = 0
      BY <2>1, SumZero DEF GivenAway, FiniteRequests
    <2>3. InitialStock[p] \in Nat /\ Accounted(p) <= InitialStock[p] + 0
      BY <2>2, StockAssumption DEF OversellInv, NoOversell
    <2> QED
      BY <2>3
  <1> QED
    BY <1>1, <1>2, <1>3, PTL DEF Spec

\* As long as nothing fails, no unit is created or lost by any interleaving of
\* PlaceOrder, CancelOrder and completed payments.  (A failed payment cancels
\* the order without releasing its units: see UnitsComeBack.)
THEOREM StockIsConserved ==
    ASSUME FiniteRequests, "payments.failed" \notin PaymentOutcomes
    PROVE  Spec => []StockConserved
  <1>1. Init => ConservedInv
    BY InitIInv, InitBooks DEF ConservedInv, StockConserved
  <1>2. ConservedInv /\ [Next]_vars => ConservedInv'
    <2> SUFFICES ASSUME ConservedInv, [Next]_vars PROVE ConservedInv'
      OBVIOUS
    <2>1. IInv /\ BooksInv /\ IInv' /\ BooksInv'
      BY StepIInv, StepBooksInv DEF ConservedInv
    <2>2. ASSUME faults' = 0, NEW p \in Products
          PROVE  Accounted(p)' = InitialStock[p]
      <3>1. Accounted(p)' = Accounted(p)
        BY <2>1, <2>2, StepBooks DEF Kept
      <3>2. faults = 0
        <4>1. faults \in Nat
          BY <2>1, FaultsAssumption DEF IInv, TypeOK, FaultsType
        <4>2. faults' = faults \/ faults' = faults + 1
          BY StepFaults
        <4> QED
          BY <2>2, <4>1, <4>2
      <3> QED
        BY <3>1, <3>2 DEF ConservedInv, StockConserved
    <2> QED
      BY <2>1, <2>2 DEF ConservedInv, StockConserved
  <1>3. ConservedInv => StockConserved
    BY DEF ConservedInv
  <1> QED
    BY <1>1, <1>2, <1>3, PTL DEF Spec

\* What the documentation says of an order that was not placed, or was
\* cancelled, is so where no payment fails and nothing else does: with nothing
\* in progress its units are back in stock.
THEOREM UnitsAreBack ==
    ASSUME FiniteRequests, "payments.failed" \notin PaymentOutcomes
    PROVE  Spec => [](faults = 0 => UnitsComeBack)
  <1>1. StockConserved /\ IInv => (faults = 0 => UnitsComeBack)
    <2> SUFFICES ASSUME StockConserved, IInv, faults = 0, Quiescent, NEW p \in Products
                 PROVE  stock[p] + Sold(p) = InitialStock[p]
      BY DEF UnitsComeBack
    <2>1. /\ \A o \in Orders : HeldForPlacing(p)[o] = 0
          /\ \A c \in Cancels : HeldForCancelling(p)[c] = 0
      BY DEF Quiescent, PlaceInProgress, CancelInProgress, HeldForPlacing, HeldForCancelling
    <2>2. HeldByPlacing(p) = 0 /\ HeldByCancelling(p) = 0
      BY <2>1, SumZero DEF HeldByPlacing, HeldByCancelling, FiniteRequests
    <2>3. stock[p] \in Nat /\ \A o \in Orders : SoldOf(p)[o] \in Int
      BY BooksTyped DEF BooksType
    <2>4. Sold(p) \in Int
      BY <2>3, SumTake DEF Sold, FiniteRequests
    <2>5. Accounted(p) = InitialStock[p]
      BY DEF StockConserved
    <2> QED
      BY <2>2, <2>3, <2>4, <2>5 DEF Accounted
  <1> QED
    BY <1>1, StockIsConserved, AlwaysIInv, PTL

=============================================================================

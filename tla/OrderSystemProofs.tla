------------------------- MODULE OrderSystemProofs -------------------------
(***************************************************************************)
(* Proofs about the order service and the payment service together, for    *)
(* every set of orders, payments and calls, and for every kind and number  *)
(* of failures: what is proved of each component in the environment its    *)
(* module assumes holds in the composition, where the other components are *)
(* that environment.                                                       *)
(*                                                                         *)
(* A step of the system is a step of one component and leaves to the       *)
(* others what they read, except for a stream it extends.  So the proof    *)
(* takes each component's own step from its module, and shows the others   *)
(* that the step is one of those they live beside (Aside, Restarts).       *)
(*                                                                         *)
(* The last section is about the start of their processes.                 *)
(***************************************************************************)
EXTENDS OrderSystem, ServiceStartup, JetStreamProofs

WP == INSTANCE OrderWriteSideProofs WITH sub <- settler
PP == INSTANCE PaymentServiceProofs WITH sub <- charger
RP == INSTANCE OrderReadModelProofs

-----------------------------------------------------------------------------
(* The invariants of the components *)

SystemInv == WP!WriteInv /\ PP!PaymentInv /\ RP!ReadInv

Typed == JetStreamType(Message) /\ FaultsType

LEMMA WriteKeeps ==
    /\ WP!Init => WP!WriteInv
    /\ WP!WriteInv /\ [WP!Next]_(WP!vars) => WP!WriteInv'
    /\ WP!WriteInv /\ WP!Aside => WP!WriteInv'
    /\ WP!WriteInv /\ WP!Restarts => WP!WriteInv'
  <1> USE SystemAssumption, NoPaymentAssumption, StreamOfAssumption, FaultsAssumption,
          StockAssumption
      DEF WP!OrderItem, Write!OrderItem, WP!PaymentHandler, Write!PaymentHandler,
          WP!PaymentSubjects, PaymentSubjects, WP!Streams, Streams, WP!Consumers, Consumers
  <1>1. WP!Init => WP!WriteInv
    BY WP!InitWrite
  <1>2. WP!WriteInv /\ [WP!Next]_(WP!vars) => WP!WriteInv'
    BY WP!StepWrite
  <1>3. WP!WriteInv /\ WP!Aside => WP!WriteInv'
    BY WP!AsideKeeps
  <1>4. WP!WriteInv /\ WP!Restarts => WP!WriteInv'
    BY WP!RestartsKeeps
  <1> QED
    BY <1>1, <1>2, <1>3, <1>4

LEMMA PaymentKeeps ==
    /\ PP!Init => PP!PaymentInv
    /\ PP!PaymentInv /\ [PP!Next]_(PP!vars) => PP!PaymentInv'
    /\ PP!PaymentInv /\ PP!Aside => PP!PaymentInv'
  <1> USE SystemAssumption, NoPaymentAssumption, StreamOfAssumption, FaultsAssumption
      DEF PP!Row, Pay!Row, PP!PaymentStatuses, Pay!PaymentStatuses, PP!PaymentProcessor,
          Pay!PaymentProcessor, PP!Streams, Streams, PP!Consumers, Consumers
  <1>1. PP!Init => PP!PaymentInv
    BY PP!InitPayment
  <1>2. PP!PaymentInv /\ [PP!Next]_(PP!vars) => PP!PaymentInv'
    BY PP!StepPayment
  <1>3. PP!PaymentInv /\ PP!Aside => PP!PaymentInv'
    BY PP!AsideKeeps
  <1> QED
    BY <1>1, <1>2, <1>3

LEMMA ReadKeeps ==
    /\ RP!Init => RP!ReadInv
    /\ RP!ReadInv /\ [RP!Next]_(RP!vars) => RP!ReadInv'
    /\ RP!ReadInv /\ RP!Aside => RP!ReadInv'
    /\ RP!ReadInv /\ RP!Restarts => RP!ReadInv'
  <1> USE SystemAssumption, NoPaymentAssumption, StreamOfAssumption, FaultsAssumption
      DEF RP!View, Read!View, RP!Statuses, Read!Statuses, RP!Projector, Read!Projector,
          RP!Streams, Streams, RP!Consumers, Consumers
  <1>1. RP!Init => RP!ReadInv
    BY RP!InitRead
  <1>2. RP!ReadInv /\ [RP!Next]_(RP!vars) => RP!ReadInv'
    BY RP!StepRead
  <1>3. RP!ReadInv /\ RP!Aside => RP!ReadInv'
    BY RP!AsideKeeps
  <1>4. RP!ReadInv /\ RP!Restarts => RP!ReadInv'
    BY RP!RestartsKeeps
  <1> QED
    BY <1>1, <1>2, <1>3, <1>4

\* The components type what they share alike.
LEMMA SharedTypes ==
    /\ WP!WriteInv => Typed
    /\ PP!PaymentInv => Typed
    /\ RP!ReadInv => Typed
  <1> USE DEF Typed, JetStreamType, FaultsType, Message, OrderSubjects, PaymentSubjects,
              Streams, Consumers
  <1>1. WP!WriteInv => Typed
    BY DEF WP!WriteInv, WP!IInv, WP!TypeOK, WP!JetStreamType, WP!FaultsType, WP!Message,
           WP!OrderSubjects, WP!PaymentSubjects, WP!Streams, WP!Consumers
  <1>2. PP!PaymentInv => Typed
    BY DEF PP!PaymentInv, PP!TypeOK, PP!JetStreamType, PP!FaultsType, PP!Message,
           PP!OrderSubjects, PP!PaymentSubjects, PP!Streams, PP!Consumers
  <1>3. RP!ReadInv => Typed
    BY DEF RP!ReadInv, RP!TypeOK, RP!JetStreamType, RP!FaultsType, RP!Message,
           RP!OrderSubjects, RP!PaymentSubjects, RP!Streams, RP!Consumers
  <1> QED
    BY <1>1, <1>2, <1>3

LEMMA SharedTypesNext ==
    /\ WP!WriteInv' => Typed'
    /\ PP!PaymentInv' => Typed'
    /\ RP!ReadInv' => Typed'
  BY SharedTypes, PTL

-----------------------------------------------------------------------------
(* Beside the others.  The three lemmas restate Aside in the system's terms. *)

PublishesPayment == \E m \in Message : Publish("PAYMENTS", m)
PublishesOrder ==
    \E m \in Message :
        /\ Publish("ORDERS", m)
        /\ m.subject \in OrderSubjects
        /\ m.payment = NoPayment <=> m.subject # "orders.paid"

LEMMA BesideWrite ==
    ASSUME Typed', UNCHANGED writeVars, UNCHANGED streams \/ PublishesPayment
    PROVE  WP!Aside
  BY DEF Typed, writeVars, PublishesPayment, WP!Aside, WP!JetStreamType, WP!FaultsType,
         WP!Message, WP!OrderSubjects, WP!PaymentSubjects, WP!Streams, WP!Consumers, WP!Publish,
         JetStreamType, FaultsType, Message, OrderSubjects, PaymentSubjects, Streams, Consumers,
         Publish

LEMMA BesidePay ==
    ASSUME Typed', UNCHANGED payVars, UNCHANGED streams \/ PublishesOrder
    PROVE  PP!Aside
  BY DEF Typed, payVars, PublishesOrder, PP!Aside, PP!JetStreamType, PP!FaultsType,
         PP!Message, PP!OrderSubjects, PP!PaymentSubjects, PP!Streams, PP!Consumers, PP!Publish,
         JetStreamType, FaultsType, Message, OrderSubjects, PaymentSubjects, Streams, Consumers,
         Publish

LEMMA BesideRead ==
    ASSUME Typed, Typed', UNCHANGED readVars,
           UNCHANGED streams \/ PublishesOrder \/ PublishesPayment
    PROVE  RP!Aside
  <1> USE DEF RP!Aside, RP!JetStreamType, RP!FaultsType, RP!Message, RP!OrderSubjects,
              RP!PaymentSubjects, RP!Streams, RP!Consumers, RP!Publish, RP!OrderShaped,
              Typed, readVars, JetStreamType, FaultsType, Message, OrderSubjects,
              PaymentSubjects, Streams, Consumers, Publish
  <1>1. CASE UNCHANGED streams
    BY <1>1
  <1>2. CASE PublishesOrder
    BY <1>2 DEF PublishesOrder
  <1>3. CASE PublishesPayment
    BY <1>3 DEF PublishesPayment
  <1> QED
    BY <1>1, <1>2, <1>3

-----------------------------------------------------------------------------
(* The steps of the components are those their proofs are about. *)

LEMMA PlaceSteps ==
    ASSUME NEW o \in Orders, Write!PlaceStart(o) \/ Write!PlaceStep(o)
    PROVE  WP!PlaceStart(o) \/ WP!PlaceStep(o)
  BY DEF Write!PlaceStart, Write!PlaceStep, Write!ReserveLine, Write!ReserveRefused,
           Write!ReserveReplyLost, Write!RollbackLine, Write!PlaceAppend,
           Write!PlaceAppendFails, Write!PlacePublish, Write!PlaceGoes, Write!NextLine,
           Write!Reserving, Write!FullyReserved, Write!FailPlace, Write!OrderCreated,
           Write!NewOrder, Write!EventOrderCreated, Write!EventOrderPaid,
           Write!EventOrderCancelled, Write!OrderMessage, Write!NatsSubject, Write!Publish,
           Write!PublishOrIgnore, Write!Commit, Write!Conflicts, Write!ReserveStock,
           Write!ReleaseStock, Write!Available, Write!Fault, Write!NoFault, WP!PlaceStart,
           WP!PlaceStep, WP!ReserveLine, WP!ReserveRefused, WP!ReserveReplyLost,
           WP!RollbackLine, WP!PlaceAppend, WP!PlaceAppendFails, WP!PlacePublish,
           WP!PlaceGoes, WP!NextLine, WP!Reserving, WP!FullyReserved, WP!FailPlace,
           WP!OrderCreated, WP!NewOrder, WP!EventOrderCreated, WP!EventOrderPaid,
           WP!EventOrderCancelled, WP!OrderMessage, WP!NatsSubject, WP!Publish,
           WP!PublishOrIgnore, WP!Commit, WP!Conflicts, WP!ReserveStock, WP!ReleaseStock,
           WP!Available, WP!Fault, WP!NoFault

\* What an instance computes, whichever module it is an instance of.
LEMMA SameCounts ==
    ASSUME NEW S
    PROVE  Write!Cardinality(S) = WP!Cardinality(S)
  BY DEF Write!Cardinality, WP!Cardinality

LEMMA SameLoads ==
    /\ \A o : Write!Load(o) = WP!Load(o)
    /\ \A o : Write!PartialLoads(o) = WP!PartialLoads(o)
    /\ \A rows : Write!LoadFromEvents(rows) = WP!LoadFromEvents(rows)
  <1>1. \A o : Write!Load(o) = WP!Load(o)
    BY DEF Write!Load, WP!Load
  <1>2. ASSUME NEW o
        PROVE  Write!PartialLoads(o) = WP!PartialLoads(o)
    BY <1>1, SameCounts DEF Write!PartialLoads, WP!PartialLoads
  <1>3. ASSUME NEW rows
        PROVE  Write!LoadFromEvents(rows) = WP!LoadFromEvents(rows)
    BY DEF Write!LoadFromEvents, Write!NewOrder, Write!Newest, Write!StatusAfter,
           Write!EventOrderCreated, Write!EventOrderPaid, Write!EventOrderCancelled,
           WP!LoadFromEvents, WP!NewOrder, WP!Newest, WP!StatusAfter, WP!EventOrderCreated,
           WP!EventOrderPaid, WP!EventOrderCancelled
  <1> QED
    BY <1>1, <1>2, <1>3

LEMMA CancelSteps ==
    ASSUME NEW c \in Cancels
    PROVE  /\ Write!CancelStep(c) => WP!CancelStep(c)
           /\ \A o \in Orders : Write!CancelLoad(c, o) => WP!CancelLoad(c, o)
  <1>1. Write!CancelStep(c) => WP!CancelStep(c)
    BY DEF Write!CancelStep, Write!CancelAppend, Write!CancelAppendFails, Write!CancelRelease,
           Write!CancelPublish, Write!CancelGoes, Write!CancelChange, Write!OrderCancelled,
           Write!EventOrderCreated, Write!EventOrderPaid, Write!EventOrderCancelled,
           Write!OrderMessage, Write!NatsSubject, Write!Publish, Write!PublishOrIgnore,
           Write!Commit, Write!Conflicts, Write!ReleaseStock, Write!Fault, Write!NoFault,
           WP!CancelStep, WP!CancelAppend, WP!CancelAppendFails, WP!CancelRelease,
           WP!CancelPublish, WP!CancelGoes, WP!CancelChange, WP!OrderCancelled,
           WP!EventOrderCreated, WP!EventOrderPaid, WP!EventOrderCancelled, WP!OrderMessage,
           WP!NatsSubject, WP!Publish, WP!PublishOrIgnore, WP!Commit, WP!Conflicts,
           WP!ReleaseStock, WP!Fault, WP!NoFault
  <1>2. ASSUME NEW o \in Orders, Write!CancelLoad(c, o)
        PROVE  WP!CancelLoad(c, o)
    <2>1. Write!ClientKnows(o) => WP!ClientKnows(o)
      BY SameLoads
      DEF Write!ClientKnows, Write!Stored, Write!OrderMessage, Write!NatsSubject,
          Write!OrderCreated, Write!NewOrder, Write!EventOrderCreated, Write!EventOrderPaid,
          Write!EventOrderCancelled, WP!ClientKnows, WP!Stored, WP!OrderMessage,
          WP!NatsSubject, WP!OrderCreated, WP!NewOrder, WP!EventOrderCreated,
          WP!EventOrderPaid, WP!EventOrderCancelled
    <2>2. \A rows : Write!Loads(o, rows) => WP!Loads(o, rows)
      BY SameLoads
      DEF Write!Loads, Write!Fault, Write!NoFault, WP!Loads, WP!Fault, WP!NoFault
    <2> QED
      BY <1>2, <2>1, <2>2, SameLoads
      DEF Write!CancelLoad, Write!CanChange, WP!CancelLoad, WP!CanChange
  <1> QED
    BY <1>1, <1>2

LEMMA SettlerSteps == Write!SubStep => WP!SubStep
  <1> USE DEF Write!PaymentHandler, Write!Fault, Write!NoFault, Write!EventOrderCreated,
           Write!EventOrderPaid, Write!EventOrderCancelled, WP!PaymentHandler, WP!Fault,
           WP!NoFault, WP!EventOrderCreated, WP!EventOrderPaid, WP!EventOrderCancelled
  <1>1. ASSUME NEW i, Write!SubHandle(i)
        PROVE  WP!SubHandle(i)
    <2>1. \A o, rows : Write!Loads(o, rows) => WP!Loads(o, rows)
      BY SameLoads DEF Write!Loads, WP!Loads
    <2> DEFINE o == streams["PAYMENTS"][i].order
    <2>2. PICK rows \in {Write!Load(o)} \cup Write!PartialLoads(o) :
             /\ Write!Loads(o, rows)
             /\ settler' = [pc |-> IF Write!CanChange(Write!LoadFromEvents(rows).status)
                                   THEN "persisting" ELSE "acking",
                            msg |-> i, version |-> Write!LoadFromEvents(rows).version]
      BY <1>1 DEF Write!SubHandle
    <2>3. /\ rows \in {WP!Load(o)} \cup WP!PartialLoads(o)
          /\ WP!Loads(o, rows)
          /\ settler' = [pc |-> IF WP!CanChange(WP!LoadFromEvents(rows).status)
                                THEN "persisting" ELSE "acking",
                         msg |-> i, version |-> WP!LoadFromEvents(rows).version]
      BY <2>1, <2>2, SameLoads DEF Write!CanChange, WP!CanChange
    <2>4. /\ settler.pc = "idle"
          /\ WP!Deliver(WP!PaymentHandler, i)
          /\ UNCHANGED <<store, stock, streams, place, cancel>>
      BY <1>1
      DEF Write!SubHandle, Write!Deliver, Write!Deliverable, WP!Deliver, WP!Deliverable
    <2> QED
      BY <2>3, <2>4 DEF WP!SubHandle
  <1>2. /\ Write!SubAppend => WP!SubAppend
        /\ Write!SubAppendFails => WP!SubAppendFails
        /\ Write!SubPublish => WP!SubPublish
        /\ Write!SubAck => WP!SubAck
    BY DEF Write!SubAppend, Write!SubAppendFails, Write!SubPublish, Write!SubAck, Write!SubGoes,
           Write!SubRests, Write!SubChange, Write!SubMessage, Write!OrderPaid,
           Write!OrderCancelled, Write!OrderMessage, Write!NatsSubject, Write!Publish,
           Write!PublishOrIgnore, Write!Commit, Write!Conflicts, Write!Redeliver,
           WP!SubAppend, WP!SubAppendFails, WP!SubPublish, WP!SubAck, WP!SubGoes,
           WP!SubRests, WP!SubChange, WP!SubMessage, WP!OrderPaid, WP!OrderCancelled,
           WP!OrderMessage, WP!NatsSubject, WP!Publish, WP!PublishOrIgnore, WP!Commit,
           WP!Conflicts, WP!Redeliver
  <1>3. Write!Deliverable(Write!PaymentHandler) = WP!Deliverable(WP!PaymentHandler)
    BY DEF Write!Deliverable, WP!Deliverable
  <1> QED
    BY <1>1, <1>2, <1>3 DEF Write!SubStep, WP!SubStep

LEMMA PaySteps ==
    /\ Pay!SubStep => PP!SubStep
    /\ \A r \in Refunds : /\ \A p \in Payments : Pay!RefundCheck(r, p) => PP!RefundCheck(r, p)
                          /\ Pay!RefundUpdate(r) => PP!RefundUpdate(r)
    /\ Pay!Crash => PP!Crash
    /\ Pay!Shutdown => PP!Shutdown
  <1> USE DEF Pay!Fault, Pay!NoFault, Pay!PaymentProcessor, Pay!UpdateStatus, PP!Fault, PP!NoFault,
           PP!PaymentProcessor, PP!UpdateStatus
  <1>1. Pay!SubStep => PP!SubStep
    BY DEF Pay!SubStep, Pay!SubReceive, Pay!SubFilter, Pay!SubCreate, Pay!SubComplete, Pay!SubPublish,
           Pay!SubAck, Pay!SubGoes, Pay!SubRest, Pay!SubOrder, Pay!Addressed,
           Pay!Deliverable, Pay!Deliver, Pay!PassOver, Pay!Redeliver, Pay!FreshIds,
           Pay!Create, Pay!Publish, Pay!PaymentMessage, PP!SubStep, PP!SubReceive,
           PP!SubFilter, PP!SubCreate, PP!SubComplete, PP!SubPublish, PP!SubAck, PP!SubGoes,
           PP!SubRest, PP!SubOrder, PP!Addressed, PP!Deliverable, PP!Deliver, PP!PassOver,
           PP!Redeliver, PP!FreshIds, PP!Create, PP!Publish, PP!PaymentMessage
  <1>2. ASSUME NEW r \in Refunds
        PROVE  /\ \A p \in Payments : Pay!RefundCheck(r, p) => PP!RefundCheck(r, p)
               /\ Pay!RefundUpdate(r) => PP!RefundUpdate(r)
    BY DEF Pay!RefundCheck, Pay!RefundUpdate, Pay!RefundEnds, Pay!GetByID, PP!RefundCheck,
           PP!RefundUpdate, PP!RefundEnds, PP!GetByID
  <1>3. Pay!Crash => PP!Crash
    BY DEF Pay!Crash, Pay!SubRest, Pay!LoseClient, Pay!AfterLoss, PP!Crash, PP!SubRest, PP!LoseClient,
           PP!AfterLoss
  <1>4. Pay!Shutdown => PP!Shutdown
    BY DEF Pay!Shutdown, Pay!SubRest, Pay!LoseClient, Pay!AfterLoss, Pay!Recreate, PP!Shutdown,
           PP!SubRest, PP!LoseClient, PP!AfterLoss, PP!Recreate
  <1> QED
    BY <1>1, <1>2, <1>3, <1>4

LEMMA ReadSteps ==
    /\ Read!ProjStep => RP!ProjStep
    /\ \A o \in Orders : Read!Expire(o) => RP!Expire(o)
  <1> USE DEF Read!Fault, Read!NoFault, Read!Found, RP!Fault, RP!NoFault, RP!Found
  <1>1. Read!ProjStep => RP!ProjStep
    BY DEF Read!ProjStep, Read!ProjReceive, Read!ProjLoad, Read!ProjSet, Read!ProjSetRefused, Read!ProjIndex,
           Read!ProjSaveFails, Read!ProjAck, Read!ProjMessage, Read!ProjOrder,
           Read!ProjGoes, Read!ProjRest, Read!PendingView, Read!ViewAfter, Read!Projector,
           Read!Deliverable, Read!Deliver, Read!Redeliver, RP!ProjStep, RP!ProjReceive,
           RP!ProjLoad, RP!ProjSet, RP!ProjSetRefused, RP!ProjIndex, RP!ProjSaveFails, RP!ProjAck,
           RP!ProjMessage, RP!ProjOrder, RP!ProjGoes, RP!ProjRest, RP!PendingView,
           RP!ViewAfter, RP!Projector, RP!Deliverable, RP!Deliver, RP!Redeliver
  <1>2. ASSUME NEW o \in Orders, Read!Expire(o)
        PROVE  RP!Expire(o)
    BY <1>2 DEF Read!Expire, RP!Expire
  <1> QED
    BY <1>1, <1>2

-----------------------------------------------------------------------------
(* Every step keeps what every component holds on to. *)

\* An order that is stored as paid names the payment that was charged for it.
LEMMA PaidIsCharged ==
    ASSUME SystemInv, NEW e \in store, e.type = EventOrderPaid
    PROVE  ChargedFor(e.payment, e.order)
  <1> DEFINE m == WP!PaymentMessage("payments.completed", e.order, e.payment)
  <1>1. WP!Stored("PAYMENTS", m)
    BY DEF SystemInv, WP!WriteInv, WP!PaidByItsPayment, EventOrderPaid, WP!EventOrderPaid
  <1>2. m.payment = e.payment /\ m.order = e.order
    BY DEF WP!PaymentMessage
  <1> HIDE DEF m
  <1>3. PICK i \in 1..Len(streams["PAYMENTS"]) : streams["PAYMENTS"][i] = m
    BY <1>1 DEF WP!Stored
  <1>4. m.payment \in Payments /\ PP!Charged(m.payment) /\ payments[m.payment].order = m.order
    BY <1>3 DEF SystemInv, PP!PaymentInv, PP!ChargesJustified
  <1> QED
    BY <1>2, <1>4 DEF ChargedFor, Pay!Charged, PP!Charged

\* What the write side does to the streams: it puts the message of a stored event on ORDERS.
LEMMA WriteTells ==
    ASSUME SystemInv, WP!ServiceStep
    PROVE  UNCHANGED streams \/ PublishesOrder
  <1> USE SystemAssumption, NoPaymentAssumption, StreamOfAssumption, FaultsAssumption,
          StockAssumption
      DEF WP!OrderItem, Write!OrderItem, WP!PaymentHandler, Write!PaymentHandler,
          WP!PaymentSubjects, PaymentSubjects, WP!Streams, Streams, WP!Consumers, Consumers
  <1>1. WP!WriteInv /\ WP!TypeOK
    BY DEF SystemInv, WP!WriteInv, WP!IInv
  <1>2. UNCHANGED streams \/ \E m : WP!Publish("ORDERS", m)
    BY <1>1, WP!ServicePublishes
  <1>3. [WP!Next]_(WP!vars)
    BY DEF WP!ServiceStep, WP!Next
  <1>4. CASE UNCHANGED WP!Log
    BY <1>1, <1>2, <1>4 DEF WP!Log, WP!Publish, WP!TypeOK, WP!JetStreamType
  <1>5. CASE ~UNCHANGED WP!Log
    <2>1. PICK e \in store : /\ WP!Publish("ORDERS", WP!OrderMessage(e))
                             /\ e.type # WP!EventOrderPaid => e.payment = NoPayment
      BY <1>1, <1>3, <1>5, WP!AnnouncedEvent
    <2> DEFINE m == WP!OrderMessage(e)
    <2>2. /\ e.order \in Orders /\ e.payment \in Payments \cup {NoPayment}
          /\ e.type \in {EventOrderCreated, EventOrderPaid, EventOrderCancelled}
      BY <1>1 DEF WP!TypeOK, WP!EventStoreType, WP!StoredEvent, WP!EventTypes,
                  WP!EventOrderCreated, WP!EventOrderPaid, WP!EventOrderCancelled,
                  EventOrderCreated, EventOrderPaid, EventOrderCancelled
    <2>3. e.type = EventOrderPaid => e.payment \in Payments
      BY PaidIsCharged DEF ChargedFor
    <2>4. m \in Message /\ m.subject \in OrderSubjects /\ m.payment = e.payment
          /\ (m.subject = "orders.paid" <=> e.type = EventOrderPaid)
      BY <2>2 DEF Message, OrderSubjects, WP!OrderMessage, WP!NatsSubject,
                  WP!EventOrderCreated, WP!EventOrderPaid, WP!EventOrderCancelled,
                  EventOrderCreated, EventOrderPaid, EventOrderCancelled
    <2>5. m.payment = NoPayment <=> m.subject # "orders.paid"
      BY <2>1, <2>3, <2>4 DEF WP!EventOrderPaid, EventOrderPaid
    <2>6. Publish("ORDERS", m)
      BY <2>1 DEF Publish, WP!Publish
    <2> QED
      BY <2>4, <2>5, <2>6 DEF PublishesOrder
  <1> QED
    BY <1>4, <1>5

LEMMA WriteStep ==
    ASSUME SystemInv, WP!ServiceStep, WriteOnly
    PROVE  SystemInv'
  <1>1. [WP!Next]_(WP!vars)
    BY DEF WP!ServiceStep, WP!Next
  <1>2. WP!WriteInv' /\ Typed /\ Typed'
    BY <1>1, WriteKeeps, SharedTypes, SharedTypesNext DEF SystemInv
  <1>3. UNCHANGED streams \/ PublishesOrder
    BY WriteTells
  <1>4. PP!Aside /\ RP!Aside
    BY <1>2, <1>3, BesidePay, BesideRead DEF WriteOnly
  <1> QED
    BY <1>2, <1>4, PaymentKeeps, ReadKeeps DEF SystemInv

\* The payment service takes the step.
PayAlone == UNCHANGED <<writeVars, readVars>>

\* What the payment service does: it tells of a payment that is charged.
LEMMA PayTells ==
    ASSUME SystemInv, PP!ServiceStep
    PROVE  \/ UNCHANGED streams
           \/ \E p \in Payments, o \in Orders :
                 /\ Publish("PAYMENTS", PaymentMessage("payments.completed", o, p))
                 /\ NoFault /\ UNCHANGED consumers
                 /\ Stored("ORDERS", [subject |-> "orders.created", order |-> o,
                                      payment |-> NoPayment])
                 /\ \A i \in 1..Len(streams["PAYMENTS"]) : streams["PAYMENTS"][i].payment # p
  <1> USE SystemAssumption, NoPaymentAssumption, StreamOfAssumption, FaultsAssumption
      DEF PP!Row, Pay!Row, PP!PaymentStatuses, Pay!PaymentStatuses, PP!PaymentProcessor,
          Pay!PaymentProcessor, PP!Streams, Streams, PP!Consumers, Consumers
  <1>1. CASE UNCHANGED streams
    BY <1>1
  <1>2. CASE ~UNCHANGED streams
    <2>1. PICK p \in Payments, o \in Orders :
             /\ PP!Publish("PAYMENTS", PP!PaymentMessage("payments.completed", o, p))
             /\ PP!NoFault /\ UNCHANGED consumers
             /\ PP!Stored("ORDERS", PP!CreatedMessage(o))
             /\ \A i \in 1..Len(PP!Sent) : PP!Sent[i].payment # p
      BY <1>2, PP!SettledRightly DEF SystemInv
    <2> QED
      BY <2>1 DEF Publish, PP!Publish, PaymentMessage, PP!PaymentMessage, NoFault, PP!NoFault,
                  Stored, PP!Stored, PP!CreatedMessage, PP!Sent
  <1> QED
    BY <1>1, <1>2

LEMMA PayStep ==
    ASSUME SystemInv, PP!ServiceStep, PayAlone
    PROVE  SystemInv'
  <1>1. [PP!Next]_(PP!vars)
    BY DEF PP!ServiceStep, PP!Next
  <1>2. PP!PaymentInv' /\ Typed /\ Typed'
    BY <1>1, PaymentKeeps, SharedTypes, SharedTypesNext DEF SystemInv
  <1>3. UNCHANGED streams \/ PublishesPayment
    BY PayTells DEF PublishesPayment, PaymentMessage, Message, PaymentSubjects
  <1>4. WP!Aside /\ RP!Aside
    BY <1>2, <1>3, BesideWrite, BesideRead DEF PayAlone
  <1> QED
    BY <1>2, <1>4, WriteKeeps, ReadKeeps DEF SystemInv

LEMMA ReadStep ==
    ASSUME SystemInv, RP!ProjStep \/ \E o \in Orders : RP!Expire(o), ReadOnly
    PROVE  SystemInv' /\ UNCHANGED streams
  <1>1. [RP!Next]_(RP!vars)
    BY DEF RP!Next
  <1>2. RP!ReadInv' /\ Typed /\ Typed'
    BY <1>1, ReadKeeps, SharedTypes, SharedTypesNext DEF SystemInv
  <1>3. UNCHANGED streams
    BY DEF RP!ProjStep, RP!ProjReceive, RP!ProjLoad, RP!ProjSet, RP!ProjSetRefused, RP!ProjIndex,
           RP!ProjSaveFails, RP!ProjAck, RP!Expire
  <1>4. WP!Aside /\ PP!Aside
    BY <1>2, <1>3, BesideWrite, BesidePay DEF ReadOnly
  <1> QED
    BY <1>2, <1>3, <1>4, WriteKeeps, PaymentKeeps DEF SystemInv

\* The process of the order service ends.
OrderServiceEnds == OrderServiceCrash \/ OrderServiceShutdown

\* Both its sides start again, the payment service stands aside.
LEMMA RestartStep ==
    ASSUME SystemInv, OrderServiceEnds
    PROVE  SystemInv' /\ UNCHANGED streams /\ WP!Restarts
  <1> DEFINE Consumer == [next : Nat \ {0}, again : SUBSET Nat]
  <1>1. Typed
    BY SharedTypes DEF SystemInv
  <1>2. settler.msg \in Nat /\ proj.msg \in Nat
    BY DEF SystemInv, WP!WriteInv, WP!IInv, WP!TypeOK, RP!ReadInv, RP!TypeOK
  <1>3. Write!PaymentHandler \in Consumers /\ Read!Projector \in Consumers
    BY SystemAssumption
  <1>4. /\ Anew \in Consumer /\ consumers[Write!PaymentHandler] \in Consumer
        /\ consumers[Read!Projector] \in Consumer
        /\ AfterLoss(Write!PaymentHandler, settler.msg) \subseteq Consumer
        /\ AfterLoss(Read!Projector, proj.msg) \subseteq Consumer
    <2>1. /\ AfterLoss(Write!PaymentHandler, settler.msg) \subseteq Consumer
          /\ AfterLoss(Read!Projector, proj.msg) \subseteq Consumer
      BY <1>1, <1>2, <1>3, AfterLossType DEF Typed
    <2>2. \A c \in Consumers : consumers[c] \in Consumer
      BY <1>1 DEF Typed, JetStreamType
    <2>3. Anew \in Consumer
      BY DEF Anew
    <2> QED
      BY <1>3, <2>1, <2>2, <2>3
  <1>5. /\ OrderServiceRestarts
        /\ \E kind : Fault(kind)
        /\ \E settle, project \in Consumer : OrderConsumers(settle, project)
    BY <1>4 DEF OrderServiceEnds, OrderServiceCrash, OrderServiceShutdown
  <1>6. Typed'
    <2>1. consumers' \in [Consumers -> Consumer]
      BY <1>1, <1>5 DEF OrderConsumers, Typed, JetStreamType
    <2>2. FaultsType'
      BY <1>1, <1>5, FaultsAssumption DEF Typed, FaultsType, Fault
    <2> QED
      BY <1>1, <1>5, <2>1, <2>2 DEF OrderServiceRestarts, Typed, JetStreamType
  <1>7. WP!Restarts
    BY <1>5, <1>6 DEF OrderServiceRestarts, WP!Restarts, Write!PlaceInProgress,
                WP!PlaceInProgress, Write!CancelInProgress, WP!CancelInProgress,
                Write!SubRests, WP!SubRests, Typed, JetStreamType, FaultsType, Message,
                OrderSubjects, PaymentSubjects, Streams, Consumers, WP!JetStreamType,
                WP!FaultsType, WP!Message, WP!OrderSubjects, WP!PaymentSubjects,
                WP!Streams, WP!Consumers
  <1>8. RP!Restarts
    BY <1>5, <1>6 DEF OrderServiceRestarts, RP!Restarts, Read!ProjRest, RP!ProjRest,
                Read!QueriesDropped, RP!QueriesDropped, Typed, JetStreamType, FaultsType,
                Message, OrderSubjects, PaymentSubjects, Streams, Consumers, RP!JetStreamType,
                RP!FaultsType, RP!Message, RP!OrderSubjects, RP!PaymentSubjects, RP!Streams,
                RP!Consumers
  <1>9. PP!Aside
    BY <1>5, <1>6, BesidePay DEF OrderServiceRestarts
  <1> QED
    BY <1>5, <1>7, <1>8, <1>9, WriteKeeps, PaymentKeeps, ReadKeeps
    DEF SystemInv, OrderServiceRestarts

LEMMA RestStep ==
    ASSUME SystemInv, UNCHANGED vars
    PROVE  SystemInv'
  <1>1. UNCHANGED WP!vars /\ UNCHANGED PP!vars /\ UNCHANGED RP!vars
    BY DEF vars, writeVars, payVars, readVars, WP!vars, PP!vars, RP!vars
  <1> QED
    BY <1>1, WriteKeeps, PaymentKeeps, ReadKeeps DEF SystemInv

\* Whose step it is.
LEMMA Whose ==
    ASSUME [Next]_vars
    PROVE  \/ WP!ServiceStep /\ WriteOnly
           \/ PP!ServiceStep /\ PayAlone
           \/ (RP!ProjStep \/ \E o \in Orders : RP!Expire(o)) /\ ReadOnly
           \/ OrderServiceEnds
           \/ UNCHANGED vars
  <1>1. ASSUME NEW o \in Orders, PlaceStart(o) \/ PlaceStep(o)
        PROVE  WP!ServiceStep /\ WriteOnly
    BY <1>1, PlaceSteps DEF PlaceStart, PlaceStep, WP!ServiceStep
  <1>2. ASSUME NEW c \in Cancels, CancelStep(c) \/ \E o \in Orders : CancelLoad(c, o)
        PROVE  WP!ServiceStep /\ WriteOnly
    BY <1>2, CancelSteps DEF CancelStep, CancelLoad, WP!ServiceStep
  <1>3. SettlerStep => WP!ServiceStep /\ WriteOnly
    BY SettlerSteps DEF SettlerStep, WP!ServiceStep
  <1>4. ChargerStep \/ (\E r \in Refunds : RefundStep(r)) \/ PaymentServiceCrash
           \/ PaymentServiceShutdown => PP!ServiceStep /\ PayAlone
    BY PaySteps DEF ChargerStep, RefundStep, PaymentServiceCrash, PaymentServiceShutdown,
                    PayOnly, PayAlone, PP!ServiceStep
  <1>5. ProjectorStep \/ (\E o \in Orders : Expire(o))
        => (RP!ProjStep \/ \E o \in Orders : RP!Expire(o)) /\ ReadOnly
    BY ReadSteps DEF ProjectorStep, Expire
  <1>6. AtRest => UNCHANGED vars
    BY DEF AtRest, Write!AtRest, Pay!AtRest, Read!AtRest, Write!vars, Pay!vars, Read!vars, vars,
           writeVars, payVars, readVars
  <1> QED
    BY <1>1, <1>2, <1>3, <1>4, <1>5, <1>6 DEF Next, OrderServiceEnds

LEMMA InitSystem == Init => SystemInv
  <1>1. Write!Init => WP!Init
    BY DEF Write!Init, WP!Init, Write!EventStoreInit, WP!EventStoreInit, Write!StockInit,
           WP!StockInit, Write!JetStreamInit, WP!JetStreamInit, Write!FaultsInit, WP!FaultsInit,
           Write!Streams, WP!Streams, Write!Consumers, WP!Consumers
  <1>2. Pay!Init => PP!Init
    BY DEF Pay!Init, PP!Init, Pay!SubRest, PP!SubRest,
           Pay!JetStreamInit, PP!JetStreamInit, Pay!FaultsInit, PP!FaultsInit, Pay!Streams,
           PP!Streams, Pay!Consumers, PP!Consumers
  <1>3. Read!Init => RP!Init
    BY DEF Read!Init, RP!Init, Read!ProjRest, RP!ProjRest, Read!QueryRest, RP!QueryRest,
           Read!JetStreamInit, RP!JetStreamInit, Read!FaultsInit, RP!FaultsInit, Read!Streams,
           RP!Streams, Read!Consumers, RP!Consumers
  <1> QED
    BY <1>1, <1>2, <1>3, WriteKeeps, PaymentKeeps, ReadKeeps DEF Init, SystemInv

LEMMA StepSystem == SystemInv /\ [Next]_vars => SystemInv'
  BY Whose, WriteStep, PayStep, ReadStep, RestartStep, RestStep

-----------------------------------------------------------------------------
(* The stored outcome, the charged payment and the view *)

LEMMA SameStatus ==
    ASSUME NEW o
    PROVE  StatusOf(o) = WP!StatusOf(o)
  BY DEF StatusOf, CurrentOrder, Load, LoadFromEvents, NewOrder, Newest, StatusAfter,
         EventOrderCreated, EventOrderPaid, EventOrderCancelled, WP!StatusOf,
         WP!CurrentOrder, WP!Load, WP!LoadFromEvents, WP!NewOrder, WP!Newest,
         WP!StatusAfter, WP!EventOrderCreated, WP!EventOrderPaid, WP!EventOrderCancelled

\* What a view rests on: the stored event whose message the projector took.
LEMMA AnnouncedStored ==
    ASSUME SystemInv, NEW o, NEW subject \in OrderSubjects, NEW payment,
           RP!Announced(o, subject, payment)
    PROVE  \E e \in store : /\ e.order = o /\ e.payment = payment
                            /\ WP!NatsSubject(e.type) = subject
  <1>1. PICK i \in 1..Len(streams["ORDERS"]) :
           streams["ORDERS"][i] = [subject |-> subject, order |-> o, payment |-> payment]
    BY DEF RP!Announced, RP!Stored
  <1>2. PICK e \in store : streams["ORDERS"][i] = WP!OrderMessage(e)
    BY DEF SystemInv, WP!WriteInv, WP!FeedInv, WP!Log
  <1> QED
    BY <1>1, <1>2 DEF WP!OrderMessage

LEMMA OutcomesFollow == SystemInv => OutcomesAgree
  <1> SUFFICES ASSUME SystemInv PROVE OutcomesAgree
    OBVIOUS
  <1> USE DEF WP!EventOrderCreated, WP!EventOrderPaid, WP!EventOrderCancelled,
              EventOrderCreated, EventOrderPaid, EventOrderCancelled
  <1>1. \A e \in store : e.type = EventOrderPaid => ChargedFor(e.payment, e.order)
    BY PaidIsCharged
  <1>2. WP!HistoryWellFormed /\ \A e \in store : e.type \in WP!EventTypes
    BY DEF SystemInv, WP!WriteInv, WP!IInv, WP!TypeOK, WP!EventStoreType, WP!StoredEvent
  <1>3. \A e \in store : /\ e.type # "order.created" => e.version = 2
                         /\ WP!NatsSubject(e.type) = "orders.paid" => e.type = "order.paid"
                         /\ WP!NatsSubject(e.type) = "orders.cancelled"
                            => e.type = "order.cancelled"
    BY <1>2 DEF WP!HistoryWellFormed, WP!NatsSubject, WP!EventTypes
  <1>4. ASSUME NEW o \in Orders, NEW e \in store, e.order = o, e.type # "order.created"
        PROVE  StatusOf(o) = WP!StatusAfter(e.type)
    BY <1>2, <1>3, <1>4, SameStatus, WP!StatusByRows, SystemAssumption, NoPaymentAssumption,
       StreamOfAssumption, FaultsAssumption, StockAssumption
    DEF WP!OrderItem, Write!OrderItem, WP!PaymentHandler, Write!PaymentHandler,
        WP!PaymentSubjects, PaymentSubjects, WP!Streams, Streams, WP!Consumers, Consumers
  <1>5. ASSUME NEW o \in Orders, Read!Found(o)
        PROVE  /\ Load(o) # {}
               /\ views[o].status \in {"pending", StatusOf(o)}
               /\ views[o].status = "paid" => ChargedFor(views[o].payment, o)
    <2>1. RP!True(o, views[o])
      BY <1>5 DEF SystemInv, RP!ReadInv, RP!TruthInv, RP!ViewsTrue, Read!Found, RP!Found
    <2>2. Load(o) # {}
      BY <2>1, AnnouncedStored DEF RP!True, OrderSubjects, Load
    <2>3. CASE views[o] = RP!PendingView
      BY <2>2, <2>3 DEF RP!PendingView
    <2>4. CASE views[o].status = "paid" /\ RP!Announced(o, "orders.paid", views[o].payment)
      <3>1. PICK e \in store : /\ e.order = o /\ e.payment = views[o].payment
                               /\ WP!NatsSubject(e.type) = "orders.paid"
        BY <2>4, AnnouncedStored DEF OrderSubjects
      <3>2. e.type = "order.paid"
        BY <1>3, <3>1
      <3>3. StatusOf(o) = "paid"
        BY <1>4, <3>1, <3>2 DEF WP!StatusAfter
      <3> QED
        BY <1>1, <2>2, <2>4, <3>1, <3>2, <3>3
    <2>5. CASE views[o].status = "cancelled" /\ RP!Announced(o, "orders.cancelled", NoPayment)
      <3>1. PICK e \in store : e.order = o /\ WP!NatsSubject(e.type) = "orders.cancelled"
        BY <2>5, AnnouncedStored DEF OrderSubjects
      <3>2. e.type = "order.cancelled"
        BY <1>3, <3>1
      <3>3. StatusOf(o) = "cancelled"
        BY <1>4, <3>1, <3>2 DEF WP!StatusAfter
      <3> QED
        BY <2>2, <2>5, <3>3
    <2> QED
      BY <2>1, <2>3, <2>4, <2>5 DEF RP!True
  <1> QED
    BY <1>1, <1>5 DEF OutcomesAgree

\* Across the three databases, whatever fails and whenever: an order is stored as paid
\* only by a payment charged for it, and no view shows an outcome that is not the stored
\* one.
THEOREM OutcomesAlwaysAgree == Spec => []OutcomesAgree
  <1>1. Init => SystemInv
    BY InitSystem
  <1>2. SystemInv /\ [Next]_vars => SystemInv'
    BY StepSystem
  <1>3. SystemInv => OutcomesAgree
    BY OutcomesFollow
  <1> QED
    BY <1>1, <1>2, <1>3, PTL DEF Spec

-----------------------------------------------------------------------------
(* Each component is the environment of the others *)

\* What the write side needs of its stream to announce in order.
OrderlyInv == SystemInv /\ WP!KnownInv /\ WP!CreatedFirst

LEMMA OneStreamAtATime ==
    ASSUME Typed
    PROVE  /\ UNCHANGED streams => ~Published("ORDERS") /\ ~Published("PAYMENTS")
           /\ PublishesOrder => ~Published("PAYMENTS")
           /\ PublishesPayment => ~Published("ORDERS")
  BY DEF Published, PublishesOrder, PublishesPayment, Publish, Typed, JetStreamType, Streams

\* Which message a step put on the stream the stream itself tells.
LEMMA OneMessage ==
    ASSUME Typed, NEW s \in Streams, NEW m \in Message, Publish(s, m)
    PROVE  /\ ~UNCHANGED streams
           /\ \A n \in Message : Publish(s, n) => n = m
  <1>1. \A n \in Message : Publish(s, n) =>
           /\ Len(streams[s]) \in Nat
           /\ Len(streams'[s]) = Len(streams[s]) + 1
           /\ streams'[s][Len(streams[s]) + 1] = n
    BY PublishAppends DEF Typed
  <1> QED
    BY <1>1

\* A step of the write side keeps its own announcements in order.
LEMMA WriteOrderly ==
    ASSUME "publish_error" \notin FaultKinds, OrderlyInv, WP!ServiceStep
    PROVE  WP!KnownInv' /\ WP!CreatedFirst'
  <1> USE SystemAssumption, NoPaymentAssumption, StreamOfAssumption, FaultsAssumption,
          StockAssumption
      DEF WP!OrderItem, Write!OrderItem, WP!PaymentHandler, Write!PaymentHandler,
          WP!PaymentSubjects, PaymentSubjects, WP!Streams, Streams, WP!Consumers, Consumers
  <1>1. WP!FirstInv
    BY DEF OrderlyInv, SystemInv, WP!WriteInv, WP!FirstInv
  <1>2. [WP!Next]_(WP!vars)
    BY DEF WP!ServiceStep, WP!Next
  <1>3. WP!FirstInv'
    BY <1>1, <1>2, WP!StepFirstInv
  <1> QED
    BY <1>3 DEF WP!FirstInv

\* So does whatever the write side stands aside of.
LEMMA AsideOrderly ==
    ASSUME OrderlyInv, WP!Aside,
           \A m \in WP!Message : WP!Publish("PAYMENTS", m) => WP!Known(m.order)
    PROVE  WP!KnownInv' /\ WP!CreatedFirst'
  BY WP!AsideKnown, SystemAssumption, NoPaymentAssumption, StreamOfAssumption,
     FaultsAssumption, StockAssumption
  DEF OrderlyInv, SystemInv, WP!OrderItem, Write!OrderItem, WP!PaymentHandler,
      Write!PaymentHandler, WP!PaymentSubjects, PaymentSubjects, WP!Streams, Streams,
      WP!Consumers, Consumers

LEMMA RestartsOrderly ==
    ASSUME OrderlyInv, WP!Restarts
    PROVE  WP!KnownInv' /\ WP!CreatedFirst'
  BY WP!RestartsKnown, SystemAssumption, NoPaymentAssumption, StreamOfAssumption,
     FaultsAssumption, StockAssumption
  DEF OrderlyInv, SystemInv, WP!OrderItem, Write!OrderItem, WP!PaymentHandler,
      Write!PaymentHandler, WP!PaymentSubjects, PaymentSubjects, WP!Streams, Streams,
      WP!Consumers, Consumers

LEMMA SameCreated ==
    ASSUME NEW o
    PROVE  WP!OrderMessage(WP!OrderCreated(o))
           = [subject |-> "orders.created", order |-> o, payment |-> NoPayment]
  BY DEF WP!OrderMessage, WP!OrderCreated, WP!NewOrder, WP!NatsSubject, WP!EventOrderCreated,
         WP!EventOrderPaid, WP!EventOrderCancelled

LEMMA StepOrderly ==
    ASSUME "publish_error" \notin FaultKinds, OrderlyInv, [Next]_vars
    PROVE  OrderlyInv'
  <1>1. SystemInv' /\ Typed /\ Typed'
    BY StepSystem, SharedTypes, SharedTypesNext DEF OrderlyInv, SystemInv
  <1>2. ASSUME UNCHANGED writeVars, UNCHANGED streams
        PROVE  WP!KnownInv' /\ WP!CreatedFirst'
    <2>1. WP!Aside
      BY <1>1, <1>2, BesideWrite
    <2>2. \A m \in Message : ~Publish("PAYMENTS", m)
      BY <1>1, <1>2, OneMessage DEF Streams
    <2>3. \A m \in WP!Message : ~WP!Publish("PAYMENTS", m)
      BY <2>2 DEF Message, WP!Message, OrderSubjects, WP!OrderSubjects, PaymentSubjects,
                  WP!PaymentSubjects, Publish, WP!Publish
    <2> QED
      BY <2>1, <2>3, AsideOrderly
  <1>3. CASE WP!ServiceStep /\ WriteOnly
    BY <1>1, <1>3, WriteOrderly DEF OrderlyInv
  <1>4. CASE PP!ServiceStep /\ PayAlone
    <2>1. CASE UNCHANGED streams
      BY <1>1, <1>2, <1>4, <2>1 DEF PayAlone, OrderlyInv
    <2>2. CASE ~UNCHANGED streams
      <3>1. PICK p \in Payments, o \in Orders :
               /\ Publish("PAYMENTS", PaymentMessage("payments.completed", o, p))
               /\ Stored("ORDERS", [subject |-> "orders.created", order |-> o,
                                    payment |-> NoPayment])
        BY <1>4, <2>2, PayTells DEF OrderlyInv
      <3> DEFINE n == PaymentMessage("payments.completed", o, p)
      <3>2. n \in Message /\ n.order = o
        BY DEF PaymentMessage, Message, PaymentSubjects
      <3>3. Publish("PAYMENTS", n)
        BY <3>1
      <3> HIDE DEF n
      <3>4. WP!Known(o)
        BY <3>1, SameCreated DEF WP!Known, WP!CreatedMessage, WP!Stored, Stored
      <3>5. ASSUME NEW m \in Message, Publish("PAYMENTS", m)
            PROVE  WP!Known(m.order)
        BY <1>1, <3>2, <3>3, <3>4, <3>5, OneMessage DEF Streams
      <3>6. \A m \in WP!Message : WP!Publish("PAYMENTS", m) => WP!Known(m.order)
        BY <3>5 DEF Message, WP!Message, OrderSubjects, WP!OrderSubjects, PaymentSubjects,
                    WP!PaymentSubjects, Publish, WP!Publish
      <3>7. WP!Aside
        BY <1>1, <1>4, <3>2, <3>3, BesideWrite DEF PayAlone, PublishesPayment
      <3> QED
        BY <1>1, <3>6, <3>7, AsideOrderly DEF OrderlyInv
    <2> QED
      BY <2>1, <2>2
  <1>5. CASE (RP!ProjStep \/ \E o \in Orders : RP!Expire(o)) /\ ReadOnly
    BY <1>1, <1>2, <1>5, ReadStep DEF ReadOnly, OrderlyInv
  <1>6. CASE OrderServiceEnds
    BY <1>1, <1>6, RestartStep, RestartsOrderly DEF OrderlyInv
  <1>7. CASE UNCHANGED vars
    BY <1>1, <1>2, <1>7 DEF vars, OrderlyInv
  <1> QED
    BY <1>3, <1>4, <1>5, <1>6, <1>7, Whose

LEMMA InitOrderly == Init => OrderlyInv
  <1> SUFFICES ASSUME Init PROVE OrderlyInv
    OBVIOUS
  <1>1. SystemInv
    BY InitSystem
  <1>2. /\ streams["ORDERS"] = << >> /\ streams["PAYMENTS"] = << >>
        /\ \A o \in Orders : place[o].pc = "idle"
        /\ \A c \in Cancels : cancel[c].pc = "idle"
    BY DEF Init, Write!Init, Write!JetStreamInit, Write!Streams
  <1> QED
    BY <1>1, <1>2 DEF OrderlyInv, WP!KnownInv, WP!CreatedFirst

\* Every announcement of the write side is one its readers expect.
LEMMA OrdersExpected ==
    ASSUME "publish_error" \notin FaultKinds, OrderlyInv, WP!ServiceStep, WriteOnly,
           Published("ORDERS")
    PROVE  \E o \in Orders, msg \in Message :
              Pay!OrderAnnounced(o, msg) /\ Read!OrderAnnounced(o, msg)
  <1> USE SystemAssumption, NoPaymentAssumption, StreamOfAssumption, FaultsAssumption,
          StockAssumption
      DEF WP!OrderItem, Write!OrderItem, WP!PaymentHandler, Write!PaymentHandler,
          WP!PaymentSubjects, PaymentSubjects, WP!Streams, Streams, WP!Consumers, Consumers
  <1>1. SystemInv /\ WP!WriteInv /\ WP!TypeOK /\ WP!HistoryWellFormed
    BY DEF OrderlyInv, SystemInv, WP!WriteInv, WP!IInv
  <1>2. ~UNCHANGED WP!Log
    BY DEF Published, WP!Log
  <1>3. [WP!Next]_(WP!vars)
    BY DEF WP!ServiceStep, WP!Next
  <1>4. PICK e \in store :
           /\ WP!Publish("ORDERS", WP!OrderMessage(e)) /\ WP!NoFault /\ UNCHANGED consumers
           /\ IF e.type = WP!EventOrderCreated
              THEN \A i \in 1..Len(WP!Log) : WP!Log[i].order # e.order
              ELSE /\ WP!Known(e.order)
                   /\ \A i \in 1..Len(WP!Log) :
                         WP!Log[i].order = e.order => WP!Log[i].subject = "orders.created"
           /\ e.type # WP!EventOrderPaid => e.payment = NoPayment
    BY <1>1, <1>2, <1>3, WP!AnnouncedRightly DEF OrderlyInv
  <1> DEFINE o == e.order
             msg == WP!OrderMessage(e)
  <1>5. /\ e.order \in Orders /\ e.payment \in Payments \cup {NoPayment}
        /\ e.type \in {"order.created", "order.paid", "order.cancelled"}
    BY <1>1 DEF WP!TypeOK, WP!EventStoreType, WP!StoredEvent, WP!EventTypes,
                WP!EventOrderCreated, WP!EventOrderPaid, WP!EventOrderCancelled
  <1>6. /\ msg \in Message /\ msg.order = o /\ msg.payment = e.payment
        /\ msg.subject \in OrderSubjects
        /\ msg.subject = "orders.paid" <=> e.type = "order.paid"
        /\ msg.subject = "orders.created" <=> e.type = "order.created"
    BY <1>5 DEF Message, OrderSubjects, WP!OrderMessage, WP!NatsSubject,
                WP!EventOrderCreated, WP!EventOrderPaid, WP!EventOrderCancelled
  <1>7. e.type = "order.paid" =>
           /\ e.payment \in Payments
           /\ Stored("PAYMENTS", PaymentMessage("payments.completed", o, e.payment))
    <2> SUFFICES ASSUME e.type = "order.paid"
                 PROVE  /\ e.payment \in Payments
                        /\ Stored("PAYMENTS", PaymentMessage("payments.completed", o, e.payment))
      OBVIOUS
    <2>1. e.payment \in Payments
      BY <1>1, PaidIsCharged DEF ChargedFor, EventOrderPaid
    <2>2. WP!Stored("PAYMENTS", WP!PaymentMessage("payments.completed", o, e.payment))
      BY <1>1 DEF WP!WriteInv, WP!PaidByItsPayment, WP!EventOrderPaid
    <2> QED
      BY <2>1, <2>2 DEF WP!Stored, Stored, WP!PaymentMessage, PaymentMessage
  <1>8. msg.payment = NoPayment <=> msg.subject # "orders.paid"
    BY <1>4, <1>6, <1>7 DEF WP!EventOrderPaid
  <1>9. IF msg.subject = "orders.created" THEN Pay!About(o) = {}
        ELSE /\ Pay!About(o) # {}
             /\ \A i \in Pay!About(o) : streams["ORDERS"][i].subject = "orders.created"
    <2>1. WP!Known(o) => Pay!About(o) # {}
      BY SameCreated DEF WP!Known, WP!CreatedMessage, WP!Stored, Pay!About
    <2> QED
      BY <1>4, <1>6, <2>1 DEF Pay!About, WP!Log, WP!EventOrderCreated
  <1> HIDE DEF o, msg
  <1>10. Pay!Publish("ORDERS", msg) /\ Read!Publish("ORDERS", msg)
    BY <1>4 DEF WP!Publish, Pay!Publish, Read!Publish, msg
  <1>11. /\ Pay!NoFault /\ Read!NoFault
         /\ UNCHANGED <<consumers, payVars, readVars>>
    BY <1>4 DEF WP!NoFault, Pay!NoFault, Read!NoFault, WriteOnly
  <1>12. /\ msg.subject = "orders.paid" =>
            Pay!Stored("PAYMENTS", Pay!PaymentMessage("payments.completed", o, msg.payment))
         /\ o \in Orders /\ msg \in Message
    BY <1>5, <1>6, <1>7 DEF o, Stored, Pay!Stored, PaymentMessage, Pay!PaymentMessage
  <1>13. Pay!OrderAnnounced(o, msg)
    BY <1>6, <1>8, <1>9, <1>10, <1>11, <1>12
    DEF Pay!OrderAnnounced, OrderSubjects, Pay!OrderSubjects, payVars
  <1>14. Read!OrderAnnounced(o, msg)
    BY <1>6, <1>8, <1>9, <1>10, <1>11
    DEF Read!OrderAnnounced, OrderSubjects, Read!OrderSubjects, Pay!About, readVars
  <1> QED
    BY <1>12, <1>13, <1>14

\* Every answer of the payment service is one the write side expects.
LEMMA PaymentsExpected ==
    ASSUME "payments.completed" \in PaymentOutcomes, OrderlyInv, PP!ServiceStep, PayAlone,
           Published("PAYMENTS")
    PROVE  \E p \in Payments, o \in Orders, s \in PaymentSubjects : Write!PaymentSettled(p, o, s)
  <1>1. PICK p \in Payments, o \in Orders :
           /\ Publish("PAYMENTS", PaymentMessage("payments.completed", o, p))
           /\ NoFault /\ UNCHANGED consumers
           /\ Stored("ORDERS", [subject |-> "orders.created", order |-> o,
                                payment |-> NoPayment])
           /\ \A i \in 1..Len(streams["PAYMENTS"]) : streams["PAYMENTS"][i].payment # p
    BY PayTells DEF OrderlyInv, Published
  <1>2. Write!Stored("ORDERS", Write!OrderMessage(Write!OrderCreated(o)))
    BY <1>1 DEF Stored, Write!Stored, Write!OrderMessage, Write!OrderCreated, Write!NewOrder,
                Write!NatsSubject, Write!EventOrderCreated, Write!EventOrderPaid,
                Write!EventOrderCancelled
  <1>3. Write!PaymentSettled(p, o, "payments.completed")
    BY <1>1, <1>2
    DEF Write!PaymentSettled, Publish, Write!Publish, PaymentMessage, Write!PaymentMessage,
        NoFault, Write!NoFault, PayAlone, writeVars
  <1> QED
    BY <1>3 DEF PaymentSubjects

\* Whatever a component of the system publishes, its readers were modelled and proved in
\* an environment that publishes such a message: the order service announces each order
\* once, its outcome after it and a payment that was told, the payment service tells of
\* each payment once, for an order that was announced.
THEOREM EnvironmentsAreMet ==
    ASSUME "publish_error" \notin FaultKinds, "payments.completed" \in PaymentOutcomes
    PROVE  Spec => EnvironmentsHold
  <1> DEFINE Expected ==
        /\ Published("ORDERS") => \E o \in Orders, msg \in Message :
              Pay!OrderAnnounced(o, msg) /\ Read!OrderAnnounced(o, msg)
        /\ Published("PAYMENTS") => \E p \in Payments, o \in Orders, s \in PaymentSubjects :
              Write!PaymentSettled(p, o, s)
  <1>1. Init => OrderlyInv
    BY InitOrderly
  <1>2. OrderlyInv /\ [Next]_vars => OrderlyInv'
    BY StepOrderly
  <1>3. OrderlyInv /\ [Next]_vars => [Expected]_vars
    <2> SUFFICES ASSUME OrderlyInv, [Next]_vars PROVE Expected
      OBVIOUS
    <2> HIDE DEF Expected
    <2>1. SystemInv /\ Typed
      BY SharedTypes DEF OrderlyInv, SystemInv
    <2>2. UNCHANGED streams => Expected
      BY <2>1, OneStreamAtATime DEF Expected
    <2>3. CASE WP!ServiceStep /\ WriteOnly
      BY <2>1, <2>2, <2>3, WriteTells, OneStreamAtATime, OrdersExpected DEF Expected
    <2>4. CASE PP!ServiceStep /\ PayAlone
      <3>1. UNCHANGED streams \/ PublishesPayment
        BY <2>1, <2>4, PayTells
        DEF PublishesPayment, PaymentMessage, Message, PaymentSubjects
      <3> QED
        BY <2>1, <2>2, <2>4, <3>1, OneStreamAtATime, PaymentsExpected DEF Expected
    <2>5. CASE (RP!ProjStep \/ \E o \in Orders : RP!Expire(o)) /\ ReadOnly
      BY <2>1, <2>2, <2>5, ReadStep
    <2>6. CASE OrderServiceEnds
      BY <2>1, <2>2, <2>6, RestartStep
    <2>7. CASE UNCHANGED vars
      BY <2>2, <2>7 DEF vars
    <2> QED
      BY <2>3, <2>4, <2>5, <2>6, <2>7, Whose
  <1> QED
    BY <1>1, <1>2, <1>3, PTL DEF Spec, EnvironmentsHold

-----------------------------------------------------------------------------
(***************************************************************************)
(* How the processes come up (ServiceStartup), for every set of deployed   *)
(* processes and every kind and number of failures.                        *)
(***************************************************************************)

\* The steps of main that p is past.
Past(p) == {Main[p][i] : i \in 1..(at[p] - 1)}

\* The process that spawns g.
Home(g) ==
    IF g = "payments" THEN "payment-service"
    ELSE IF g = "bridge" THEN "bridge-service" ELSE "order-service"

\* What holds of the steps of every main.
StepOK(p, i) ==
    LET step == Main[p][i]
    IN  /\ step.do = "adds" => step.what \in StreamNames /\ step = Adds(step.what)
        /\ step.do = "spawns" => step.what \in Goroutines /\ step = Spawns(step.what)
                                 /\ p = Home(step.what)

\* The streams are added before the first goroutine is spawned.
AddsFirst(p) ==
    \A i, j \in 1..Len(Main[p]) :
        Main[p][i].do = "adds" /\ Main[p][j].do = "spawns" => i < j

\* No goroutine is spawned twice.
SpawnsOnce(p) ==
    \A i, j \in 1..Len(Main[p]) :
        Main[p][i].do = "spawns" /\ Main[p][i] = Main[p][j] => i = j

LEMMA Mains ==
    /\ Main["user-service"] = UserService
    /\ Main["product-service"] = ProductService
    /\ Main["order-service"] = OrderService
    /\ Main["payment-service"] = PaymentService
    /\ Main["bridge-service"] = BridgeService
    /\ Main["notification-service"] = NotificationService
  BY DEF Main, Processes

LEMMA Kinds ==
    /\ \A x : Needs(x).do = "needs" /\ Needs(x).what = x
    /\ \A x : Adds(x).do = "adds" /\ Adds(x).what = x
    /\ \A x : Spawns(x).do = "spawns" /\ Spawns(x).what = x
    /\ Serves.do = "serves"
  BY DEF Needs, Adds, Spawns, Serves

\* The steps of each main, one by one.
LEMMA OtherMains ==
    ASSUME NEW m \in {UserService, ProductService, NotificationService}
    PROVE  Len(m) = 2 /\ m[1] = Needs("postgres")
           /\ (m[2] = Serves \/ m[2] = Needs("rabbitmq"))
  BY DEF UserService, ProductService, NotificationService

LEMMA OrderMain ==
    LET m == OrderService
    IN  /\ Len(m) = 7
        /\ m[1] = Needs("postgres") /\ m[2] = Needs("redis") /\ m[3] = Needs("nats")
        /\ m[4] = Adds("ORDERS") /\ m[5] = Spawns("projector")
        /\ m[6] = Spawns("payment subscriber") /\ m[7] = Serves
  BY DEF OrderService

LEMMA PaymentMain ==
    LET m == PaymentService
    IN  /\ Len(m) = 5
        /\ m[1] = Needs("postgres") /\ m[2] = Needs("nats")
        /\ m[3] = Adds("PAYMENTS") /\ m[4] = Spawns("payments") /\ m[5] = Serves
  BY DEF PaymentService

LEMMA BridgeMain ==
    LET m == BridgeService
    IN  /\ Len(m) = 3
        /\ m[1] = Needs("nats") /\ m[2] = Needs("rabbitmq") /\ m[3] = Spawns("bridge")
  BY DEF BridgeService

\* What one step of a main may be.
LEMMA StepOf ==
    ASSUME NEW p, NEW i
    PROVE  /\ \A b : Main[p][i] = Needs(b) => StepOK(p, i)
           /\ Main[p][i] = Serves => StepOK(p, i)
           /\ \A s \in StreamNames : Main[p][i] = Adds(s) => StepOK(p, i)
           /\ \A g \in Goroutines : Main[p][i] = Spawns(g) /\ p = Home(g) => StepOK(p, i)
  <1>1. /\ "needs" # "adds" /\ "needs" # "spawns" /\ "serves" # "adds" /\ "serves" # "spawns"
        /\ "adds" # "spawns"
    OBVIOUS
  <1> QED
    BY <1>1, Kinds, Zenon DEF StepOK

\* A stream is added before any goroutine is spawned.
LEMMA MainOK ==
    ASSUME NEW p \in Processes
    PROVE  /\ Len(Main[p]) \in Nat
           /\ \A i \in 1..Len(Main[p]) : StepOK(p, i)
           /\ AddsFirst(p) /\ SpawnsOnce(p)
  <1> DEFINE m == Main[p]
  <1>1. {"ORDERS", "PAYMENTS"} \subseteq StreamNames
        /\ {"projector", "payment subscriber", "payments", "bridge"} \subseteq Goroutines
    BY DEF StreamNames, Goroutines
  <1>2. /\ "needs" # "adds" /\ "needs" # "spawns" /\ "serves" # "adds" /\ "serves" # "spawns"
        /\ "adds" # "spawns"
    OBVIOUS
  <1>3. /\ \A i \in 1..2 : i \in {1, 2}
        /\ \A i \in 1..3 : i \in {1, 2, 3}
        /\ \A i \in 1..5 : i \in {1, 2, 3, 4, 5}
        /\ \A i \in 1..7 : i \in {1, 2, 3, 4, 5, 6, 7}
        /\ 2 \in Nat /\ 3 \in Nat /\ 5 \in Nat /\ 7 \in Nat
    OBVIOUS
  <1>4. ASSUME p \in {"user-service", "product-service", "notification-service"}
        PROVE  /\ Len(m) \in Nat
               /\ \A i \in 1..Len(m) : StepOK(p, i)
               /\ AddsFirst(p) /\ SpawnsOnce(p)
    <2>1. m \in {UserService, ProductService, NotificationService}
      BY <1>4, Mains
    <2>2. /\ Len(m) = 2 /\ m[1] = Needs("postgres")
          /\ (m[2] = Serves \/ m[2] = Needs("rabbitmq"))
      BY <2>1, OtherMains
    <2>3. StepOK(p, 1) /\ StepOK(p, 2)
      BY <2>2, StepOf, Zenon
    <2>4. \A i \in {1, 2} : m[i].do # "adds" /\ m[i].do # "spawns"
      BY <1>2, <2>2, Kinds, Zenon
    <2> QED
      BY <1>3, <2>2, <2>3, <2>4, Zenon DEF AddsFirst, SpawnsOnce
  <1>5. CASE p = "order-service"
    <2>1. Len(m) = 7
      BY <1>5, Mains, OrderMain, Zenon
    <2>2. p = Home("projector") /\ p = Home("payment subscriber")
      BY <1>5 DEF Home
    <2>3. \A i \in {1, 2, 3, 4, 5, 6, 7} : StepOK(p, i)
      BY <1>1, <1>5, <2>2, Mains, OrderMain, StepOf, Zenon
    <2>4. /\ m[1].do = "needs" /\ m[2].do = "needs" /\ m[3].do = "needs" /\ m[4].do = "adds"
          /\ m[5].do = "spawns" /\ m[6].do = "spawns" /\ m[7].do = "serves"
      <3>1. m = OrderService
        BY <1>5, Mains, Zenon
      <3> HIDE DEF m
      <3>2. m[1].do = "needs" /\ m[2].do = "needs" /\ m[3].do = "needs"
        <4>1. m[1] = Needs("postgres") /\ m[2] = Needs("redis") /\ m[3] = Needs("nats")
          BY <3>1, OrderMain
        <4> QED
          BY <4>1, Kinds
      <3>3. m[4].do = "adds" /\ m[5].do = "spawns"
        BY <3>1, OrderMain, Kinds
      <3>4. m[6].do = "spawns" /\ m[7].do = "serves"
        BY <3>1, OrderMain, Kinds
      <3> QED
        BY <3>2, <3>3, <3>4
    <2>5. ASSUME NEW i \in 1..7, NEW j \in 1..7, m[i].do = "adds", m[j].do = "spawns"
          PROVE  i < j
      <3>1. i = 4
        BY <1>2, <1>3, <2>4, <2>5, Zenon
      <3>2. j = 5 \/ j = 6
        BY <1>2, <1>3, <2>4, <2>5, Zenon
      <3> HIDE DEF m
      <3> QED
        BY <3>1, <3>2
    <2>6. AddsFirst(p)
      BY <2>1, <2>5, Zenon DEF AddsFirst
    <2>7. SpawnsOnce(p)
      <3>1. "projector" # "payment subscriber"
        OBVIOUS
      <3>2. m[5] = Spawns("projector") /\ m[6] = Spawns("payment subscriber")
        BY <1>5, Mains, OrderMain, Zenon
      <3>3. m[5] # m[6]
        <4>1. m[5].what = "projector" /\ m[6].what = "payment subscriber"
          <5> HIDE DEF m
          <5> QED
            BY <3>2, Kinds
        <4> QED
          BY <3>1, <4>1, Zenon
      <3>4. \A i \in 1..7 : m[i].do = "spawns" => i = 5 \/ i = 6
        BY <1>2, <1>3, <2>4, Zenon
      <3> QED
        BY <2>1, <3>3, <3>4, Zenon DEF SpawnsOnce
    <2> QED
      BY <1>3, <2>1, <2>3, <2>6, <2>7, Zenon
  <1>6. CASE p = "payment-service"
    <2>1. Len(m) = 5
      BY <1>6, Mains, PaymentMain, Zenon
    <2>2. p = Home("payments")
      BY <1>6 DEF Home
    <2>3. \A i \in {1, 2, 3, 4, 5} : StepOK(p, i)
      BY <1>1, <1>6, <2>2, Mains, PaymentMain, StepOf, Zenon
    <2>4. /\ m[1].do = "needs" /\ m[2].do = "needs" /\ m[3].do = "adds"
          /\ m[4].do = "spawns" /\ m[5].do = "serves"
      <3>1. m = PaymentService
        BY <1>6, Mains, Zenon
      <3> HIDE DEF m
      <3> QED
        BY <3>1, PaymentMain, Kinds
    <2>5. ASSUME NEW i \in 1..5, NEW j \in 1..5, m[i].do = "adds", m[j].do = "spawns"
          PROVE  i < j
      <3>1. i = 3 /\ j = 4
        BY <1>2, <1>3, <2>4, <2>5, Zenon
      <3> HIDE DEF m
      <3> QED
        BY <3>1
    <2>6. AddsFirst(p)
      BY <2>1, <2>5, Zenon DEF AddsFirst
    <2>7. SpawnsOnce(p)
      <3>1. \A i \in 1..5 : m[i].do = "spawns" => i = 4
        BY <1>2, <1>3, <2>4, Zenon
      <3> QED
        BY <2>1, <3>1, Zenon DEF SpawnsOnce
    <2> QED
      BY <1>3, <2>1, <2>3, <2>6, <2>7, Zenon
  <1>7. CASE p = "bridge-service"
    <2>1. Len(m) = 3
      BY <1>7, Mains, BridgeMain, Zenon
    <2>2. p = Home("bridge")
      BY <1>7 DEF Home
    <2>3. \A i \in {1, 2, 3} : StepOK(p, i)
      BY <1>1, <1>7, <2>2, Mains, BridgeMain, StepOf, Zenon
    <2>4. \A i \in {1, 2, 3} : m[i].do # "adds" /\ (m[i].do = "spawns" => i = 3)
      BY <1>2, <1>7, Mains, BridgeMain, Kinds, Zenon
    <2>5. \A i \in 1..3 : m[i].do # "adds" /\ (m[i].do = "spawns" => i = 3)
      BY <1>3, <2>4, Zenon
    <2>6. AddsFirst(p) /\ SpawnsOnce(p)
      BY <2>1, <2>5, Zenon DEF AddsFirst, SpawnsOnce
    <2> QED
      BY <1>3, <2>1, <2>3, <2>6, Zenon
  <1> QED
    BY <1>4, <1>5, <1>6, <1>7 DEF Processes

\* Each goroutine is spawned by one process.
LEMMA OwnerOf ==
    ASSUME NEW g \in Goroutines
    PROVE  /\ Owner[g] = Home(g) /\ Home(g) \in Processes
           /\ \A p \in Processes : g \in Spawned[p] <=> p = Home(g)
  <1>1. Home(g) \in Processes
    BY DEF Home, Processes
  <1>2. ASSUME NEW p \in Processes, g \in Spawned[p]
        PROVE  p = Home(g)
    <2>1. PICK i \in 1..Len(Main[p]) : Main[p][i] = Spawns(g)
      BY <1>2 DEF Spawned, Has
    <2>2. StepOK(p, i)
      BY MainOK
    <2> QED
      BY <2>1, <2>2, Kinds, Zenon DEF StepOK
  <1>3. g \in Spawned[Home(g)]
    <2>1. \E i \in 1..Len(Main[Home(g)]) : Main[Home(g)][i] = Spawns(g)
      <3>1. CASE g = "projector"
        <4>1. Home(g) = "order-service" /\ 5 \in 1..7
          BY <3>1 DEF Home
        <4> QED
          BY <3>1, <4>1, Mains, OrderMain, Zenon
      <3>2. CASE g = "payment subscriber"
        <4>1. Home(g) = "order-service"
          BY <3>2 DEF Home
        <4>2. 6 \in 1..7
          OBVIOUS
        <4> QED
          BY <3>2, <4>1, <4>2, Mains, OrderMain, Zenon
      <3>3. CASE g = "payments"
        <4>1. Home(g) = "payment-service" /\ 4 \in 1..5
          BY <3>3 DEF Home
        <4> QED
          BY <3>3, <4>1, Mains, PaymentMain, Zenon
      <3>4. CASE g = "bridge"
        <4>1. Home(g) = "bridge-service" /\ 3 \in 1..3
          BY <3>4 DEF Home
        <4> QED
          BY <3>4, <4>1, Mains, BridgeMain, Zenon
      <3> QED
        BY <3>1, <3>2, <3>3, <3>4 DEF Goroutines
    <2> QED
      BY <1>1, <2>1 DEF Spawned, Has
  <1>4. Owner[g] \in Processes /\ g \in Spawned[Owner[g]]
    BY <1>1, <1>3 DEF Owner
  <1> QED
    BY <1>1, <1>2, <1>3, <1>4

LEMMA SubscribesType ==
    \A g \in Goroutines : Len(Subscribes[g]) \in {1, 2}
  <1>1. /\ Subscribes["projector"] = <<"ORDERS">>
        /\ Subscribes["payment subscriber"] = <<"PAYMENTS">>
        /\ Subscribes["payments"] = <<"ORDERS">>
        /\ Subscribes["bridge"] = <<"ORDERS", "PAYMENTS">>
    BY DEF Subscribes, Goroutines
  <1>2. \A x, y : Len(<<x>>) = 1 /\ Len(<<x, y>>) = 2
    OBVIOUS
  <1> QED
    BY <1>1, <1>2, Zenon DEF Goroutines

-----------------------------------------------------------------------------

\* The streams that existed when p was started and those it has added since exist.
Fresh(p) == known[p] \subseteq existing /\ \A s \in StreamNames : Adds(s) \in Past(p) => s \in existing

\* A goroutine that lives was spawned by its process, which still runs.
Alive(g) ==
    /\ state[g] = "subscribing" => stands[g] < Len(Subscribes[g])
    /\ stands[g] > 0 => state[g] # "none"
    /\ state[g] # "none" => Spawns(g) \in Past(Home(g))

StartInv ==
    /\ StartupTypeOK
    /\ \A g \in Goroutines : Alive(g)
    /\ \A p \in Processes : Running(p) /\ p \notin hit => Fresh(p)
    /\ SubscriptionsStand

\* A process that spawned a goroutine runs, and is past all the streams it adds.
LEMMA SpawnedPast ==
    ASSUME StartupTypeOK, NEW p \in Processes, NEW g \in Goroutines, Spawns(g) \in Past(p)
    PROVE  Running(p) /\ \A s \in Added[p] : Adds(s) \in Past(p)
  <1>1. at[p] \in Nat /\ at[p] <= Len(Main[p]) + 1 /\ Len(Main[p]) \in Nat
    BY MainOK DEF StartupTypeOK
  <1>2. PICK j \in 1..(at[p] - 1) : Main[p][j] = Spawns(g)
    BY DEF Past
  <1>3. j \in 1..Len(Main[p]) /\ at[p] # 0
    BY <1>1
  <1>4. ASSUME NEW s \in Added[p]
        PROVE  Adds(s) \in Past(p)
    <2>1. PICK i \in 1..Len(Main[p]) : Main[p][i] = Adds(s)
      BY DEF Added, Has
    <2>2. Main[p][i].do = "adds" /\ Main[p][j].do = "spawns"
      BY <1>2, <2>1, Kinds, Zenon
    <2>3. i < j
      BY <1>3, <2>2, MainOK DEF AddsFirst
    <2>4. i \in 1..(at[p] - 1)
      BY <1>1, <2>3
    <2> QED
      BY <2>1, <2>4 DEF Past
  <1> QED
    BY <1>3, <1>4 DEF Running

\* So what the process of a living goroutine knows of or has added exists.
LEMMA NeededExists ==
    ASSUME StartInv, NEW g \in Goroutines, state[g] # "none", Owner[g] \notin hit
    PROVE  known[Owner[g]] \cup Added[Owner[g]] \subseteq existing
  <1> DEFINE p == Owner[g]
  <1>1. p = Home(g) /\ p \in Processes
    BY OwnerOf
  <1>2. Running(p) /\ \A s \in Added[p] : Adds(s) \in Past(p)
    BY <1>1, SpawnedPast DEF StartInv, Alive
  <1>3. Fresh(p)
    BY <1>1, <1>2 DEF StartInv
  <1>4. Added[p] \subseteq StreamNames
    BY <1>1 DEF Added
  <1> QED
    BY <1>2, <1>3, <1>4 DEF Fresh

\* The steps a main is past: one more as it proceeds, none as it starts or ends.
LEMMA PastMoves ==
    ASSUME StartupTypeOK, NEW p \in Processes
    PROVE  /\ Proceeds(p) /\ at[p] # 0 =>
                 /\ Past(p)' = Past(p) \cup {Main[p][at[p]]}
                 /\ \A q \in Processes \ {p} : at'[q] = at[q]
                 /\ at'[p] # 0
           /\ at'[p] \in {0, 1} => Past(p)' = {}
           /\ at'[p] = at[p] => Past(p)' = Past(p)
  <1>1. at \in [Processes -> Nat]
    BY DEF StartupTypeOK
  <1>2. ASSUME Proceeds(p), at[p] # 0
        PROVE  /\ Past(p)' = Past(p) \cup {Main[p][at[p]]}
               /\ \A q \in Processes \ {p} : at'[q] = at[q]
               /\ at'[p] # 0
    <2>1. at' = [at EXCEPT ![p] = at[p] + 1]
      BY <1>2 DEF Proceeds
    <2>2. at'[p] = at[p] + 1 /\ at[p] \in Nat /\ \A q \in Processes \ {p} : at'[q] = at[q]
      BY <1>1, <2>1
    <2>3. 1..(at'[p] - 1) = 1..(at[p] - 1) \cup {at[p]}
      BY <1>2, <2>2
    <2>4. Past(p)' = {Main[p][i] : i \in 1..(at'[p] - 1)}
      BY DEF Past, Main
    <2>5. Past(p)' = Past(p) \cup {Main[p][at[p]]}
      BY <2>3, <2>4 DEF Past
    <2> QED
      BY <2>2, <2>5
  <1>3. ASSUME at'[p] \in {0, 1}
        PROVE  Past(p)' = {}
    <2>1. 1..(at'[p] - 1) = {}
      BY <1>3
    <2> QED
      BY <2>1 DEF Past
  <1>4. at'[p] = at[p] => Past(p)' = Past(p)
    BY DEF Past
  <1> QED
    BY <1>2, <1>3, <1>4
-----------------------------------------------------------------------------

\* Every step counts a failure or does not.
LEMMA FaultsStay ==
    ASSUME FaultsType, NoFault \/ \E kind : Fault(kind)
    PROVE  FaultsType'
  BY FaultsAssumption DEF FaultsType, NoFault, Fault

\* A process starts: it knows the streams there are.
LEMMA StartStarts ==
    ASSUME StartInv, NEW p \in Processes, Starts(p)
    PROVE  StartInv'
  <1>1. /\ at[p] = 0 /\ at' = [at EXCEPT ![p] = 1] /\ known' = [known EXCEPT ![p] = existing]
        /\ UNCHANGED <<up, existing, stands, state, hit>> /\ NoFault
    BY DEF Starts, Running
  <1>2. /\ at'[p] = 1 /\ known'[p] = existing
        /\ \A q \in Processes \ {p} : at'[q] = at[q] /\ known'[q] = known[q]
    BY <1>1 DEF StartInv, StartupTypeOK
  <1>3. \A q \in Processes : at'[q] = at[q] => Past(q)' = Past(q)
    BY PastMoves DEF StartInv
  <1>4. Past(p)' = {}
    BY <1>2, PastMoves DEF StartInv
  <1>5. StartupTypeOK'
    <2>1. FaultsType'
      BY <1>1, FaultsStay DEF StartInv, StartupTypeOK
    <2>2. Len(Main[p]) \in Nat
      BY MainOK
    <2>3. 1 \in 0..(Len(Main[p]) + 1)
      BY <2>2
    <2>4. at' \in [Processes -> Nat] /\ \A q \in Processes : at'[q] \in 0..(Len(Main[q]) + 1)
      BY <1>1, <1>2, <2>3 DEF StartInv, StartupTypeOK
    <2> QED
      BY <1>1, <2>1, <2>4 DEF StartInv, StartupTypeOK
  <1>6. ASSUME NEW g \in Goroutines
        PROVE  Alive(g)' /\ (state[g] # "none" => Home(g) # p)
    <2>1. Home(g) \in Processes
      BY OwnerOf
    <2>2. state[g] # "none" => Home(g) # p
      BY <1>1, <2>1, SpawnedPast DEF StartInv, Alive, Running
    <2>3. state[g] # "none" => Past(Home(g))' = Past(Home(g))
      BY <1>2, <1>3, <2>1, <2>2
    <2> QED
      BY <1>1, <2>2, <2>3 DEF StartInv, Alive
  <1>7. ASSUME NEW q \in Processes, at'[q] # 0, q \notin hit'
        PROVE  Fresh(q)'
    <2>1. CASE q = p
      BY <1>1, <1>2, <1>4, <2>1 DEF Fresh
    <2>2. CASE q # p
      <3>1. Fresh(q)
        BY <1>1, <1>2, <1>7, <2>2 DEF StartInv, Running
      <3> QED
        BY <1>1, <1>2, <1>3, <2>2, <3>1 DEF Fresh
    <2> QED
      BY <2>1, <2>2
  <1>8. SubscriptionsStand'
    <2> SUFFICES ASSUME NEW g \in Goroutines, state'[g] = "dead"
                 PROVE  \/ Owner[g] \in hit'
                        \/ Subscribes[g][stands'[g] + 1]
                              \notin known'[Owner[g]] \cup Added[Owner[g]]
      BY DEF SubscriptionsStand
    <2>1. Owner[g] = Home(g) /\ Home(g) \in Processes
      BY OwnerOf
    <2>2. known'[Owner[g]] = known[Owner[g]]
      BY <1>1, <1>2, <1>6, <2>1
    <2> QED
      BY <1>1, <2>2 DEF StartInv, SubscriptionsStand
  <1> QED
    BY <1>5, <1>6, <1>7, <1>8 DEF StartInv, Running

\* A process ends, and its goroutines with it.
LEMMA EndsKeeps ==
    ASSUME StartInv, NEW p \in Processes, Ends(p), NoFault \/ \E kind : Fault(kind)
    PROVE  StartInv'
  <1>1. /\ at' = [at EXCEPT ![p] = 0] /\ known' = [known EXCEPT ![p] = {}] /\ hit' = hit \ {p}
        /\ UNCHANGED <<up, existing>>
        /\ \A g \in Goroutines :
              /\ g \in Spawned[p] => state'[g] = "none" /\ stands'[g] = 0
              /\ g \notin Spawned[p] => state'[g] = state[g] /\ stands'[g] = stands[g]
    BY DEF Ends
  <1>2. /\ at'[p] = 0 /\ known'[p] = {}
        /\ \A q \in Processes \ {p} : at'[q] = at[q] /\ known'[q] = known[q]
    BY <1>1 DEF StartInv, StartupTypeOK
  <1>3. \A q \in Processes : at'[q] = at[q] => Past(q)' = Past(q)
    BY PastMoves DEF StartInv
  <1>4. \A g \in Goroutines :
          /\ Home(g) = p => state'[g] = "none" /\ stands'[g] = 0
          /\ Home(g) # p => state'[g] = state[g] /\ stands'[g] = stands[g]
          /\ Home(g) \in Processes /\ Owner[g] = Home(g)
    BY <1>1, OwnerOf
  <1>5. StartupTypeOK'
    <2>1. FaultsType'
      BY FaultsStay DEF StartInv, StartupTypeOK
    <2>2. Len(Main[p]) \in Nat
      BY MainOK
    <2>3. 0 \in 0..(Len(Main[p]) + 1)
      BY <2>2
    <2>4. at' \in [Processes -> Nat] /\ \A q \in Processes : at'[q] \in 0..(Len(Main[q]) + 1)
      BY <1>1, <1>2, <2>3 DEF StartInv, StartupTypeOK
    <2>5. /\ stands' \in [Goroutines -> 0..2]
          /\ state' \in [Goroutines -> {"none", "subscribing", "receiving", "dead"}]
      <3>1. stands' = [g \in Goroutines |-> IF g \in Spawned[p] THEN 0 ELSE stands[g]]
            /\ state' = [g \in Goroutines |-> IF g \in Spawned[p] THEN "none" ELSE state[g]]
        BY DEF Ends
      <3>2. 0 \in 0..2
        OBVIOUS
      <3> QED
        BY <3>1, <3>2 DEF StartInv, StartupTypeOK
    <2> QED
      BY <1>1, <2>1, <2>4, <2>5 DEF StartInv, StartupTypeOK
  <1>6. ASSUME NEW g \in Goroutines
        PROVE  Alive(g)'
    <2>1. CASE Home(g) = p
      <3>1. ~(0 > 0)
        OBVIOUS
      <3> QED
        BY <1>4, <2>1, <3>1, Zenon DEF Alive
    <2>2. CASE Home(g) # p
      <3>1. Past(Home(g))' = Past(Home(g))
        BY <1>2, <1>3, <1>4, <2>2
      <3> QED
        BY <1>4, <2>2, <3>1 DEF StartInv, Alive
    <2> QED
      BY <2>1, <2>2
  <1>7. ASSUME NEW q \in Processes, at'[q] # 0, q \notin hit'
        PROVE  Fresh(q)'
    <2>1. q # p
      BY <1>2, <1>7
    <2>2. Fresh(q)
      BY <1>1, <1>2, <1>7, <2>1 DEF StartInv, Running
    <2> QED
      BY <1>1, <1>2, <1>3, <2>1, <2>2 DEF Fresh
  <1>8. SubscriptionsStand'
    <2> SUFFICES ASSUME NEW g \in Goroutines, state'[g] = "dead"
                 PROVE  \/ Owner[g] \in hit'
                        \/ Subscribes[g][stands'[g] + 1]
                              \notin known'[Owner[g]] \cup Added[Owner[g]]
      BY DEF SubscriptionsStand
    <2>1. Home(g) # p /\ Owner[g] = Home(g) /\ Home(g) \in Processes
      BY <1>4
    <2> QED
      BY <1>1, <1>2, <1>4, <2>1 DEF StartInv, SubscriptionsStand
  <1> QED
    BY <1>5, <1>6, <1>7, <1>8 DEF StartInv, Running

\* A main takes a step: streams may come to exist, a goroutine may be spawned, and a
\* stream it was to add exists from then on or the call has failed.
LEMMA ProceedsKeeps ==
    ASSUME StartInv, NEW p \in Processes, Proceeds(p), at[p] \in 1..Len(Main[p]),
           NoFault \/ \E kind : Fault(kind),
           UNCHANGED stands,
           existing \subseteq existing', existing' \subseteq StreamNames,
           hit \subseteq hit', hit' \subseteq Processes,
           \A s \in StreamNames : Main[p][at[p]] = Adds(s) => s \in existing' \/ p \in hit',
           state' \in [Goroutines -> {"none", "subscribing", "receiving", "dead"}],
           \A g \in Goroutines :
              \/ state'[g] = state[g]
              \/ state'[g] = "subscribing" /\ Main[p][at[p]] = Spawns(g)
    PROVE  StartInv'
  <1> DEFINE step == Main[p][at[p]]
  <1>1. UNCHANGED <<up, known>> /\ at' = [at EXCEPT ![p] = at[p] + 1]
    BY DEF Proceeds
  <1>2. at[p] \in Nat /\ at[p] # 0 /\ Len(Main[p]) \in Nat
    BY MainOK DEF StartInv, StartupTypeOK
  <1>3. /\ Past(p)' = Past(p) \cup {step}
        /\ \A q \in Processes \ {p} : at'[q] = at[q] /\ Past(q)' = Past(q)
    BY <1>2, PastMoves DEF StartInv
  <1>4. StartupTypeOK'
    <2>1. FaultsType'
      BY FaultsStay DEF StartInv, StartupTypeOK
    <2>2. at[p] + 1 \in 0..(Len(Main[p]) + 1) /\ at[p] + 1 \in Nat
      BY <1>2
    <2>3. at' \in [Processes -> Nat] /\ \A q \in Processes : at'[q] \in 0..(Len(Main[q]) + 1)
      BY <1>1, <2>2 DEF StartInv, StartupTypeOK
    <2> QED
      BY <1>1, <2>1, <2>3 DEF StartInv, StartupTypeOK
  <1>5. ASSUME NEW g \in Goroutines
        PROVE  Alive(g)'
    <2>1. Home(g) \in Processes
      BY OwnerOf
    <2>2. CASE state'[g] = state[g]
      <3>1. state[g] # "none" => Spawns(g) \in Past(Home(g))'
        BY <1>3, <2>1 DEF StartInv, Alive
      <3> QED
        BY <2>2, <3>1 DEF StartInv, Alive
    <2>3. CASE state'[g] = "subscribing" /\ step = Spawns(g)
      <3>1. StepOK(p, at[p])
        BY MainOK
      <3>2. Home(g) = p /\ step.do = "spawns"
        <4>1. step.do = "spawns" /\ step.what = g
          BY <2>3, Kinds
        <4> QED
          BY <3>1, <4>1 DEF StepOK
      <3>3. Spawns(g) \notin Past(p)
        <4> SUFFICES ASSUME NEW i \in 1..(at[p] - 1), Main[p][i] = Spawns(g)
                     PROVE  FALSE
          BY DEF Past
        <4>1. i \in 1..Len(Main[p]) /\ i # at[p]
          BY <1>2
        <4>2. Main[p][i].do = "spawns" /\ Main[p][i] = step
          BY <2>3, <3>2
        <4> QED
          BY <4>1, <4>2, MainOK DEF SpawnsOnce
      <3>4. stands[g] \in 0..2 /\ ~(stands[g] > 0)
        BY <3>2, <3>3 DEF StartInv, Alive, StartupTypeOK
      <3>5. stands[g] < Len(Subscribes[g])
        <4>1. Len(Subscribes[g]) \in {1, 2}
          BY SubscribesType
        <4>2. \A m \in 0..2, n \in {1, 2} : ~(m > 0) => m < n
          OBVIOUS
        <4> QED
          BY <3>4, <4>1, <4>2, Zenon
      <3>6. Spawns(g) \in Past(Home(g))'
        BY <1>3, <2>3, <3>2
      <3> QED
        BY <2>3, <3>5, <3>6 DEF Alive
    <2> QED
      BY <2>2, <2>3
  <1>6. ASSUME NEW q \in Processes, at'[q] # 0, q \notin hit'
        PROVE  Fresh(q)'
    <2>1. Fresh(q)
      BY <1>2, <1>3, <1>6 DEF StartInv, Running
    <2>2. CASE q # p
      BY <1>1, <1>3, <2>1, <2>2 DEF Fresh
    <2>3. CASE q = p
      <3>1. \A s \in StreamNames : Adds(s) \in Past(p)' => s \in existing'
        BY <1>3, <1>6, <2>1, <2>3 DEF Fresh
      <3> QED
        BY <1>1, <2>1, <2>3, <3>1 DEF Fresh
    <2> QED
      BY <2>2, <2>3
  <1>7. SubscriptionsStand'
    <2> SUFFICES ASSUME NEW g \in Goroutines, state'[g] = "dead"
                 PROVE  \/ Owner[g] \in hit'
                        \/ Subscribes[g][stands'[g] + 1]
                              \notin known'[Owner[g]] \cup Added[Owner[g]]
      BY DEF SubscriptionsStand
    <2>1. state[g] = "dead"
      OBVIOUS
    <2> QED
      BY <1>1, <2>1 DEF StartInv, SubscriptionsStand
  <1> QED
    BY <1>4, <1>5, <1>6, <1>7 DEF StartInv, Running

LEMMA MainKeeps ==
    ASSUME StartInv, NEW p \in Processes, MainStep(p)
    PROVE  StartInv'
  <1> DEFINE step == Main[p][at[p]]
  <1>1. state \in [Goroutines -> {"none", "subscribing", "receiving", "dead"}]
        /\ existing \subseteq StreamNames /\ hit \subseteq Processes
    BY DEF StartInv, StartupTypeOK
  <1>2. ASSUME Does(p, "needs") \/ Does(p, "serves"), Proceeds(p),
               UNCHANGED <<existing, stands, state, hit>>, NoFault
        PROVE  StartInv'
    <2>1. \A s \in StreamNames : step # Adds(s)
      BY <1>2, Kinds DEF Does
    <2>2. at[p] \in 1..Len(Main[p])
      BY <1>2 DEF Does
    <2> QED
      BY <1>1, <1>2, <2>1, <2>2, ProceedsKeeps
  <1>3. CASE Connects(p)
    BY <1>2, <1>3, EndsKeeps DEF Connects
  <1>4. CASE AddsStream(p)
    <2>1. at[p] \in 1..Len(Main[p]) /\ step.do = "adds"
      BY <1>4 DEF AddsStream, Does
    <2>2. step.what \in StreamNames /\ step = Adds(step.what)
      BY <2>1, MainOK DEF StepOK
    <2>3. \A s \in StreamNames : step = Adds(s) => s = What(p)
      BY Kinds DEF What
    <2>4. /\ Proceeds(p) /\ UNCHANGED <<stands, state>>
          /\ existing \subseteq existing' /\ existing' \subseteq StreamNames
          /\ hit \subseteq hit' /\ hit' \subseteq Processes
          /\ What(p) \in existing' \/ p \in hit'
          /\ NoFault \/ \E kind : Fault(kind)
      BY <1>1, <1>4, <2>2 DEF AddsStream, What
    <2> QED
      BY <1>1, <2>1, <2>3, <2>4, ProceedsKeeps
  <1>5. CASE SpawnsGoroutine(p)
    <2>1. at[p] \in 1..Len(Main[p]) /\ step.do = "spawns"
      BY <1>5 DEF SpawnsGoroutine, Does
    <2>2. step.what \in Goroutines /\ step = Spawns(step.what)
      BY <2>1, MainOK DEF StepOK
    <2>3. \A s \in StreamNames : step # Adds(s)
      BY <2>1, Kinds
    <2>4. /\ Proceeds(p) /\ UNCHANGED <<existing, stands, hit>> /\ NoFault
          /\ state' = [state EXCEPT ![step.what] = "subscribing"]
      BY <1>5 DEF SpawnsGoroutine, What
    <2>5. /\ state' \in [Goroutines -> {"none", "subscribing", "receiving", "dead"}]
          /\ \A g \in Goroutines :
                state'[g] = state[g] \/ (state'[g] = "subscribing" /\ step = Spawns(g))
      BY <1>1, <2>2, <2>4
    <2> HIDE DEF step
    <2>6. at[p] \in 1..Len(Main[p]) /\ step = Main[p][at[p]]
      BY <2>1 DEF step
    <2> QED
      BY <1>1, <2>3, <2>4, <2>5, <2>6, ProceedsKeeps
  <1>6. CASE Listens(p)
    BY <1>2, <1>6, EndsKeeps DEF Listens
  <1>7. CASE Stops(p)
    BY <1>7, EndsKeeps DEF Stops
  <1> QED
    BY <1>3, <1>4, <1>5, <1>6, <1>7 DEF MainStep

\* A goroutine subscribes, or dies of what it meets.
LEMMA SubscribeKeeps ==
    ASSUME StartInv, NEW g \in Goroutines, Subscribe(g)
    PROVE  StartInv'
  <1> DEFINE s == Subscribes[g][stands[g] + 1]
  <1>1. /\ state[g] = "subscribing" /\ UNCHANGED <<up, existing, at, known>>
        /\ \/ /\ stands' = [stands EXCEPT ![g] = @ + 1] /\ hit' = hit
              /\ state' = IF stands[g] + 1 = Len(Subscribes[g])
                          THEN [state EXCEPT ![g] = "receiving"] ELSE state
           \/ /\ state' = [state EXCEPT ![g] = "dead"] /\ stands' = stands /\ hit' = hit
              /\ s \notin existing
           \/ /\ state' = [state EXCEPT ![g] = "dead"] /\ stands' = stands
              /\ hit' = hit \cup {Owner[g]}
    BY DEF Subscribe
  <1>2. NoFault \/ \E kind : Fault(kind)
    BY DEF Subscribe
  <1>3. /\ stands \in [Goroutines -> 0..2] /\ hit \subseteq Processes
        /\ state \in [Goroutines -> {"none", "subscribing", "receiving", "dead"}]
    BY DEF StartInv, StartupTypeOK
  <1>4. Owner[g] = Home(g) /\ Home(g) \in Processes /\ Spawns(g) \in Past(Home(g))
    BY <1>1, OwnerOf DEF StartInv, Alive
  <1>5. hit \subseteq hit' /\ hit' \subseteq Processes
    BY <1>1, <1>3, <1>4
  <1>6. stands[g] + 1 \in 0..2 /\ stands[g] < Len(Subscribes[g])
        /\ Len(Subscribes[g]) \in {1, 2} /\ stands[g] \in 0..2
    <2>1. stands[g] < Len(Subscribes[g]) /\ Len(Subscribes[g]) \in {1, 2}
      BY <1>1, SubscribesType DEF StartInv, Alive
    <2>2. stands[g] \in 0..2
      BY <1>3
    <2>3. \A m \in 0..2, n \in {1, 2} : m < n => m + 1 \in 0..2
      OBVIOUS
    <2> QED
      BY <2>1, <2>2, <2>3, Zenon
  <1>7. /\ stands' \in [Goroutines -> 0..2]
        /\ state' \in [Goroutines -> {"none", "subscribing", "receiving", "dead"}]
        /\ \A h \in Goroutines \ {g} : stands'[h] = stands[h] /\ state'[h] = state[h]
    BY <1>1, <1>3, <1>6
  <1>8. StartupTypeOK'
    BY <1>1, <1>2, <1>5, <1>7, FaultsStay DEF StartInv, StartupTypeOK
  <1>9. \A q \in Processes : Past(q)' = Past(q)
    BY <1>1 DEF Past
  <1>10. ASSUME NEW h \in Goroutines
         PROVE  Alive(h)'
    <2>1. Home(h) \in Processes
      BY OwnerOf
    <2>2. CASE h # g
      BY <1>7, <1>9, <2>1, <2>2 DEF StartInv, Alive
    <2>3. CASE h = g
      <3>1. state'[g] # "none"
        BY <1>1, <1>3
      <3>2. ASSUME state'[g] = "subscribing"
            PROVE  stands'[g] < Len(Subscribes[g])
        <4>1. stands'[g] = stands[g] + 1 /\ stands[g] + 1 # Len(Subscribes[g])
          BY <1>1, <1>3, <3>2
        <4> HIDE DEF s
        <4> QED
          BY <1>6, <4>1
      <3> QED
        BY <1>4, <1>9, <2>3, <3>1, <3>2 DEF Alive
    <2> QED
      BY <2>2, <2>3
  <1>11. ASSUME NEW q \in Processes, at'[q] # 0, q \notin hit'
         PROVE  Fresh(q)'
    <2>1. Fresh(q)
      BY <1>1, <1>5, <1>11 DEF StartInv, Running
    <2> QED
      BY <1>1, <1>9, <2>1 DEF Fresh
  <1>12. SubscriptionsStand'
    <2> SUFFICES ASSUME NEW h \in Goroutines, state'[h] = "dead"
                 PROVE  \/ Owner[h] \in hit'
                        \/ Subscribes[h][stands'[h] + 1]
                              \notin known'[Owner[h]] \cup Added[Owner[h]]
      BY DEF SubscriptionsStand
    <2>1. CASE h # g
      BY <1>1, <1>5, <1>7, <2>1 DEF StartInv, SubscriptionsStand
    <2>2. CASE h = g
      <3>1. CASE Owner[g] \in hit'
        BY <2>2, <3>1
      <3>2. CASE Owner[g] \notin hit'
        <4>1. s \notin existing /\ stands' = stands /\ hit' = hit /\ known' = known
          BY <1>1, <1>3, <2>2, <3>2
        <4>2. known[Owner[g]] \cup Added[Owner[g]] \subseteq existing
          BY <1>1, <3>2, <4>1, NeededExists
        <4> QED
          BY <2>2, <4>1, <4>2
      <3> QED
        BY <3>1, <3>2
    <2> QED
      BY <2>1, <2>2
  <1> QED
    BY <1>8, <1>10, <1>11, <1>12 DEF StartInv, Running

\* The streams are lost: whatever was subscribed dies, and everything that runs is hit.
LEMMA LostKeeps ==
    ASSUME StartInv, StreamsLost
    PROVE  StartInv'
  <1>1. /\ existing' = {} /\ UNCHANGED <<up, at, stands, known>>
        /\ state' = [g \in Goroutines |-> IF stands[g] > 0 THEN "dead" ELSE state[g]]
        /\ hit' = hit \cup {p \in Processes : Running(p)}
        /\ \E kind : Fault(kind)
    BY DEF StreamsLost
  <1>2. StartupTypeOK'
    BY <1>1, FaultsStay DEF StartInv, StartupTypeOK
  <1>3. \A q \in Processes : Past(q)' = Past(q)
    BY <1>1 DEF Past
  <1>4. ASSUME NEW g \in Goroutines
        PROVE  Alive(g)' /\ (state'[g] = "dead" => Owner[g] \in hit')
    <2>1. Owner[g] = Home(g) /\ Home(g) \in Processes
      BY OwnerOf
    <2>2. state'[g] = IF stands[g] > 0 THEN "dead" ELSE state[g]
      BY <1>1
    <2>3. stands[g] > 0 => state[g] # "none"
      BY DEF StartInv, Alive
    <2>4. state[g] # "none" => Spawns(g) \in Past(Home(g)) /\ Running(Home(g))
      BY <2>1, SpawnedPast DEF StartInv, Alive
    <2>5. state'[g] = "dead" => Owner[g] \in hit'
      BY <1>1, <2>1, <2>2, <2>3, <2>4
    <2> QED
      BY <1>1, <1>3, <2>1, <2>2, <2>3, <2>4, <2>5 DEF StartInv, Alive
  <1>5. ASSUME NEW q \in Processes, at'[q] # 0, q \notin hit'
        PROVE  Fresh(q)'
    BY <1>1, <1>5 DEF Running
  <1> QED
    BY <1>2, <1>4, <1>5 DEF StartInv, SubscriptionsStand, Running

LEMMA StepStart ==
    ASSUME StartInv, [StartupNext]_startupVars
    PROVE  StartInv'
  <1>1. ASSUME UNCHANGED <<existing, at, stands, state, known, hit>>, up' \subseteq Backends,
               NoFault \/ \E kind : Fault(kind)
        PROVE  StartInv'
    <2>1. StartupTypeOK'
      BY <1>1, FaultsStay DEF StartInv, StartupTypeOK
    <2>2. \A q : Past(q)' = Past(q)
      BY <1>1 DEF Past
    <2>3. (\A g : Alive(g)' = Alive(g)) /\ \A p : Fresh(p)' = Fresh(p)
      BY <1>1, <2>2 DEF Alive, Fresh
    <2> QED
      BY <1>1, <2>1, <2>3 DEF StartInv, SubscriptionsStand, Running
  <1>2. ASSUME NEW p \in Deployed, Starts(p) \/ MainStep(p) \/ ProcessDies(p)
        PROVE  StartInv'
    BY <1>2, DeployedAssumption, StartStarts, MainKeeps, EndsKeeps DEF ProcessDies
  <1>3. ASSUME NEW b \in Backends, BackendAnswers(b) \/ BackendGone(b)
        PROVE  StartInv'
    BY <1>1, <1>3 DEF BackendAnswers, BackendGone, StartInv, StartupTypeOK
  <1>4. CASE UNCHANGED startupVars
    BY <1>1, <1>4 DEF startupVars, NoFault, StartInv, StartupTypeOK
  <1> QED
    BY <1>2, <1>3, <1>4, SubscribeKeeps, LostKeeps DEF StartupNext

LEMMA InitStart == StartupInit => StartInv
  <1> SUFFICES ASSUME StartupInit PROVE StartInv
    OBVIOUS
  <1>1. StartupTypeOK
    <2>1. \A p \in Processes : 0 \in 0..(Len(Main[p]) + 1)
      BY MainOK
    <2>2. 0 \in Nat /\ 0 \in 0..2 /\ 0 \in 0..MaxFaults
      BY FaultsAssumption
    <2> QED
      BY <2>1, <2>2 DEF StartupInit, StartupTypeOK, FaultsInit, FaultsType, Backends, StreamNames
  <1>2. \A g \in Goroutines : state[g] = "none" /\ stands[g] = 0
    BY DEF StartupInit
  <1>3. \A p \in Processes : ~Running(p)
    BY DEF StartupInit, Running
  <1> QED
    BY <1>1, <1>2, <1>3 DEF StartInv, Alive, SubscriptionsStand

\* Whatever set of processes is started, in whatever order, and whatever fails, a
\* goroutine dies only of a failed call or of a stream that another process had not
\* added when its own was started: every main adds its stream before it spawns.
THEOREM SubscribersStand == StartupSpec => []SubscriptionsStand
  <1>1. StartupInit => StartInv
    BY InitStart
  <1>2. StartInv /\ [StartupNext]_startupVars => StartInv'
    BY StepStart
  <1>3. StartInv => SubscriptionsStand
    BY DEF StartInv
  <1> QED
    BY <1>1, <1>2, <1>3, PTL DEF StartupSpec

=============================================================================

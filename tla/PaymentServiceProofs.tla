------------------------ MODULE PaymentServiceProofs ------------------------
(***************************************************************************)
(* Proofs about PaymentService, for every set of orders, payments and      *)
(* calls, and for every kind and number of failures.                       *)
(***************************************************************************)
EXTENDS PaymentService, JetStreamProofs, FiniteSetTheorems

-----------------------------------------------------------------------------
(* Types *)

SubType == [pc : SubPcs, msg : Nat, payment : Payments \cup {NoPayment}]
RefundType == [pc : RefundPcs, payment : Payments \cup {NoPayment}]
ReaderType == [pc : ReaderPcs, rows : SUBSET (Payments \X Row)]

LEMMA ProcessorReads == PaymentProcessor \in Consumers /\ StreamOf[PaymentProcessor] = "ORDERS"
  BY PaymentServiceAssumption DEF Consumers

LEMMA AddressedPosition ==
    ASSUME TypeOK, NEW i \in Addressed
    PROVE  /\ i \in Deliverable(PaymentProcessor) /\ i \in 1..Len(streams["ORDERS"]) /\ i \in Nat
           /\ streams["ORDERS"][i].subject = "orders.created"
  BY ProcessorReads, DeliverablePosition DEF TypeOK, Addressed

LEMMA SubOrderType ==
    ASSUME TypeOK, sub.msg \in 1..Len(streams["ORDERS"])
    PROVE  streams["ORDERS"][sub.msg] \in Message /\ SubOrder \in Orders
  <1>1. streams["ORDERS"] \in Seq(Message)
    BY DEF TypeOK, JetStreamType, Streams
  <1>2. streams["ORDERS"][sub.msg] \in Message
    BY <1>1
  <1> QED
    BY <1>2 DEF SubOrder, Message

LEMMA UpdateType ==
    ASSUME TypeOK, NEW p \in Payments, NEW status \in PaymentStatuses, UpdateStatus(p, status)
    PROVE  /\ payments' \in [Payments -> Row \cup {NoRow}]
           /\ payments[p] \in Row
           /\ payments' = [payments EXCEPT ![p] = [order |-> payments[p].order, status |-> status]]
  <1>1. payments[p] \in Row
    BY DEF TypeOK, UpdateStatus
  <1>2. [payments[p] EXCEPT !.status = status] = [order |-> payments[p].order, status |-> status]
    BY <1>1 DEF Row
  <1>3. payments' = [payments EXCEPT ![p] = [payments[p] EXCEPT !.status = status]]
    BY DEF UpdateStatus
  <1> QED
    BY <1>1, <1>2, <1>3 DEF TypeOK, Row

LEMMA RowsType ==
    ASSUME TypeOK, NEW o
    PROVE  GetByOrderID(o) \subseteq Payments \X Row
  BY DEF TypeOK, GetByOrderID

LEMMA PaidMessageType ==
    ASSUME NEW o \in Orders, NEW p \in Payments
    PROVE  PaymentMessage("payments.completed", o, p) \in Message
  BY DEF PaymentMessage, Message, PaymentSubjects

LEMMA SubTypes ==
    ASSUME TypeOK, ServiceInv, SubStep
    PROVE  TypeOK'
  <1> USE DEF TypeOK
  <1>1. JetStreamType(Message) /\ UNCHANGED <<streams, consumers>> => JetStreamType(Message)'
    BY DEF JetStreamType
  <1>2. ASSUME NEW i \in Addressed, SubReceive(i)
        PROVE  TypeOK'
    <2>1. JetStreamType(Message)' /\ FaultsType'
      BY <1>2, AddressedPosition, DeliverType, ProcessorReads, FaultCounted DEF SubReceive
    <2> QED
      BY <1>2, <2>1, AddressedPosition DEF SubReceive, SubPcs
  <1>3. CASE SubFilter
    <2>1. JetStreamType(Message)' /\ FaultsType'
      BY <1>3, PassOverType, ProcessorReads, FaultCounted DEF SubFilter
    <2> QED
      BY <1>3, <2>1 DEF SubFilter
  <1>4. CASE SubCreate
    <2>1. SubOrder \in Orders
      BY <1>4, SubOrderType DEF SubCreate, ServiceInv
    <2>2. payments' \in [Payments -> Row \cup {NoRow}]
      <3>1. [order |-> SubOrder, status |-> "pending"] \in Row
        BY <2>1 DEF Row, PaymentStatuses
      <3> QED
        BY <1>4, <3>1 DEF SubCreate, Create, FreshIds
    <2>3. sub' \in SubType
      BY <1>4 DEF SubCreate, SubGoes, SubPcs, FreshIds, SubType
    <2>4. FaultsType'
      BY <1>4, FaultCounted DEF SubCreate
    <2> QED
      BY <1>1, <1>4, <2>2, <2>3, <2>4 DEF SubCreate, SubType
  <1>5. CASE SubComplete
    <2>1. payments' \in [Payments -> Row \cup {NoRow}]
      BY <1>5, UpdateType DEF SubComplete, ServiceInv, PaymentStatuses
    <2>2. sub' \in SubType
      BY <1>5 DEF SubComplete, SubGoes, SubPcs, SubType
    <2>3. FaultsType'
      BY <1>5, FaultCounted DEF SubComplete
    <2> QED
      BY <1>1, <1>5, <2>1, <2>2, <2>3 DEF SubComplete, SubType
  <1>6. CASE SubPublish
    <2>1. SubOrder \in Orders /\ sub.payment \in Payments
      BY <1>6, SubOrderType DEF SubPublish, ServiceInv
    <2>2. JetStreamType(Message)'
      BY <1>1, <1>6, <2>1, PaidMessageType, PublishType DEF SubPublish, Streams
    <2>3. FaultsType'
      BY <1>6, FaultCounted DEF SubPublish
    <2> QED
      BY <1>6, <2>2, <2>3 DEF SubPublish, SubGoes, SubPcs
  <1>7. CASE SubAck
    <2>1. JetStreamType(Message)' /\ FaultsType'
      BY <1>1, <1>7, RedeliverType, ProcessorReads, FaultCounted DEF SubAck
    <2> QED
      BY <1>7, <2>1 DEF SubAck, SubRest, SubPcs
  <1> QED
    BY <1>2, <1>3, <1>4, <1>5, <1>6, <1>7 DEF SubStep

LEMMA CallTypes ==
    ASSUME TypeOK, ServiceInv,
           \/ \E r \in Refunds : (\E p \in Payments : RefundCheck(r, p)) \/ RefundUpdate(r)
           \/ \E q \in Readers :
                 \/ \E p \in Payments : GetPayment(q, p)
                 \/ \E o \in Orders : ListPaymentsByOrder(q, o)
    PROVE  TypeOK'
  <1> USE DEF TypeOK
  <1>1. JetStreamType(Message) /\ UNCHANGED <<streams, consumers>> => JetStreamType(Message)'
    BY DEF JetStreamType
  <1>2. ASSUME NEW r \in Refunds, NEW p \in Payments, RefundCheck(r, p)
        PROVE  TypeOK'
    <2>1. refund' \in [Refunds -> RefundType]
      BY <1>2 DEF RefundCheck, RefundEnds, RefundPcs, RefundType
    <2>2. FaultsType'
      BY <1>2, FaultCounted DEF RefundCheck
    <2> QED
      BY <1>1, <1>2, <2>1, <2>2 DEF RefundCheck, RefundType
  <1>3. ASSUME NEW r \in Refunds, RefundUpdate(r)
        PROVE  TypeOK'
    <2>1. payments' \in [Payments -> Row \cup {NoRow}]
      BY <1>3, UpdateType DEF RefundUpdate, ServiceInv, PaymentStatuses
    <2>2. refund' \in [Refunds -> RefundType]
      BY <1>3 DEF RefundUpdate, RefundEnds, RefundPcs, RefundType
    <2>3. FaultsType'
      BY <1>3, FaultCounted DEF RefundUpdate
    <2> QED
      BY <1>1, <1>3, <2>1, <2>2, <2>3 DEF RefundUpdate, RefundType
  <1>4. ASSUME NEW q \in Readers, NEW pc \in ReaderPcs, NEW rows \in SUBSET (Payments \X Row),
               ReaderAnswers(q, pc, rows), FaultsType',
               UNCHANGED <<streams, consumers, payments, sub, refund>>
        PROVE  TypeOK'
    <2>1. [pc |-> pc, rows |-> rows] \in ReaderType
      BY DEF ReaderType
    <2>2. reader' \in [Readers -> ReaderType]
      BY <1>4, <2>1 DEF ReaderAnswers, ReaderType
    <2> QED
      BY <1>1, <1>4, <2>2 DEF ReaderType
  <1>5. ASSUME NEW q \in Readers, NEW p \in Payments, GetPayment(q, p)
        PROVE  TypeOK'
    <2>1. FaultsType'
      BY <1>5, FaultCounted DEF GetPayment
    <2>2. GetByID(p) # NoRow => {<<p, GetByID(p)>>} \in SUBSET (Payments \X Row)
      BY DEF GetByID
    <2>3. {} \in SUBSET (Payments \X Row)
      OBVIOUS
    <2> QED
      BY <1>4, <1>5, <2>1, <2>2, <2>3 DEF GetPayment, ReaderPcs
  <1>6. ASSUME NEW q \in Readers, NEW o \in Orders, ListPaymentsByOrder(q, o)
        PROVE  TypeOK'
    <2>1. FaultsType'
      BY <1>6, FaultCounted DEF ListPaymentsByOrder
    <2>2. \A rows \in SUBSET GetByOrderID(o) : rows \in SUBSET (Payments \X Row)
      BY RowsType
    <2>3. PICK pc \in ReaderPcs, rows \in SUBSET GetByOrderID(o) : ReaderAnswers(q, pc, rows)
      BY <1>6 DEF ListPaymentsByOrder, ReaderPcs
    <2> QED
      BY <1>4, <1>6, <2>1, <2>2, <2>3 DEF ListPaymentsByOrder
  <1> QED
    BY <1>2, <1>3, <1>5, <1>6

LEMMA EnvironmentTypes ==
    ASSUME TypeOK,
           \/ \E o \in Orders, msg \in Message : OrderAnnounced(o, msg)
           \/ Crash \/ Shutdown \/ AtRest \/ UNCHANGED vars
    PROVE  TypeOK'
  <1> USE DEF TypeOK
  <1>1. JetStreamType(Message) /\ UNCHANGED <<streams, consumers>> => JetStreamType(Message)'
    BY DEF JetStreamType
  <1>2. SubRest \in [pc : SubPcs, msg : Nat, payment : Payments \cup {NoPayment}]
    BY DEF SubRest, SubPcs
  <1>3. ASSUME NEW o \in Orders, NEW msg \in Message, OrderAnnounced(o, msg)
        PROVE  TypeOK'
    BY <1>3, PublishType, FaultCounted DEF OrderAnnounced, Streams
  <1>4. CASE Crash
    <2>1. JetStreamType(Message)' /\ FaultsType'
      BY <1>4, LoseClientType, ProcessorReads, FaultCounted DEF Crash
    <2>2. refund' \in [Refunds -> RefundType]
      <3>1. \A r \in Refunds : refund[r] \in RefundType
        BY DEF RefundType
      <3>2. \A r \in Refunds : [refund[r] EXCEPT !.pc = "failed"] \in RefundType
        BY <3>1 DEF RefundType, RefundPcs
      <3>3. refund' = [r \in Refunds |-> IF refund[r].pc = "updating"
                                         THEN [refund[r] EXCEPT !.pc = "failed"] ELSE refund[r]]
        BY <1>4 DEF Crash
      <3> QED
        BY <3>1, <3>2, <3>3
    <2> QED
      BY <1>2, <1>4, <2>1, <2>2 DEF Crash, RefundType
  <1>5. CASE Shutdown
    <2>1. JetStreamType(Message)' /\ FaultsType'
      BY <1>1, <1>5, LoseClientType, RecreateType, ProcessorReads, FaultCounted DEF Shutdown
    <2> QED
      BY <1>2, <1>5, <2>1 DEF Shutdown
  <1>6. CASE AtRest \/ UNCHANGED vars
    BY <1>1, <1>6 DEF AtRest, vars, FaultsType
  <1> QED
    BY <1>3, <1>4, <1>5, <1>6

LEMMA StepTypes ==
    ASSUME TypeOK, ServiceInv, [Next]_vars
    PROVE  TypeOK'
  BY SubTypes, CallTypes, EnvironmentTypes DEF Next

-----------------------------------------------------------------------------
(* How payments and streams move *)

CreatedMessage(o) == [subject |-> "orders.created", order |-> o, payment |-> NoPayment]

Sent == streams["PAYMENTS"]

\* A row stays, is opened for an order, or takes the next status.
MovesOn(old, new) ==
    \/ new = old
    \/ old = NoRow /\ \E o \in Orders : new = [order |-> o, status |-> "pending"]
    \/ /\ old # NoRow
       /\ \/ old.status = "pending" /\ new = [order |-> old.order, status |-> "completed"]
          \/ old.status = "completed" /\ new = [order |-> old.order, status |-> "refunded"]

\* What every step of the service does to its table.
TableMoves ==
    /\ payments \in [Payments -> Row \cup {NoRow}]
    /\ payments' \in [Payments -> Row \cup {NoRow}]
    /\ \A p \in Payments : MovesOn(payments[p], payments'[p])

\* What every step does to the streams: ORDERS grows at its end, PAYMENTS by what
\* SubPublish says.
StreamsMove ==
    /\ \A m : Stored("ORDERS", m) => Stored("ORDERS", m)'
    /\ \A i \in 1..Len(streams["ORDERS"]) :
          i \in 1..Len(streams'["ORDERS"]) /\ streams'["ORDERS"][i] = streams["ORDERS"][i]
    /\ streams'["PAYMENTS"] = Sent \/ SubPublish

\* A message of the stream that is of a created order is just that.
CreatedOnly ==
    \A i \in 1..Len(streams["ORDERS"]) :
        streams["ORDERS"][i].subject = "orders.created" => streams["ORDERS"][i].payment = NoPayment

LEMMA StepTable ==
    ASSUME TypeOK, TypeOK', ServiceInv, [Next]_vars
    PROVE  TableMoves
  <1>1. /\ payments \in [Payments -> Row \cup {NoRow}]
        /\ payments' \in [Payments -> Row \cup {NoRow}]
    BY DEF TypeOK
  <1>2. CASE UNCHANGED payments
    BY <1>1, <1>2 DEF TableMoves, MovesOn
  <1>3. CASE SubCreate
    <2>1. SubOrder \in Orders
      BY <1>3, SubOrderType DEF SubCreate, ServiceInv
    <2> QED
      BY <1>1, <1>2, <1>3, <2>1 DEF SubCreate, FreshIds, Create, TableMoves, MovesOn
  <1>4. CASE SubComplete
    <2>1. sub.payment \in Payments /\ payments[sub.payment] # NoRow
          /\ payments[sub.payment].status = "pending"
      BY <1>4 DEF SubComplete, ServiceInv
    <2>2. CASE UpdateStatus(sub.payment, "completed")
      <3>1. payments' = [payments EXCEPT ![sub.payment] =
                [order |-> payments[sub.payment].order, status |-> "completed"]]
        BY <2>1, <2>2, UpdateType DEF PaymentStatuses
      <3> QED
        BY <1>1, <2>1, <3>1 DEF TableMoves, MovesOn
    <2> QED
      BY <1>2, <1>4, <2>2 DEF SubComplete
  <1>5. ASSUME NEW r \in Refunds, RefundUpdate(r)
        PROVE  TableMoves
    <2> DEFINE p == refund[r].payment
    <2>1. p \in Payments /\ Charged(p)
      BY <1>5 DEF RefundUpdate, ServiceInv
    <2>2. CASE UpdateStatus(p, "refunded")
      <3>1. payments[p] \in Row
            /\ payments' = [payments EXCEPT ![p] = [order |-> payments[p].order, status |-> "refunded"]]
        BY <2>1, <2>2, UpdateType DEF PaymentStatuses
      <3>2. MovesOn(payments[p], payments'[p])
        BY <1>1, <2>1, <3>1 DEF Charged, MovesOn, Row
      <3> QED
        BY <1>1, <3>1, <3>2 DEF TableMoves, MovesOn
    <2> QED
      BY <1>2, <1>5, <2>2 DEF RefundUpdate
  <1> QED
    BY <1>2, <1>3, <1>4, <1>5
       DEF Next, SubStep, SubReceive, SubFilter, SubPublish, SubAck, RefundCheck, GetPayment,
           ListPaymentsByOrder, OrderAnnounced, Crash, Shutdown, AtRest, vars

LEMMA StepStreams ==
    ASSUME TypeOK, ServiceInv, CreatedOnly, [Next]_vars
    PROVE  StreamsMove /\ CreatedOnly'
  <1> USE DEF TypeOK
  <1>1. CASE UNCHANGED streams
    BY <1>1 DEF StreamsMove, CreatedOnly, Stored, Sent
  <1>2. ASSUME NEW msg \in Message, Publish("PAYMENTS", msg)
        PROVE  streams'["ORDERS"] = streams["ORDERS"]
    BY <1>2, PublishAppends DEF Streams
  <1>3. CASE SubPublish
    <2>1. SubOrder \in Orders /\ sub.payment \in Payments
      BY <1>3, SubOrderType DEF SubPublish, ServiceInv
    <2>2. streams'["ORDERS"] = streams["ORDERS"]
      BY <1>2, <1>3, <2>1, PaidMessageType DEF SubPublish
    <2> QED
      BY <1>3, <2>2 DEF StreamsMove, CreatedOnly, Stored
  <1>4. ASSUME NEW o \in Orders, NEW msg \in Message, OrderAnnounced(o, msg)
        PROVE  StreamsMove /\ CreatedOnly'
    <2>1. Publish("ORDERS", msg) /\ (msg.payment = NoPayment <=> msg.subject # "orders.paid")
      BY <1>4 DEF OrderAnnounced
    <2>2. /\ Len(streams["ORDERS"]) \in Nat
          /\ Len(streams'["ORDERS"]) = Len(streams["ORDERS"]) + 1
          /\ streams'["ORDERS"][Len(streams["ORDERS"]) + 1] = msg
          /\ \A i \in 1..Len(streams["ORDERS"]) : streams'["ORDERS"][i] = streams["ORDERS"][i]
          /\ streams'["PAYMENTS"] = Sent
      BY <2>1, PublishAppends DEF Streams, Sent
    <2>3. \A m : Stored("ORDERS", m) => Stored("ORDERS", m)'
      BY <2>1, PublishKeepsStored DEF Streams
    <2>4. CreatedOnly'
      <3>1. \A i \in 1..Len(streams'["ORDERS"]) :
                i \in 1..Len(streams["ORDERS"]) \/ i = Len(streams["ORDERS"]) + 1
        BY <2>2
      <3> QED
        BY <2>1, <2>2, <3>1 DEF CreatedOnly
    <2> QED
      BY <2>2, <2>3, <2>4 DEF StreamsMove
  <1> QED
    BY <1>1, <1>3, <1>4
       DEF Next, SubStep, SubReceive, SubFilter, SubCreate, SubComplete, SubAck, RefundCheck,
           RefundUpdate, GetPayment, ListPaymentsByOrder, Crash, Shutdown, AtRest, vars

\* The announcement SubPublish adds, if any, is of the payment in hand.
LEMMA Announces ==
    ASSUME TypeOK, ServiceInv, SubPublish
    PROVE  /\ sub.payment \in Payments /\ Charged(sub.payment)
           /\ payments[sub.payment].order = SubOrder
           /\ UNCHANGED payments
           /\ \A i \in 1..Len(Sent) : Sent[i].payment # sub.payment
           /\ Len(Sent) \in Nat
           /\ \/ streams'["PAYMENTS"] = Sent
              \/ /\ Len(streams'["PAYMENTS"]) = Len(Sent) + 1
                 /\ streams'["PAYMENTS"][Len(Sent) + 1]
                        = PaymentMessage("payments.completed", SubOrder, sub.payment)
                 /\ \A i \in 1..Len(Sent) : streams'["PAYMENTS"][i] = Sent[i]
  <1>1. /\ sub.payment \in Payments /\ Charged(sub.payment) /\ sub.pc = "publishing"
        /\ payments[sub.payment].order = SubOrder
        /\ \A i \in 1..Len(Sent) : Sent[i].payment # sub.payment
        /\ SubOrder \in Orders
    BY SubOrderType DEF SubPublish, ServiceInv, Sent
  <1>2. UNCHANGED payments /\ Len(Sent) \in Nat
    BY DEF SubPublish, Sent, TypeOK, JetStreamType, Streams
  <1>3. CASE Publish("PAYMENTS", PaymentMessage("payments.completed", SubOrder, sub.payment))
    BY <1>1, <1>2, <1>3, PaidMessageType, PublishAppends DEF TypeOK, Sent, Streams
  <1>4. CASE UNCHANGED streams
    BY <1>1, <1>2, <1>4 DEF Sent
  <1> QED
    BY <1>3, <1>4 DEF SubPublish

LEMMA MovedRow ==
    ASSUME TableMoves, NEW p \in Payments, payments[p] # NoRow
    PROVE  /\ payments'[p] # NoRow /\ payments'[p].order = payments[p].order
           /\ Charged(p) => Charged(p)'
           /\ payments'[p].status = "pending" => payments[p].status = "pending"
           /\ payments'[p].status = "completed" => payments[p].status \in {"pending", "completed"}
           /\ payments[p].status = "refunded" => payments'[p].status = "refunded"
  <1>1. payments[p] \in Row /\ payments'[p] \in Row \cup {NoRow}
        /\ MovesOn(payments[p], payments'[p])
    BY DEF TableMoves
  <1>2. NoRow \notin Row
    BY PaymentServiceAssumption
  <1>3. CASE payments'[p] = payments[p]
    BY <1>1, <1>3 DEF Charged
  <1>4. CASE /\ payments[p].status = "pending"
             /\ payments'[p] = [order |-> payments[p].order, status |-> "completed"]
    <2>1. payments'[p] \in Row
      BY <1>1, <1>4 DEF Row, PaymentStatuses
    <2> QED
      BY <1>2, <1>4, <2>1 DEF Charged
  <1>5. CASE /\ payments[p].status = "completed"
             /\ payments'[p] = [order |-> payments[p].order, status |-> "refunded"]
    <2>1. payments'[p] \in Row
      BY <1>1, <1>5 DEF Row, PaymentStatuses
    <2> QED
      BY <1>2, <1>5, <2>1 DEF Charged
  <1> QED
    BY <1>1, <1>3, <1>4, <1>5 DEF MovesOn

-----------------------------------------------------------------------------
(* The invariants *)

\* A charge has its order on the stream, an announcement its charge.
LEMMA StepCharges ==
    ASSUME TypeOK, TypeOK', ServiceInv, CreatedOnly, ChargesJustified, [Next]_vars
    PROVE  ChargesJustified'
  <1> DEFINE StoredThen(m) ==
                 \E i \in 1..Len(streams'["ORDERS"]) : streams'["ORDERS"][i] = m
             ChargedThen(p) ==
                 payments'[p] # NoRow /\ payments'[p].status \in {"completed", "refunded"}
  <1>1. TableMoves /\ StreamsMove
    BY StepTable, StepStreams
  <1>2. ASSUME NEW p \in Payments, NEW row, row = payments'[p], row # NoRow
        PROVE  StoredThen(CreatedMessage(row.order))
    <2>1. CASE payments[p] # NoRow
      <3>1. row.order = payments[p].order /\ Stored("ORDERS", CreatedMessage(payments[p].order))
        BY <1>1, <1>2, <2>1, MovedRow DEF ChargesJustified, CreatedMessage
      <3> QED
        BY <1>1, <3>1 DEF StreamsMove, CreatedMessage, Stored
    <2>2. CASE payments[p] = NoRow
      <3>1. SubCreate /\ row.order = SubOrder
        <4>1. payments' # payments
          BY <1>2, <2>2
        <4>2. CASE SubCreate
          <5>1. PICK q \in Payments :
                   payments' = [payments EXCEPT ![q] = [order |-> SubOrder, status |-> "pending"]]
            BY <4>1, <4>2 DEF SubCreate, Create, FreshIds
          <5>2. p = q
            BY <1>2, <2>2, <5>1
          <5>3. payments'[p] = [order |-> SubOrder, status |-> "pending"]
            BY <5>1, <5>2 DEF TypeOK
          <5> QED
            BY <1>2, <4>2, <5>3
        <4>3. CASE SubComplete
          BY <1>2, <2>2, <4>1, <4>3 DEF SubComplete, UpdateStatus, ServiceInv, TypeOK
        <4>4. ASSUME NEW r \in Refunds, RefundUpdate(r)
              PROVE  FALSE
          BY <1>2, <2>2, <4>1, <4>4 DEF RefundUpdate, UpdateStatus, ServiceInv, TypeOK
        <4> QED
          BY <4>1, <4>2, <4>3, <4>4
             DEF Next, SubStep, SubReceive, SubFilter, SubPublish, SubAck, RefundCheck, GetPayment,
                 ListPaymentsByOrder, OrderAnnounced, Crash, Shutdown, AtRest, vars
      <3>2. sub.msg \in 1..Len(streams["ORDERS"])
            /\ streams["ORDERS"][sub.msg].subject = "orders.created"
        BY <3>1 DEF SubCreate, ServiceInv
      <3>3. streams["ORDERS"][sub.msg] = CreatedMessage(SubOrder)
        BY <3>2, SubOrderType DEF CreatedOnly, CreatedMessage, SubOrder, Message
      <3>4. Stored("ORDERS", CreatedMessage(SubOrder))
        BY <3>2, <3>3 DEF Stored
      <3> QED
        BY <1>1, <3>1, <3>4 DEF StreamsMove, Stored
    <2> QED
      BY <2>1, <2>2
  <1>3. ASSUME NEW msg, \/ \E i \in 1..Len(Sent) : msg = Sent[i]
                        \/ SubPublish /\ msg = PaymentMessage("payments.completed", SubOrder, sub.payment)
        PROVE  /\ msg.subject = "payments.completed" /\ msg.payment \in Payments
               /\ ChargedThen(msg.payment) /\ payments'[msg.payment].order = msg.order
    <2>1. msg.subject = "payments.completed" /\ msg.payment \in Payments
          /\ Charged(msg.payment) /\ payments[msg.payment].order = msg.order
      <3>1. CASE \E i \in 1..Len(Sent) : msg = Sent[i]
        BY <3>1 DEF ChargesJustified, Sent
      <3>2. CASE SubPublish /\ msg = PaymentMessage("payments.completed", SubOrder, sub.payment)
        BY <3>2, Announces DEF PaymentMessage
      <3> QED
        BY <1>3, <3>1, <3>2
    <2>2. payments[msg.payment] # NoRow
      BY <2>1 DEF Charged
    <2>3. ChargedThen(msg.payment) /\ payments'[msg.payment].order = payments[msg.payment].order
      BY <1>1, <2>1, <2>2, MovedRow DEF Charged
    <2> QED
      BY <2>1, <2>3
  <1>4. ASSUME NEW i \in 1..Len(streams'["PAYMENTS"])
        PROVE  \/ \E j \in 1..Len(Sent) : streams'["PAYMENTS"][i] = Sent[j]
               \/ /\ SubPublish
                  /\ streams'["PAYMENTS"][i]
                         = PaymentMessage("payments.completed", SubOrder, sub.payment)
    BY <1>1, Announces DEF StreamsMove
  <1>5. \A p \in Payments : payments'[p] # NoRow =>
            StoredThen(CreatedMessage(payments'[p].order))
    BY <1>2
  <1>6. \A i \in 1..Len(streams'["PAYMENTS"]) :
            /\ streams'["PAYMENTS"][i].subject = "payments.completed"
            /\ streams'["PAYMENTS"][i].payment \in Payments
            /\ ChargedThen(streams'["PAYMENTS"][i].payment)
            /\ payments'[streams'["PAYMENTS"][i].payment].order = streams'["PAYMENTS"][i].order
    BY <1>3, <1>4
  <1> QED
    BY <1>5, <1>6 DEF ChargesJustified, CreatedMessage, Stored, Charged

LEMMA StepOnce ==
    ASSUME TypeOK, ServiceInv, CreatedOnly, AnnouncedOnce, [Next]_vars
    PROVE  AnnouncedOnce'
  <1>1. streams'["PAYMENTS"] = Sent \/ SubPublish
    BY StepStreams DEF StreamsMove
  <1>2. CASE streams'["PAYMENTS"] = Sent
    BY <1>2 DEF AnnouncedOnce, Sent
  <1>3. CASE SubPublish /\ streams'["PAYMENTS"] # Sent
    <2> DEFINE n == Len(Sent)
    <2>1. /\ n \in Nat /\ Len(streams'["PAYMENTS"]) = n + 1
          /\ streams'["PAYMENTS"][n + 1].payment = sub.payment
          /\ \A i \in 1..n : streams'["PAYMENTS"][i] = Sent[i] /\ Sent[i].payment # sub.payment
      BY <1>3, Announces DEF PaymentMessage
    <2> HIDE DEF n
    <2>2. \A i, j \in 1..n : Sent[i].payment = Sent[j].payment => i = j
      BY DEF AnnouncedOnce, Sent, n
    <2>3. \A i \in 1..(n + 1) : i \in 1..n \/ i = n + 1
      BY <2>1
    <2>4. \A i, j \in 1..(n + 1) :
             streams'["PAYMENTS"][i].payment = streams'["PAYMENTS"][j].payment => i = j
      BY <2>1, <2>2, <2>3
    <2> QED
      BY <2>1, <2>4 DEF AnnouncedOnce
  <1> QED
    BY <1>1, <1>2, <1>3

\* Calls that answered refunded know which payment they refunded.
RefundedKnown == \A r \in Refunds : refund[r].pc = "refunded" => refund[r].payment \in Payments

LEMMA StepAnswers ==
    ASSUME TypeOK, TypeOK', ServiceInv, RefundedKnown, AnswersStand, [Next]_vars
    PROVE  AnswersStand' /\ RefundedKnown'
  <1>1. TableMoves
    BY StepTable
  <1>2. ASSUME NEW r \in Refunds, refund'[r].pc = "refunded"
        PROVE  /\ refund'[r].payment \in Payments
               /\ payments'[refund'[r].payment] # NoRow
               /\ payments'[refund'[r].payment].status = "refunded"
    <2>1. CASE refund'[r] = refund[r]
      <3>1. refund[r].payment \in Payments /\ payments[refund[r].payment] # NoRow
            /\ payments[refund[r].payment].status = "refunded"
        BY <1>2, <2>1 DEF RefundedKnown, AnswersStand
      <3> QED
        BY <1>1, <2>1, <3>1, MovedRow
    <2>2. CASE RefundUpdate(r)
      <3> DEFINE p == refund[r].payment
      <3>1. p \in Payments /\ refund'[r].payment = p
        BY <2>2 DEF RefundUpdate, RefundEnds, ServiceInv, TypeOK
      <3>2. UpdateStatus(p, "refunded")
        BY <1>2, <2>2 DEF RefundUpdate, RefundEnds, TypeOK
      <3>3. payments' = [payments EXCEPT ![p] = [order |-> payments[p].order, status |-> "refunded"]]
        BY <3>1, <3>2, UpdateType DEF PaymentStatuses
      <3>4. payments'[p] = [order |-> payments[p].order, status |-> "refunded"]
        BY <3>1, <3>3 DEF TypeOK
      <3>5. payments[p] # NoRow
        BY <3>2 DEF UpdateStatus
      <3>6. payments'[p] # NoRow
        BY <1>1, <3>1, <3>5, MovedRow
      <3> QED
        BY <3>1, <3>4, <3>6
    <2>3. CASE refund' # refund /\ ~RefundUpdate(r)
      <3>1. refund'[r] = refund[r] \/ refund'[r].pc # "refunded"
        <4>1. ASSUME NEW q \in Refunds, NEW p \in Payments, RefundCheck(q, p)
              PROVE  refund'[r] = refund[r] \/ refund'[r].pc # "refunded"
          BY <4>1 DEF RefundCheck, RefundEnds, TypeOK
        <4>2. ASSUME NEW q \in Refunds, RefundUpdate(q)
              PROVE  refund'[r] = refund[r]
          BY <2>3, <4>2 DEF RefundUpdate, RefundEnds, TypeOK
        <4>3. CASE Crash
          BY <4>3 DEF Crash, TypeOK
        <4> QED
          BY <2>3, <4>1, <4>2, <4>3
             DEF Next, SubStep, SubReceive, SubFilter, SubCreate, SubComplete, SubPublish, SubAck,
                 GetPayment, ListPaymentsByOrder, OrderAnnounced, Shutdown, AtRest, vars
      <3> QED
        BY <1>2, <2>1, <3>1
    <2> QED
      BY <2>1, <2>2, <2>3
  <1>3. ASSUME NEW q \in Readers, NEW row \in reader'[q].rows
        PROVE  /\ row[1] \in Payments /\ payments[row[1]] # NoRow
               /\ payments[row[1]].order = row[2].order
               /\ payments[row[1]].status = "pending" => row[2].status = "pending"
               /\ payments[row[1]].status = "completed" => row[2].status \in {"pending", "completed"}
    <2>1. CASE row \in reader[q].rows
      <3>1. row[1] \in Payments
        BY <2>1 DEF TypeOK
      <3> QED
        BY <2>1, <3>1 DEF AnswersStand
    <2>2. CASE row \notin reader[q].rows
      <3>1. row[1] \in Payments /\ row[2] = payments[row[1]] /\ payments[row[1]] # NoRow
        <4>1. ASSUME NEW c \in Readers, NEW p \in Payments, GetPayment(c, p)
              PROVE  row[1] \in Payments /\ row[2] = payments[row[1]] /\ payments[row[1]] # NoRow
          <5>1. row \in {<<p, payments[p]>>} /\ payments[p] # NoRow
            BY <1>3, <2>2, <4>1 DEF GetPayment, ReaderAnswers, GetByID, TypeOK
          <5> QED
            BY <5>1
        <4>2. ASSUME NEW c \in Readers, NEW o \in Orders, ListPaymentsByOrder(c, o)
              PROVE  row[1] \in Payments /\ row[2] = payments[row[1]] /\ payments[row[1]] # NoRow
          <5>1. row \in GetByOrderID(o)
            BY <1>3, <2>2, <4>2 DEF ListPaymentsByOrder, ReaderAnswers, TypeOK
          <5> QED
            BY <5>1 DEF GetByOrderID
        <4> QED
          BY <1>3, <2>2, <4>1, <4>2
             DEF Next, SubStep, SubReceive, SubFilter, SubCreate, SubComplete, SubPublish, SubAck,
                 RefundCheck, RefundUpdate, OrderAnnounced, Crash, Shutdown, AtRest, vars
      <3> QED
        BY <3>1
    <2> QED
      BY <2>1, <2>2
  <1>4. ASSUME NEW q \in Readers, NEW row \in reader'[q].rows
        PROVE  /\ payments'[row[1]] # NoRow /\ payments'[row[1]].order = row[2].order
               /\ payments'[row[1]].status = "pending" => row[2].status = "pending"
               /\ payments'[row[1]].status = "completed" => row[2].status \in {"pending", "completed"}
    BY <1>1, <1>3, <1>4, MovedRow
  <1> QED
    BY <1>2, <1>4 DEF AnswersStand, RefundedKnown

\* A payment that is about to be refunded stays charged.
LEMMA StepRefunds ==
    ASSUME TypeOK, TypeOK', ServiceInv, [Next]_vars, NEW r \in Refunds, refund'[r].pc = "updating"
    PROVE  refund'[r].payment \in Payments /\ payments'[refund'[r].payment] # NoRow
           /\ payments'[refund'[r].payment].status \in {"completed", "refunded"}
  <1>1. TableMoves
    BY StepTable
  <1>2. refund'[r].payment \in Payments /\ Charged(refund'[r].payment)
    <2>1. CASE refund'[r] = refund[r]
      BY <2>1 DEF ServiceInv
    <2>2. ASSUME NEW q \in Refunds, NEW p \in Payments, RefundCheck(q, p), refund'[r] # refund[r]
          PROVE  refund'[r].payment = p /\ Charged(p)
      BY <2>2 DEF RefundCheck, RefundEnds, GetByID, Charged, TypeOK
    <2>3. ASSUME NEW q \in Refunds, RefundUpdate(q)
          PROVE  refund'[r] = refund[r]
      BY <2>3 DEF RefundUpdate, RefundEnds, TypeOK
    <2>4. CASE Crash
      BY <2>4 DEF Crash, TypeOK
    <2> QED
      BY <2>1, <2>2, <2>3, <2>4
         DEF Next, SubStep, SubReceive, SubFilter, SubCreate, SubComplete, SubPublish, SubAck,
             GetPayment, ListPaymentsByOrder, OrderAnnounced, Shutdown, AtRest, vars
  <1>3. payments[refund'[r].payment] # NoRow
    BY <1>2 DEF Charged
  <1> QED
    BY <1>1, <1>2, <1>3, MovedRow DEF Charged

\* What ServiceInv asks of the subscriber, of its state s after a step.
SubHolds(s) ==
    /\ s.pc # "idle" =>
          /\ s.msg \in 1..Len(streams'["ORDERS"])
          /\ streams'["ORDERS"][s.msg].subject = "orders.created"
    /\ s.pc \in {"completing", "publishing"} =>
          /\ s.payment \in Payments /\ payments'[s.payment] # NoRow
          /\ payments'[s.payment].order = streams'["ORDERS"][s.msg].order
          /\ \A i \in 1..Len(streams'["PAYMENTS"]) : streams'["PAYMENTS"][i].payment # s.payment
    /\ s.pc = "completing" => payments'[s.payment].status = "pending"
    /\ s.pc = "publishing" => payments'[s.payment].status \in {"completed", "refunded"}

LEMMA StepSub ==
    ASSUME TypeOK, TypeOK', ServiceInv, CreatedOnly, ChargesJustified, [Next]_vars
    PROVE  SubHolds(sub')
  <1>1. TableMoves /\ StreamsMove
    BY StepTable, StepStreams
  <1>2. sub.pc # "idle" =>
           /\ sub.msg \in 1..Len(streams'["ORDERS"])
           /\ streams'["ORDERS"][sub.msg] = streams["ORDERS"][sub.msg]
           /\ streams["ORDERS"][sub.msg].subject = "orders.created"
    BY <1>1 DEF ServiceInv, StreamsMove
  <1>3. CASE sub' = sub
    <2>1. streams'["PAYMENTS"] = Sent
      <3>1. ~SubPublish
        BY <1>3 DEF SubPublish, SubGoes, TypeOK
      <3> QED
        BY <1>1, <3>1 DEF StreamsMove
    <2>2. ASSUME NEW p \in Payments, payments[p] # NoRow, payments[p].status = "pending"
          PROVE  payments'[p] = payments[p]
      <3>1. CASE SubCreate \/ SubComplete
        BY <1>3, <3>1 DEF SubCreate, SubComplete, SubGoes, TypeOK
      <3>2. ASSUME NEW r \in Refunds, RefundUpdate(r)
            PROVE  payments'[p] = payments[p]
        <4>1. refund[r].payment \in Payments /\ Charged(refund[r].payment)
          BY <3>2 DEF RefundUpdate, ServiceInv
        <4>2. refund[r].payment # p
          BY <2>2, <4>1 DEF Charged
        <4> QED
          BY <3>2, <4>1, <4>2 DEF RefundUpdate, UpdateStatus, TypeOK
      <3> QED
        BY <3>1, <3>2
           DEF Next, SubStep, SubReceive, SubFilter, SubPublish, SubAck, RefundCheck, GetPayment,
               ListPaymentsByOrder, OrderAnnounced, Crash, Shutdown, AtRest, vars
    <2>3. CASE sub.pc = "completing"
      BY <1>2, <1>3, <2>1, <2>2, <2>3 DEF ServiceInv, SubOrder, SubHolds, Sent
    <2>4. CASE sub.pc = "publishing"
      <3>1. /\ sub.payment \in Payments /\ payments[sub.payment] # NoRow /\ Charged(sub.payment)
            /\ payments[sub.payment].order = SubOrder
        BY <2>4 DEF ServiceInv
      <3>2. payments'[sub.payment] # NoRow /\ payments'[sub.payment].order = SubOrder
            /\ payments'[sub.payment].status \in {"completed", "refunded"}
        BY <1>1, <3>1, MovedRow DEF Charged
      <3> QED
        BY <1>2, <1>3, <2>1, <2>4, <3>1, <3>2 DEF ServiceInv, SubOrder, SubHolds, Sent
    <2>5. CASE sub.pc \notin {"completing", "publishing"}
      BY <1>2, <1>3, <2>5 DEF SubHolds
    <2> QED
      BY <2>3, <2>4, <2>5
  <1>4. ASSUME NEW i \in Addressed, SubReceive(i)
        PROVE  SubHolds(sub')
    BY <1>1, <1>4, AddressedPosition DEF SubReceive, SubHolds, StreamsMove
  <1>5. CASE SubCreate
    <2>1. UNCHANGED streams /\ sub.pc = "creating"
      BY <1>5 DEF SubCreate
    <2>2. CASE SubGoes("acking")
      BY <1>2, <2>1, <2>2 DEF SubGoes, TypeOK, SubHolds
    <2>3. ASSUME NEW p \in FreshIds, Create(p, SubOrder),
                 sub' = [sub EXCEPT !.pc = "completing", !.payment = p]
          PROVE  SubHolds(sub')
      <3>1. p \in Payments /\ payments[p] = NoRow
        BY DEF FreshIds
      <3>2. \A i \in 1..Len(streams["PAYMENTS"]) : streams["PAYMENTS"][i].payment # p
        BY <3>1 DEF ChargesJustified, Charged
      <3>3. payments'[p] = [order |-> SubOrder, status |-> "pending"]
        BY <2>3, <3>1 DEF Create, TypeOK
      <3>4. payments'[p] # NoRow
        <4>1. SubOrder \in Orders
          BY <1>5, SubOrderType DEF SubCreate, ServiceInv
        <4>2. payments'[p] \in Row
          BY <3>3, <4>1 DEF Row, PaymentStatuses
        <4> QED
          BY <4>2, PaymentServiceAssumption
      <3>5. sub'.pc = "completing" /\ sub'.payment = p /\ sub'.msg = sub.msg
        BY <2>3 DEF TypeOK
      <3> QED
        BY <1>2, <2>1, <3>1, <3>2, <3>3, <3>4, <3>5 DEF SubHolds, SubOrder
    <2> QED
      BY <1>5, <2>2, <2>3 DEF SubCreate
  <1>6. CASE SubComplete
    <2>1. UNCHANGED streams /\ sub.pc = "completing"
      BY <1>6 DEF SubComplete
    <2>2. CASE SubGoes("acking")
      BY <1>2, <2>1, <2>2 DEF SubGoes, TypeOK, SubHolds
    <2>3. CASE UpdateStatus(sub.payment, "completed") /\ SubGoes("publishing")
      <3>1. /\ sub.payment \in Payments /\ payments[sub.payment] # NoRow
            /\ payments[sub.payment].order = SubOrder
            /\ \A i \in 1..Len(streams["PAYMENTS"]) : streams["PAYMENTS"][i].payment # sub.payment
        BY <2>1 DEF ServiceInv
      <3>2. payments'[sub.payment] = [order |-> SubOrder, status |-> "completed"]
        <4>1. payments' = [payments EXCEPT ![sub.payment] =
                  [order |-> payments[sub.payment].order, status |-> "completed"]]
          BY <2>3, <3>1, UpdateType DEF PaymentStatuses
        <4> QED
          BY <3>1, <4>1 DEF TypeOK
      <3>3. payments'[sub.payment] # NoRow
        BY <1>1, <3>1, MovedRow
      <3>4. sub'.pc = "publishing" /\ sub'.payment = sub.payment /\ sub'.msg = sub.msg
        BY <2>3 DEF SubGoes, TypeOK
      <3> QED
        BY <1>2, <2>1, <3>1, <3>2, <3>3, <3>4 DEF SubHolds, SubOrder
    <2> QED
      BY <1>6, <2>2, <2>3 DEF SubComplete
  <1>7. CASE SubPublish
    BY <1>2, <1>7 DEF SubPublish, SubGoes, TypeOK, SubHolds
  <1>8. CASE SubAck \/ Crash \/ Shutdown
    BY <1>8 DEF SubAck, Crash, Shutdown, SubRest, SubHolds
  <1> QED
    BY <1>3, <1>4, <1>5, <1>6, <1>7, <1>8
       DEF Next, SubStep, SubFilter, RefundCheck, RefundUpdate, GetPayment, ListPaymentsByOrder,
           OrderAnnounced, AtRest, vars

LEMMA StepService ==
    ASSUME TypeOK, TypeOK', ServiceInv, CreatedOnly, ChargesJustified, [Next]_vars
    PROVE  ServiceInv'
  <1>1. SubHolds(sub')
    BY StepSub
  <1>2. \A r \in Refunds : refund'[r].pc = "updating" =>
           /\ refund'[r].payment \in Payments /\ payments'[refund'[r].payment] # NoRow
           /\ payments'[refund'[r].payment].status \in {"completed", "refunded"}
    BY StepRefunds
  <1> QED
    BY <1>1, <1>2 DEF ServiceInv, SubHolds, SubOrder, Charged

-----------------------------------------------------------------------------

PaymentInv ==
    /\ TypeOK /\ ServiceInv /\ CreatedOnly /\ RefundedKnown
    /\ ChargesJustified /\ AnnouncedOnce /\ AnswersStand

LEMMA InitPayment == Init => PaymentInv
  <1> SUFFICES ASSUME Init PROVE PaymentInv
    OBVIOUS
  <1>1. JetStreamType(Message) /\ FaultsType
    BY FaultsAssumption DEF Init, JetStreamInit, JetStreamType, FaultsInit, FaultsType
  <1>2. SubRest \in SubType
    BY DEF SubRest, SubPcs, SubType
  <1>3. TypeOK
    BY <1>1, <1>2 DEF Init, TypeOK, SubType, RefundPcs, ReaderPcs
  <1>4. streams["ORDERS"] = << >> /\ streams["PAYMENTS"] = << >>
    BY DEF Init, JetStreamInit, Streams
  <1>5. ServiceInv /\ CreatedOnly /\ RefundedKnown /\ ChargesJustified /\ AnnouncedOnce
    BY <1>4 DEF Init, ServiceInv, SubRest, CreatedOnly, RefundedKnown, ChargesJustified,
                AnnouncedOnce
  <1>6. AnswersStand
    BY DEF Init, AnswersStand
  <1> QED
    BY <1>3, <1>5, <1>6 DEF PaymentInv

LEMMA StepPayment == PaymentInv /\ [Next]_vars => PaymentInv'
  <1> SUFFICES ASSUME PaymentInv, [Next]_vars PROVE PaymentInv'
    OBVIOUS
  <1> USE DEF PaymentInv
  <1>1. TypeOK'
    BY StepTypes
  <1> QED
    BY <1>1, StepService, StepStreams, StepAnswers, StepCharges, StepOnce

\* Every state the payment service reaches is of its types.
THEOREM TypeCorrect == Spec => []TypeOK
  <1>1. PaymentInv => TypeOK
    BY DEF PaymentInv
  <1> QED
    BY <1>1, InitPayment, StepPayment, PTL DEF Spec

\* Nobody is charged for an order that was not announced, and every announcement
\* names a charge of its order (subscriber.go), whatever is redelivered or fails.
THEOREM ChargesAreJustified == Spec => []ChargesJustified
  <1>1. PaymentInv => ChargesJustified
    BY DEF PaymentInv
  <1> QED
    BY <1>1, InitPayment, StepPayment, PTL DEF Spec

\* What the subscriber and the refunds rely on between two statements is so
\* (subscriber.go, server.go): the payment in hand is that of the message in hand,
\* and a refund updates a payment that was charged.
THEOREM ServiceSound == Spec => []ServiceInv
  <1>1. PaymentInv => ServiceInv
    BY DEF PaymentInv
  <1> QED
    BY <1>1, InitPayment, StepPayment, PTL DEF Spec

\* No payment is announced twice (subscriber.go).
THEOREM AnnouncesOnce == Spec => []AnnouncedOnce
  <1>1. PaymentInv => AnnouncedOnce
    BY DEF PaymentInv
  <1> QED
    BY <1>1, InitPayment, StepPayment, PTL DEF Spec

\* What a client was told of a refund or of a status is still so, or has only moved
\* on (server.go), whatever the other calls and the subscriber do.
THEOREM AnswersStay == Spec => []AnswersStand
  <1>1. PaymentInv => AnswersStand
    BY DEF PaymentInv
  <1> QED
    BY <1>1, InitPayment, StepPayment, PTL DEF Spec

-----------------------------------------------------------------------------
(* The service implements the ledger *)

LEMMA SendsOrders ==
    ASSUME PaymentInv, SubPublish
    PROVE  Ledger!Next \/ UNCHANGED Ledger!vars
  <1> DEFINE p == sub.payment
             heard == {[payment |-> Sent[i].payment, order |-> Sent[i].order] : i \in 1..Len(Sent)}
             after == streams'["PAYMENTS"]
             heardThen == {[payment |-> after[i].payment, order |-> after[i].order] :
                              i \in 1..Len(after)}
  <1>1. /\ p \in Payments /\ payments[p] # NoRow /\ payments[p].status \in {"completed", "refunded"}
        /\ payments[p].order = SubOrder /\ UNCHANGED payments
        /\ Len(Sent) \in Nat
        /\ \/ after = Sent
           \/ /\ Len(after) = Len(Sent) + 1
              /\ after[Len(Sent) + 1] = PaymentMessage("payments.completed", SubOrder, p)
              /\ \A i \in 1..Len(Sent) : after[i] = Sent[i]
    BY Announces DEF PaymentInv, Charged
  <1>2. CASE after = Sent
    BY <1>1, <1>2 DEF Ledger!vars, Sent
  <1>3. CASE /\ Len(after) = Len(Sent) + 1
             /\ after[Len(Sent) + 1] = PaymentMessage("payments.completed", SubOrder, p)
             /\ \A i \in 1..Len(Sent) : after[i] = Sent[i]
    <2>1. after[Len(Sent) + 1].payment = p /\ after[Len(Sent) + 1].order = payments[p].order
      BY <1>1, <1>3 DEF PaymentMessage
    <2>2. 1..Len(after) = (1..Len(Sent)) \cup {Len(Sent) + 1}
      BY <1>1, <1>3
    <2>3. heardThen = heard \cup {[payment |-> p, order |-> payments[p].order]}
      BY <1>1, <1>3, <2>1, <2>2
    <2>4. Ledger!Announce(p)
      BY <1>1, <2>3 DEF Ledger!Announce, Sent
    <2> QED
      BY <1>1, <2>4 DEF Ledger!Next, Ledger!Announce
  <1> QED
    BY <1>1, <1>2, <1>3

LEMMA StepLedger ==
    ASSUME PaymentInv, [Next]_vars
    PROVE  Ledger!Next \/ UNCHANGED Ledger!vars
  <1> USE DEF PaymentInv
  <1>1. TableMoves /\ StreamsMove
    BY StepTypes, StepTable, StepStreams
  <1>2. CASE SubPublish
    BY <1>2, SendsOrders
  <1>3. CASE UNCHANGED payments /\ ~SubPublish
    <2>1. streams'["PAYMENTS"] = streams["PAYMENTS"]
      BY <1>1, <1>3 DEF StreamsMove, Sent
    <2> QED
      BY <1>3, <2>1 DEF Ledger!vars
  <1>4. ASSUME NEW p \in Payments, NEW row, payments' = [payments EXCEPT ![p] = row], ~SubPublish
        PROVE  Ledger!Next \/ UNCHANGED Ledger!vars
    <2>1. streams'["PAYMENTS"] = streams["PAYMENTS"]
      BY <1>1, <1>4 DEF StreamsMove, Sent
    <2>2. payments'[p] = row /\ MovesOn(payments[p], row)
      BY <1>1, <1>4 DEF TableMoves
    <2>3. CASE row = payments[p]
      <3>1. payments' = payments
        BY <1>4, <2>3 DEF TypeOK
      <3> QED
        BY <2>1, <3>1 DEF Ledger!vars
    <2>4. CASE payments[p] = NoRow /\ \E o \in Orders : row = [order |-> o, status |-> "pending"]
      BY <1>4, <2>1, <2>4 DEF Ledger!Next, Ledger!Open
    <2>5. ASSUME NEW old, NEW new, payments[p] # NoRow, payments[p].status = old,
                 row = [order |-> payments[p].order, status |-> new]
          PROVE  Ledger!Moves(p, old, new)
      <3>1. payments[p] \in Row
        BY <2>5 DEF TypeOK
      <3>2. row = [payments[p] EXCEPT !.status = new]
        BY <2>5, <3>1 DEF Row
      <3> QED
        BY <1>4, <2>1, <2>5, <3>2 DEF Ledger!Moves
    <2> QED
      BY <2>2, <2>3, <2>4, <2>5 DEF MovesOn, Ledger!Next, Ledger!Charge, Ledger!Refund
  <1>5. CASE SubCreate
    BY <1>3, <1>4, <1>5 DEF SubCreate, Create, FreshIds, SubPublish
  <1>6. CASE SubComplete
    BY <1>3, <1>4, <1>6 DEF SubComplete, UpdateStatus, SubPublish, ServiceInv
  <1>7. ASSUME NEW r \in Refunds, RefundUpdate(r)
        PROVE  Ledger!Next \/ UNCHANGED Ledger!vars
    BY <1>2, <1>3, <1>4, <1>7 DEF RefundUpdate, UpdateStatus, ServiceInv
  <1> QED
    BY <1>2, <1>3, <1>5, <1>6, <1>7
       DEF Next, SubStep, SubReceive, SubFilter, SubAck, RefundCheck, GetPayment,
           ListPaymentsByOrder, OrderAnnounced, Crash, Shutdown, AtRest, vars

\* The service implements the life of a payment that PaymentLedger tells: its table
\* and what it publishes never take a step the ledger does not allow.
THEOREM LedgerImplemented == Spec => ImplementsLedger
  <1>1. Init => Ledger!Init
    BY DEF Init, JetStreamInit, Streams, Ledger!Init
  <1>2. PaymentInv /\ [Next]_vars => [Ledger!Next]_(Ledger!vars)
    BY StepLedger
  <1> QED
    BY <1>1, <1>2, InitPayment, StepPayment, PTL DEF Spec, ImplementsLedger, Ledger!Spec

-----------------------------------------------------------------------------
(* Proof that an order is paid for once per delivery of its message, and   *)
(* that only a failure delivers it once more: the payments of an order are *)
(* at most one more than the failures so far.                              *)

Queue == consumers[PaymentProcessor]
Announced == streams["ORDERS"]

\* The messages the server may deliver again lie before the next new one, and the
\* message in the subscriber's hands is not among them.
QueueInv ==
    /\ Queue.again \subseteq 1..(Queue.next - 1)
    /\ sub.pc = "idle" => sub.msg = 0
    /\ sub.pc # "idle" => sub.msg \in 1..(Queue.next - 1) /\ sub.msg \notin Queue.again

\* The message of the creation of o is still to be made into a payment.
Creates(i, o) == Announced[i].subject = "orders.created" /\ Announced[i].order = o
ToCome(i) == i \in Queue.again \/ i >= Queue.next
InHand(i) == sub.pc = "creating" /\ sub.msg = i
Pending(o) == \E i \in 1..Len(Announced) : Creates(i, o) /\ (ToCome(i) \/ InHand(i))

CreatedOnce ==
    \A i, j \in 1..Len(Announced) :
        Announced[i].subject = "orders.created" /\ Creates(j, Announced[i].order) => i = j

Rows(o) == {p \in Payments : payments[p] # NoRow /\ payments[p].order = o}

\* A payment to come counts as one that is there.
CountInv ==
    \A o \in Orders :
        /\ IsFiniteSet(Rows(o))
        /\ Cardinality(Rows(o)) + (IF Pending(o) THEN 1 ELSE 0) <= 1 + faults

ChargeInv == PaymentInv /\ QueueInv /\ CreatedOnce /\ CountInv

-----------------------------------------------------------------------------
(* The queue *)

LEMMA QueueType ==
    ASSUME TypeOK
    PROVE  /\ Queue.next \in Nat \ {0} /\ Queue.again \subseteq Nat
           /\ Queue = [next |-> Queue.next, again |-> Queue.again]
           /\ Announced \in Seq(Message) /\ Len(Announced) \in Nat
           /\ sub.msg \in Nat
  <1>1. Queue \in [next : Nat \ {0}, again : SUBSET Nat]
    BY ProcessorReads DEF TypeOK, JetStreamType, Queue
  <1>2. Announced \in Seq(Message)
    BY DEF TypeOK, JetStreamType, Streams, Announced
  <1> QED
    BY <1>1, <1>2 DEF TypeOK

\* What delivering and losing messages does to the queue of the subscriber.
LEMMA QueueAfterDeliver ==
    ASSUME TypeOK, QueueInv, NEW i \in Addressed, Deliver(PaymentProcessor, i)
    PROVE  /\ i \in 1..Len(Announced) /\ ToCome(i)
           /\ Queue'.again = Queue.again \ {i}
           /\ i \in 1..(Queue'.next - 1)
           /\ Queue'.next = IF i = Queue.next THEN i + 1 ELSE Queue.next
  <1>1. i \in Queue.again \cup {Queue.next} /\ i \in 1..Len(Announced)
    BY AddressedPosition DEF Deliver, Deliverable, Queue, Announced
  <1>2. Queue' = [next |-> IF i = Queue.next THEN i + 1 ELSE Queue.next,
                  again |-> Queue.again \ {i}]
    BY ProcessorReads DEF Deliver, TypeOK, JetStreamType, Queue
  <1> QED
    BY <1>1, <1>2, QueueType DEF QueueInv, ToCome

LEMMA QueueAfterLoss ==
    ASSUME TypeOK, QueueInv, LoseClient(PaymentProcessor, sub.msg)
    PROVE  Queue'.again \subseteq 1..(Queue'.next - 1)
  <1>1. PICK n \in Queue.next..(Len(Announced) + 1) :
            consumers' = [consumers EXCEPT ![PaymentProcessor] =
                [next |-> n, again |-> Queue.again \cup ({sub.msg} \ {0})
                                          \cup (Queue.next..(n - 1))]]
    BY ProcessorReads DEF LoseClient, AfterLoss, Queue, Announced
  <1>2. Queue' = [next |-> n, again |-> Queue.again \cup ({sub.msg} \ {0})
                                           \cup (Queue.next..(n - 1))]
    BY <1>1, ProcessorReads DEF TypeOK, JetStreamType, Queue
  <1>3. {sub.msg} \ {0} \subseteq 1..(Queue.next - 1)
    BY DEF QueueInv
  <1>4. n \in Nat /\ n >= Queue.next
    BY <1>1, QueueType
  <1> QED
    BY <1>2, <1>3, <1>4, QueueType DEF QueueInv

\* Every step keeps the order of the queue.
LEMMA StepQueue ==
    ASSUME TypeOK, QueueInv, [Next]_vars
    PROVE  QueueInv'
  <1>1. sub \in SubType
    BY DEF TypeOK, SubType
  <1>2. CASE UNCHANGED <<consumers, sub>>
    BY <1>2 DEF QueueInv, Queue
  <1>3. ASSUME NEW i \in Addressed, SubReceive(i)
        PROVE  QueueInv'
    <2>1. sub'.pc = "creating" /\ sub'.msg = i
      BY <1>3 DEF SubReceive
    <2>2. Deliver(PaymentProcessor, i)
      BY <1>3 DEF SubReceive
    <2>3. Queue'.again \subseteq 1..(Queue'.next - 1)
      BY <2>2, QueueAfterDeliver, QueueType DEF QueueInv
    <2> QED
      BY <2>1, <2>2, <2>3, QueueAfterDeliver DEF QueueInv
  <1>4. CASE SubFilter
    <2>1. Queue' = [Queue EXCEPT !.next = @ + 1] /\ UNCHANGED sub
      BY <1>4, ProcessorReads DEF SubFilter, PassOver, TypeOK, JetStreamType, Queue
    <2>2. Queue'.next = Queue.next + 1 /\ Queue'.again = Queue.again
      BY <2>1, QueueType
    <2> QED
      BY <2>1, <2>2, QueueType DEF QueueInv
  <1>5. CASE SubCreate \/ SubComplete \/ SubPublish
    <2>1. UNCHANGED consumers /\ sub'.msg = sub.msg /\ sub.pc # "idle" /\ sub'.pc # "idle"
      BY <1>1, <1>5 DEF SubCreate, SubComplete, SubPublish, SubGoes, SubType
    <2> QED
      BY <2>1 DEF QueueInv, Queue
  <1>6. CASE SubAck
    <2>1. sub'.pc = "idle" /\ sub'.msg = 0
      BY <1>6 DEF SubAck, SubRest
    <2>2. CASE UNCHANGED consumers
      BY <2>1, <2>2 DEF QueueInv, Queue
    <2>3. CASE Redeliver(PaymentProcessor, sub.msg)
      <3>1. Queue' = [Queue EXCEPT !.again = @ \cup {sub.msg}]
        BY <2>3, ProcessorReads DEF Redeliver, TypeOK, JetStreamType, Queue
      <3>2. Queue'.next = Queue.next /\ Queue'.again = Queue.again \cup {sub.msg}
        BY <3>1, QueueType
      <3> QED
        BY <1>6, <2>1, <3>2 DEF QueueInv, SubAck
    <2> QED
      BY <1>6, <2>2, <2>3 DEF SubAck
  <1>7. CASE Crash \/ Shutdown
    <2>1. sub'.pc = "idle" /\ sub'.msg = 0
      BY <1>7 DEF Crash, Shutdown, SubRest
    <2>2. CASE UNCHANGED consumers
      BY <2>1, <2>2 DEF QueueInv, Queue
    <2>3. CASE LoseClient(PaymentProcessor, sub.msg)
      BY <2>1, <2>3, QueueAfterLoss DEF QueueInv
    <2>4. CASE Recreate(PaymentProcessor)
      <3>1. Queue' = [next |-> 1, again |-> {}]
        BY <2>4, ProcessorReads DEF Recreate, TypeOK, JetStreamType, Queue
      <3> QED
        BY <2>1, <3>1 DEF QueueInv
    <2> QED
      BY <1>7, <2>2, <2>3, <2>4 DEF Crash, Shutdown
  <1> QED
    BY <1>2, <1>3, <1>4, <1>5, <1>6, <1>7
       DEF Next, SubStep, RefundCheck, RefundUpdate, GetPayment, ListPaymentsByOrder,
           OrderAnnounced, AtRest, vars

-----------------------------------------------------------------------------
(* What a step does to the payments of an order and to the one to come *)

\* Nothing new, a failure, the payment that was to come, or the order itself.
Nothing(o) ==
    Rows(o)' = Rows(o) /\ (Pending(o)' => Pending(o)) /\ (NoFault \/ faults' = faults + 1)
Fails(o) == Rows(o)' = Rows(o) /\ faults' = faults + 1
Pays(o) ==
    /\ Pending(o) /\ ~Pending(o)'
    /\ \E p \in Payments : Rows(o)' = Rows(o) \cup {p}
    /\ NoFault \/ faults' = faults + 1
Begins(o) == Rows(o) = {} /\ Rows(o)' = {} /\ NoFault

Counted(o) == Nothing(o) \/ Fails(o) \/ Pays(o) \/ Begins(o)

\* Each of the four keeps the count.
LEMMA CountKept ==
    ASSUME TypeOK, CountInv, \A o \in Orders : Counted(o)
    PROVE  CountInv'
  <1> SUFFICES ASSUME NEW o \in Orders
               PROVE  /\ IsFiniteSet(Rows(o)')
                      /\ Cardinality(Rows(o)') + (IF Pending(o)' THEN 1 ELSE 0) <= 1 + faults'
    BY DEF CountInv, Rows
  <1>1. faults \in Nat /\ IsFiniteSet(Rows(o)) /\ Cardinality(Rows(o)) \in Nat
    BY FS_CardinalityType, FaultsAssumption DEF TypeOK, FaultsType, CountInv
  <1>2. Cardinality(Rows(o)) + (IF Pending(o) THEN 1 ELSE 0) <= 1 + faults
    BY DEF CountInv
  <1>3. CASE Nothing(o) \/ Fails(o)
    BY <1>1, <1>2, <1>3 DEF Nothing, Fails, NoFault
  <1>4. CASE Pays(o)
    <2>1. PICK p \in Payments : Rows(o)' = Rows(o) \cup {p}
      BY <1>4 DEF Pays
    <2>2. /\ IsFiniteSet(Rows(o) \cup {p})
          /\ Cardinality(Rows(o) \cup {p}) \in {Cardinality(Rows(o)), Cardinality(Rows(o)) + 1}
      BY <1>1, FS_AddElement
    <2>3. /\ IsFiniteSet(Rows(o)') /\ Cardinality(Rows(o)') \in Nat
          /\ Cardinality(Rows(o)') <= Cardinality(Rows(o)) + 1
      BY <1>1, <2>1, <2>2
    <2> QED
      BY <1>1, <1>2, <1>4, <2>3 DEF Pays, NoFault
  <1>5. CASE Begins(o)
    BY <1>1, <1>5, FS_EmptySet DEF Begins, NoFault
  <1> QED
    BY <1>3, <1>4, <1>5 DEF Counted

\* A status changes no order's set of payments.
LEMMA RowsStay ==
    ASSUME TypeOK, TypeOK', NEW p, NEW status \in PaymentStatuses,
           p \in Payments, UpdateStatus(p, status)
    PROVE  \A o \in Orders : Rows(o)' = Rows(o)
  <1>1. payments' = [payments EXCEPT ![p] = [order |-> payments[p].order, status |-> status]]
        /\ payments[p] # NoRow /\ payments[p] \in Row
    BY UpdateType DEF UpdateStatus
  <1>2. \A q \in Payments : /\ payments'[q] # NoRow <=> payments[q] # NoRow
                            /\ payments'[q] # NoRow => payments'[q].order = payments[q].order
    <2>1. payments'[p] # NoRow /\ payments'[p].order = payments[p].order
      BY <1>1, PaymentServiceAssumption DEF Row, TypeOK
    <2>2. \A q \in Payments \ {p} : payments'[q] = payments[q]
      BY <1>1 DEF TypeOK
    <2> QED
      BY <1>1, <2>1, <2>2
  <1> QED
    BY <1>2 DEF Rows

\* Nothing comes to be pending while the queue and the stream stay.
LEMMA PendingStays ==
    ASSUME UNCHANGED <<Queue, Announced>>, sub'.pc = "creating" => UNCHANGED sub
    PROVE  \A o \in Orders : Pending(o)' => Pending(o)
  BY DEF Pending, Creates, ToCome, InHand

LEMMA CountReceive ==
    ASSUME ChargeInv, NEW i \in Addressed, SubReceive(i), NEW o \in Orders
    PROVE  Counted(o)
  <1> USE DEF ChargeInv, PaymentInv
  <1>1. /\ i \in 1..Len(Announced) /\ ToCome(i)
        /\ Queue'.again = Queue.again \ {i}
        /\ Queue'.next = IF i = Queue.next THEN i + 1 ELSE Queue.next
    BY QueueAfterDeliver DEF SubReceive
  <1>2. Announced' = Announced /\ sub' = [pc |-> "creating", msg |-> i, payment |-> NoPayment]
        /\ NoFault /\ UNCHANGED payments
    BY DEF SubReceive, Announced
  <1>3. \A j \in 1..Len(Announced) : ToCome(j)' \/ InHand(j)' => ToCome(j)
    BY <1>1, <1>2, QueueType DEF ToCome, InHand
  <1>4. Pending(o)' => Pending(o)
    BY <1>2, <1>3 DEF Pending, Creates
  <1> QED
    BY <1>2, <1>4 DEF Counted, Nothing, Rows

LEMMA CountFilter ==
    ASSUME ChargeInv, SubFilter, NEW o \in Orders
    PROVE  Counted(o)
  <1> USE DEF ChargeInv, PaymentInv
  <1>1. Queue' = [Queue EXCEPT !.next = @ + 1]
    BY ProcessorReads DEF SubFilter, PassOver, TypeOK, JetStreamType, Queue
  <1>2. Queue'.next = Queue.next + 1 /\ Queue'.again = Queue.again
    BY <1>1, QueueType
  <1>3. UNCHANGED <<sub, payments, Announced>> /\ NoFault
    BY DEF SubFilter, Announced
  <1>4. \A j \in 1..Len(Announced) : ToCome(j)' \/ InHand(j)' => ToCome(j) \/ InHand(j)
    BY <1>2, <1>3, QueueType DEF ToCome, InHand
  <1> QED
    BY <1>3, <1>4 DEF Counted, Nothing, Rows, Pending, Creates

LEMMA CountCreate ==
    ASSUME ChargeInv, SubCreate, NEW o \in Orders
    PROVE  Counted(o)
  <1> USE DEF ChargeInv, PaymentInv
  <1>1. UNCHANGED <<Queue, Announced>> /\ sub.pc = "creating" /\ sub'.pc # "creating"
        /\ (NoFault \/ faults' = faults + 1)
    BY DEF SubCreate, SubGoes, Queue, Announced, Fault, TypeOK
  <1>2. Pending(o)' => Pending(o)
    BY <1>1, PendingStays
  <1>3. CASE UNCHANGED payments
    BY <1>1, <1>2, <1>3 DEF Counted, Nothing, Rows
  <1>4. ASSUME NEW p \in FreshIds, Create(p, SubOrder)
        PROVE  Counted(o)
    <2>1. p \in Payments /\ payments[p] = NoRow
          /\ payments' = [payments EXCEPT ![p] = [order |-> SubOrder, status |-> "pending"]]
      BY <1>4 DEF FreshIds, Create
    <2>2. SubOrder \in Orders
      BY <1>1, SubOrderType DEF ServiceInv
    <2>3. payments'[p] # NoRow /\ payments'[p].order = SubOrder
      BY <2>1, <2>2, PaymentServiceAssumption DEF Row, PaymentStatuses, TypeOK
    <2>4. \A q \in Payments \ {p} : payments'[q] = payments[q]
      BY <2>1 DEF TypeOK
    <2>5. CASE o # SubOrder
      <3>1. Rows(o)' = Rows(o)
        BY <2>1, <2>3, <2>4, <2>5 DEF Rows
      <3> QED
        BY <1>1, <1>2, <3>1 DEF Counted, Nothing
    <2>6. CASE o = SubOrder
      <3>1. Rows(o)' = Rows(o) \cup {p}
        BY <2>1, <2>3, <2>4, <2>6 DEF Rows
      <3>2. sub.msg \in 1..Len(Announced) /\ Creates(sub.msg, o)
        BY <1>1, <2>6 DEF ServiceInv, Creates, SubOrder, Announced
      <3>3. Pending(o)
        BY <1>1, <3>2 DEF Pending, InHand
      <3>4. ~Pending(o)'
        <4>1. ~ToCome(sub.msg)
          BY <1>1, QueueType DEF QueueInv, ToCome
        <4>2. \A i \in 1..Len(Announced) : Creates(i, o) => i = sub.msg
          BY <3>2 DEF CreatedOnce, Creates
        <4>3. \A i \in 1..Len(Announced) : ~(Creates(i, o) /\ ToCome(i))
          BY <4>1, <4>2
        <4> QED
          BY <1>1, <4>3 DEF Pending, Creates, ToCome, InHand
      <3> QED
        BY <1>1, <2>1, <3>1, <3>3, <3>4 DEF Counted, Pays
    <2> QED
      BY <2>5, <2>6
  <1> QED
    BY <1>3, <1>4 DEF SubCreate

\* The steps of the subscriber after the payment is made, and the refunds.
LEMMA CountUpdate ==
    ASSUME ChargeInv, TypeOK', NEW o \in Orders,
           SubComplete \/ SubPublish \/ \E r \in Refunds : RefundUpdate(r)
    PROVE  Counted(o)
  <1> USE DEF ChargeInv, PaymentInv
  <1>1. Rows(o)' = Rows(o)
    <2>1. UNCHANGED payments => Rows(o)' = Rows(o)
      BY DEF Rows
    <2>2. CASE SubComplete
      <3>1. sub.payment \in Payments
        BY <2>2 DEF SubComplete, ServiceInv
      <3> QED
        BY <2>1, <2>2, <3>1, RowsStay DEF SubComplete, PaymentStatuses
    <2>3. ASSUME NEW r \in Refunds, RefundUpdate(r)
          PROVE  Rows(o)' = Rows(o)
      <3>1. refund[r].payment \in Payments
        BY <2>3 DEF RefundUpdate, ServiceInv
      <3> QED
        BY <2>1, <2>3, <3>1, RowsStay DEF RefundUpdate, PaymentStatuses
    <2> QED
      BY <2>1, <2>2, <2>3 DEF SubPublish
  <1>2. UNCHANGED Queue /\ (NoFault \/ faults' = faults + 1)
    BY DEF SubComplete, SubPublish, RefundUpdate, Queue, Fault
  <1>3. UNCHANGED Announced
    <2>1. CASE SubPublish
      <3>1. SubOrder \in Orders /\ sub.payment \in Payments
        BY <2>1, SubOrderType DEF SubPublish, ServiceInv
      <3> QED
        BY <2>1, <3>1, PaidMessageType, PublishAppends
           DEF SubPublish, TypeOK, Streams, Announced
    <2> QED
      BY <2>1 DEF SubComplete, RefundUpdate, Announced
  <1>4. sub'.pc = "creating" => UNCHANGED sub
    BY DEF SubComplete, SubPublish, RefundUpdate, SubGoes, TypeOK
  <1> QED
    BY <1>1, <1>2, <1>3, <1>4, PendingStays DEF Counted, Nothing

LEMMA CountAnnounced ==
    ASSUME ChargeInv, NEW a \in Orders, NEW msg \in Message, OrderAnnounced(a, msg),
           NEW o \in Orders
    PROVE  Counted(o) /\ CreatedOnce'
  <1> USE DEF ChargeInv, PaymentInv
  <1>1. /\ Len(Announced) \in Nat /\ Len(Announced') = Len(Announced) + 1
        /\ Announced'[Len(Announced) + 1] = msg
        /\ \A i \in 1..Len(Announced) : Announced'[i] = Announced[i]
    BY PublishAppends DEF OrderAnnounced, TypeOK, Streams, Announced
  <1>2. UNCHANGED <<Queue, sub, payments>> /\ NoFault /\ msg.order = a
    BY DEF OrderAnnounced, Queue
  <1>3. \A i \in 1..Len(Announced') : i \in 1..Len(Announced) \/ i = Len(Announced) + 1
    BY <1>1
  <1>4. msg.subject = "orders.created" => \A i \in 1..Len(Announced) : ~Creates(i, a)
    BY DEF OrderAnnounced, About, Creates, Announced
  <1>5. ASSUME msg.subject = "orders.created", o = a
        PROVE  Counted(o)
    <2>1. ~\E p \in Payments : payments[p] # NoRow /\ payments[p].order = o
      <3> SUFFICES ASSUME NEW p \in Payments, payments[p] # NoRow, payments[p].order = o
                   PROVE  FALSE
        OBVIOUS
      <3>1. PICK i \in 1..Len(Announced) : Announced[i] =
                [subject |-> "orders.created", order |-> o, payment |-> NoPayment]
        BY DEF ChargesJustified, Stored, Announced
      <3>2. Creates(i, o)
        BY <3>1 DEF Creates
      <3> QED
        BY <1>4, <1>5, <3>2
    <2>2. Rows(o) = {} /\ Rows(o)' = {}
      BY <1>2, <2>1 DEF Rows
    <2> QED
      BY <1>2, <1>5, <2>2 DEF Counted, Begins
  <1>6. ASSUME ~(msg.subject = "orders.created" /\ o = a)
        PROVE  Counted(o)
    <2>1. \A i \in 1..Len(Announced') : Creates(i, o)' => i \in 1..Len(Announced) /\ Creates(i, o)
      BY <1>1, <1>2, <1>3, <1>6 DEF Creates
    <2>2. Pending(o)' => Pending(o)
      BY <1>2, <2>1 DEF Pending, ToCome, InHand
    <2> QED
      BY <1>2, <2>2 DEF Counted, Nothing, Rows
  <1>7. CreatedOnce'
    <2> SUFFICES ASSUME NEW i \in 1..Len(Announced'), NEW j \in 1..Len(Announced'),
                        Announced'[i].subject = "orders.created",
                        Announced'[j].subject = "orders.created",
                        Announced'[j].order = Announced'[i].order
                 PROVE  i = j
      BY DEF CreatedOnce, Creates
    <2>1. CASE i \in 1..Len(Announced) /\ j \in 1..Len(Announced)
      BY <1>1, <2>1 DEF CreatedOnce, Creates
    <2>2. CASE i \in 1..Len(Announced) /\ j = Len(Announced) + 1
      BY <1>1, <1>2, <1>4, <2>2 DEF Creates
    <2>3. CASE i = Len(Announced) + 1 /\ j \in 1..Len(Announced)
      BY <1>1, <1>2, <1>4, <2>3 DEF Creates
    <2> QED
      BY <1>3, <2>1, <2>2, <2>3
  <1> QED
    BY <1>5, <1>6, <1>7

\* The other steps leave the stream ORDERS as it is.
LEMMA OrdersStay ==
    ASSUME ChargeInv, [Next]_vars, ~\E a \in Orders, msg \in Message : OrderAnnounced(a, msg)
    PROVE  UNCHANGED Announced
  <1>1. CASE SubPublish
    <2>1. SubOrder \in Orders /\ sub.payment \in Payments
      BY <1>1, SubOrderType DEF SubPublish, ServiceInv, ChargeInv, PaymentInv
    <2> QED
      BY <1>1, <2>1, PaidMessageType, PublishAppends
         DEF SubPublish, TypeOK, Streams, Announced, ChargeInv, PaymentInv
  <1>2. CASE ~SubPublish
    BY <1>2 DEF Next, SubStep, SubReceive, SubFilter, SubCreate, SubComplete, SubAck, RefundCheck,
                RefundUpdate, GetPayment, ListPaymentsByOrder, Crash, Shutdown, AtRest, vars,
                Announced
  <1> QED
    BY <1>1, <1>2

LEMMA CountOthers ==
    ASSUME ChargeInv, TypeOK', [Next]_vars, NEW o \in Orders,
           ~\E a \in Orders, msg \in Message : OrderAnnounced(a, msg)
    PROVE  Counted(o)
  <1>1. UNCHANGED Announced
    BY OrdersStay
  <1>2. UNCHANGED payments => Rows(o)' = Rows(o)
    BY DEF Rows
  <1>3. CASE SubAck \/ Crash \/ Shutdown
    <2>1. Rows(o)' = Rows(o)
      BY <1>2, <1>3 DEF SubAck, Crash, Shutdown
    <2>2. CASE faults' = faults + 1
      BY <2>1, <2>2 DEF Counted, Fails
    <2>3. CASE SubAck /\ UNCHANGED consumers /\ NoFault
      <3>1. UNCHANGED Queue /\ sub'.pc # "creating"
        BY <2>3 DEF SubAck, SubRest, Queue
      <3> QED
        BY <1>1, <2>1, <2>3, <3>1, PendingStays DEF Counted, Nothing
    <2> QED
      BY <1>3, <2>2, <2>3 DEF SubAck, Crash, Shutdown, Fault
  <1>4. CASE SubStep /\ ~SubAck
    BY <1>4, CountReceive, CountFilter, CountCreate, CountUpdate DEF SubStep
  <1>5. ASSUME NEW r \in Refunds, RefundUpdate(r)
        PROVE  Counted(o)
    BY <1>5, CountUpdate
  <1>6. ASSUME UNCHANGED <<consumers, payments, sub>>, NoFault \/ faults' = faults + 1
        PROVE  Counted(o)
    <2>1. UNCHANGED Queue
      BY <1>6 DEF Queue
    <2> QED
      BY <1>1, <1>2, <1>6, <2>1, PendingStays DEF Counted, Nothing
  <1>7. ASSUME NEW r \in Refunds, NEW p \in Payments, RefundCheck(r, p)
        PROVE  Counted(o)
    BY <1>6, <1>7 DEF RefundCheck, Fault
  <1>8. ASSUME NEW q \in Readers,
               (\E p \in Payments : GetPayment(q, p)) \/ \E a \in Orders : ListPaymentsByOrder(q, a)
        PROVE  Counted(o)
    BY <1>6, <1>8 DEF GetPayment, ListPaymentsByOrder, Fault
  <1>9. CASE AtRest \/ UNCHANGED vars
    BY <1>6, <1>9 DEF AtRest, vars, NoFault
  <1> QED
    BY <1>3, <1>4, <1>5, <1>7, <1>8, <1>9 DEF Next

-----------------------------------------------------------------------------
(* The theorem *)

LEMMA StepCharge == ChargeInv /\ [Next]_vars => ChargeInv'
  <1> SUFFICES ASSUME ChargeInv, [Next]_vars PROVE ChargeInv'
    OBVIOUS
  <1>1. PaymentInv' /\ QueueInv'
    BY StepPayment, StepQueue DEF ChargeInv, PaymentInv
  <1>2. \A o \in Orders : Counted(o)
    BY <1>1, CountOthers, CountAnnounced DEF PaymentInv
  <1>3. CountInv'
    BY <1>2, CountKept DEF ChargeInv, PaymentInv
  <1>4. CreatedOnce'
    <2>1. CASE \E a \in Orders, msg \in Message : OrderAnnounced(a, msg)
      BY <2>1, CountAnnounced
    <2>2. CASE ~\E a \in Orders, msg \in Message : OrderAnnounced(a, msg)
      BY <2>2, OrdersStay DEF ChargeInv, CreatedOnce, Creates
    <2> QED
      BY <2>1, <2>2
  <1> QED
    BY <1>1, <1>3, <1>4 DEF ChargeInv

LEMMA InitCharge == Init => ChargeInv
  <1> SUFFICES ASSUME Init PROVE ChargeInv
    OBVIOUS
  <1>1. Queue = [next |-> 1, again |-> {}] /\ Announced = << >> /\ faults = 0
    BY ProcessorReads DEF Init, JetStreamInit, FaultsInit, Queue, Announced, Streams
  <1>2. QueueInv
    BY <1>1 DEF QueueInv, Init, SubRest
  <1>3. CreatedOnce
    BY <1>1 DEF CreatedOnce
  <1>4. \A o \in Orders : Rows(o) = {} /\ ~Pending(o)
    BY <1>1 DEF Rows, Pending, Init
  <1>5. CountInv
    <2>1. IsFiniteSet({}) /\ Cardinality({}) = 0
      BY FS_EmptySet
    <2>2. ASSUME NEW o \in Orders
          PROVE  IsFiniteSet(Rows(o)) /\ Cardinality(Rows(o)) = 0
      BY <1>4, <2>1
    <2>3. ASSUME NEW o \in Orders
          PROVE  Cardinality(Rows(o)) + (IF Pending(o) THEN 1 ELSE 0) <= 1 + faults
      BY <1>1, <1>4, <2>2
    <2> QED
      BY <2>2, <2>3 DEF CountInv
  <1> QED
    BY <1>2, <1>3, <1>5, InitPayment DEF ChargeInv

\* The payments ListPaymentsByOrder finds are the rows of the order.
LEMMA RowsListed ==
    ASSUME NEW o, IsFiniteSet(Rows(o))
    PROVE  /\ Cardinality(GetByOrderID(o)) \in Nat
           /\ Cardinality(GetByOrderID(o)) <= Cardinality(Rows(o))
  <1> DEFINE f == [p \in Rows(o) |-> <<p, payments[p]>>]
  <1>1. f \in Surjection(Rows(o), GetByOrderID(o))
    BY DEF Surjection, GetByOrderID, Rows
  <1> QED
    BY <1>1, FS_Surjection, FS_CardinalityType

\* An order is paid for at most once more than something failed, for any number of
\* orders, payments, redeliveries and restarts (subscriber.go).
THEOREM ChargesAreCounted == Spec => []ChargedOnce
  <1>1. ChargeInv => ChargedOnce
    <2> SUFFICES ASSUME ChargeInv, NEW o \in Orders
                 PROVE  Cardinality(GetByOrderID(o)) <= 1 + faults
      BY DEF ChargedOnce
    <2>1. /\ IsFiniteSet(Rows(o)) /\ faults \in Nat
          /\ Cardinality(Rows(o)) + (IF Pending(o) THEN 1 ELSE 0) <= 1 + faults
      BY FaultsAssumption DEF ChargeInv, CountInv, PaymentInv, TypeOK, FaultsType
    <2>2. /\ Cardinality(Rows(o)) \in Nat /\ Cardinality(GetByOrderID(o)) \in Nat
          /\ Cardinality(GetByOrderID(o)) <= Cardinality(Rows(o))
      BY <2>1, FS_CardinalityType, RowsListed
    <2> QED
      BY <2>1, <2>2
  <1> QED
    BY <1>1, InitCharge, StepCharge, PTL DEF Spec

-----------------------------------------------------------------------------
(* Beside other services.  What the payment service holds on to survives a step  *)
(* of another service: of what the payment service reads it only extends ORDERS. *)

Aside ==
    /\ UNCHANGED <<payments, sub, refund, reader>>
    /\ JetStreamType(Message)' /\ FaultsType'
    /\ \/ UNCHANGED streams
       \/ \E m \in Message : /\ Publish("ORDERS", m)
                             /\ m.subject = "orders.created" => m.payment = NoPayment

LEMMA AsideKeeps == PaymentInv /\ Aside => PaymentInv'
  <1> SUFFICES ASSUME PaymentInv, Aside PROVE PaymentInv'
    OBVIOUS
  <1> USE DEF PaymentInv
  <1>1. TypeOK'
    BY DEF Aside, TypeOK
  <1>2. /\ Sent' = Sent
        /\ Len(streams["ORDERS"]) \in Nat
        /\ \A i \in 1..Len(streams["ORDERS"]) :
              i \in 1..Len(streams'["ORDERS"]) /\ streams'["ORDERS"][i] = streams["ORDERS"][i]
        /\ \A i \in 1..Len(streams'["ORDERS"]) :
              \/ i \in 1..Len(streams["ORDERS"])
              \/ /\ streams'["ORDERS"][i].subject = "orders.created"
                 => streams'["ORDERS"][i].payment = NoPayment
    <2>1. Len(streams["ORDERS"]) \in Nat
      BY DEF TypeOK, JetStreamType, Streams
    <2>2. ASSUME NEW m \in Message, Publish("ORDERS", m)
          PROVE  /\ Sent' = Sent
                 /\ Len(streams'["ORDERS"]) = Len(streams["ORDERS"]) + 1
                 /\ streams'["ORDERS"][Len(streams["ORDERS"]) + 1] = m
                 /\ \A i \in 1..Len(streams["ORDERS"]) : streams'["ORDERS"][i] = streams["ORDERS"][i]
      BY <2>2, PublishAppends DEF TypeOK, Streams, Sent
    <2> QED
      BY <2>1, <2>2 DEF Aside, Sent
  <1>3. CreatedOnly' /\ AnnouncedOnce' /\ AnswersStand' /\ RefundedKnown'
    BY <1>2 DEF Aside, CreatedOnly, AnnouncedOnce, AnswersStand, RefundedKnown, Sent
  <1>4. ChargesJustified'
    <2>1. ASSUME NEW p \in Payments, payments[p] # NoRow
          PROVE  \E i \in 1..Len(streams'["ORDERS"]) :
                    streams'["ORDERS"][i] = CreatedMessage(payments[p].order)
      <3>1. PICK i \in 1..Len(streams["ORDERS"]) :
              streams["ORDERS"][i] = CreatedMessage(payments[p].order)
        BY <2>1 DEF ChargesJustified, Stored, CreatedMessage
      <3> QED
        BY <1>2, <3>1
    <2> QED
      BY <1>2, <2>1 DEF Aside, ChargesJustified, Charged, Sent, Stored, CreatedMessage
  <1>5. ServiceInv'
    BY <1>2 DEF Aside, ServiceInv, SubOrder, Charged, Sent
  <1> QED
    BY <1>1, <1>3, <1>4, <1>5

\* The steps of the service itself.
ServiceStep ==
    \/ SubStep
    \/ \E r \in Refunds : (\E p \in Payments : RefundCheck(r, p)) \/ RefundUpdate(r)
    \/ Crash
    \/ Shutdown

\* What the service puts on PAYMENTS: the first message of a payment that is charged,
\* for an order that was announced.
LEMMA SettledRightly ==
    ASSUME PaymentInv, ServiceStep
    PROVE  \/ UNCHANGED streams
           \/ \E p \in Payments, o \in Orders :
                 /\ Publish("PAYMENTS", PaymentMessage("payments.completed", o, p))
                 /\ NoFault /\ UNCHANGED consumers
                 /\ Stored("ORDERS", CreatedMessage(o))
                 /\ \A i \in 1..Len(Sent) : Sent[i].payment # p
  <1> USE DEF PaymentInv
  <1>1. CASE SubPublish
    <2>1. /\ sub.payment \in Payments /\ Charged(sub.payment)
          /\ payments[sub.payment].order = SubOrder
          /\ \A i \in 1..Len(Sent) : Sent[i].payment # sub.payment
      BY <1>1, Announces
    <2>2. SubOrder \in Orders
      BY <1>1, SubOrderType DEF SubPublish, ServiceInv
    <2>3. Stored("ORDERS", CreatedMessage(SubOrder))
      BY <2>1 DEF ChargesJustified, CreatedMessage, Charged
    <2> QED
      BY <1>1, <2>1, <2>2, <2>3 DEF SubPublish
  <1>2. CASE ~SubPublish
    BY <1>2 DEF ServiceStep, SubStep, SubReceive, SubFilter, SubCreate, SubComplete, SubAck,
                RefundCheck, RefundUpdate, Crash, Shutdown
  <1> QED
    BY <1>1, <1>2

=============================================================================

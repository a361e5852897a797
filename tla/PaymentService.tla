--------------------------- MODULE PaymentService ---------------------------
(***************************************************************************)
(* The payment service: the subscriber that charges every created order    *)
(* (internal/payment/event/subscriber.go), the calls of its gRPC server    *)
(* (internal/payment/server.go), and the table and the stream they share.  *)
(*                                                                         *)
(* One action is one statement, one publish or one delivery.  Every call   *)
(* runs in a goroutine of its own, and no statement is in a transaction    *)
(* with another.                                                           *)
(***************************************************************************)
EXTENDS EventMessages, JetStream, Faults, FiniteSets

CONSTANTS
    Refunds,     \* The RefundPayment calls.
    Readers,     \* The GetPayment and ListPaymentsByOrder calls.
    NoRow        \* What the table holds under an id that is not there.

PaymentProcessor == "payment-processor"

PaymentStatuses == {"pending", "completed", "failed", "refunded"}

\* Amount, currency and method are copied from the message and never change.
Row == [order : Orders, status : PaymentStatuses]

ASSUME PaymentServiceAssumption ==
    /\ NoRow \notin Row
    /\ PaymentProcessor \in DOMAIN StreamOf
    /\ StreamOf[PaymentProcessor] = "ORDERS"

VARIABLES
    payments,    \* The table payments, by id.
    sub,         \* The subscriber: where it is, the position of the message in
                 \* its hands (0: none), the payment it made of it.
    refund,      \* refund[r]: where the call is, and its payment.
    reader       \* reader[q]: where the call is, and the rows it answered with.

serviceVars == <<payments, sub, refund, reader>>
vars == <<streams, consumers, faults, payments, sub, refund, reader>>

SubPcs    == {"idle", "creating", "completing", "publishing", "acking"}
RefundPcs == {"idle", "updating", "refunded", "refused", "not_found", "failed"}
ReaderPcs == {"idle", "answered", "not_found", "failed"}

TypeOK ==
    /\ JetStreamType(Message) /\ FaultsType
    /\ payments \in [Payments -> Row \cup {NoRow}]
    /\ sub \in [pc : SubPcs, msg : Nat, payment : Payments \cup {NoPayment}]
    /\ refund \in [Refunds -> [pc : RefundPcs, payment : Payments \cup {NoPayment}]]
    /\ reader \in [Readers -> [pc : ReaderPcs, rows : SUBSET (Payments \X Row)]]

SubRest == [pc |-> "idle", msg |-> 0, payment |-> NoPayment]

Init ==
    /\ JetStreamInit /\ FaultsInit
    /\ payments = [p \in Payments |-> NoRow]
    /\ sub = SubRest
    /\ refund = [r \in Refunds |-> [pc |-> "idle", payment |-> NoPayment]]
    /\ reader = [q \in Readers |-> [pc |-> "idle", rows |-> {}]]

-----------------------------------------------------------------------------
(* The repository *)

GetByID(p) == payments[p]
GetByOrderID(o) ==
    {<<p, payments[p]>> : p \in {p \in Payments : payments[p] # NoRow /\ payments[p].order = o}}

\* An id the table does not hold: uuid.New never draws one twice.
FreshIds == {p \in Payments : payments[p] = NoRow}

Create(p, o) == payments' = [payments EXCEPT ![p] = [order |-> o, status |-> "pending"]]

\* UPDATE ... WHERE id = p, whatever the status was.
UpdateStatus(p, status) ==
    /\ payments[p] # NoRow
    /\ payments' = [payments EXCEPT ![p].status = status]

-----------------------------------------------------------------------------
(* The subscriber: one message at a time.  An error ends the handler, and the *)
(* Ack follows all the same.                                                  *)

\* The messages the server may hand to the subscriber now: the subscription names
\* orders.created only.
Addressed ==
    {i \in Deliverable(PaymentProcessor) : streams["ORDERS"][i].subject = "orders.created"}

SubOrder == streams["ORDERS"][sub.msg].order
SubGoes(pc) == sub' = [sub EXCEPT !.pc = pc]

SubReceive(i) ==
    /\ sub.pc = "idle"
    /\ i \in Addressed
    /\ Deliver(PaymentProcessor, i)
    /\ sub' = [pc |-> "creating", msg |-> i, payment |-> NoPayment]
    /\ NoFault
    /\ UNCHANGED <<streams, payments, refund, reader>>

\* The server passes over the other subjects.
SubFilter ==
    /\ consumers[PaymentProcessor].next <= Len(streams["ORDERS"])
    /\ streams["ORDERS"][consumers[PaymentProcessor].next].subject # "orders.created"
    /\ PassOver(PaymentProcessor)
    /\ NoFault
    /\ UNCHANGED <<streams, payments, sub, refund, reader>>

\* A new payment per delivery.  The error of an INSERT that took effect and the
\* error of one that did not are the same to the handler.
SubCreate ==
    /\ sub.pc = "creating"
    /\ \/ \E p \in FreshIds :
             /\ Create(p, SubOrder)
             /\ \/ sub' = [sub EXCEPT !.pc = "completing", !.payment = p] /\ NoFault
                \/ SubGoes("acking") /\ Fault("commit_unknown")
       \/ UNCHANGED payments /\ SubGoes("acking") /\ Fault("db_error")
    /\ UNCHANGED <<streams, consumers, refund, reader>>

\* Mutant of SubComplete: the error of the UPDATE is only logged.
SubCompleteIgnored ==
    /\ sub.pc = "completing"
    /\ SubGoes("publishing")
    /\ \/ UpdateStatus(sub.payment, "completed") /\ NoFault
       \/ UNCHANGED payments /\ Fault("db_error")
    /\ UNCHANGED <<streams, consumers, refund, reader>>

SubComplete ==
    /\ sub.pc = "completing"
    /\ \/ /\ UpdateStatus(sub.payment, "completed")
          /\ \/ SubGoes("publishing") /\ NoFault
             \/ SubGoes("acking") /\ Fault("commit_unknown")
       \/ UNCHANGED payments /\ SubGoes("acking") /\ Fault("db_error")
    /\ UNCHANGED <<streams, consumers, refund, reader>>

\* Mutant of SubPublish: a publish that seems to fail is tried again.
SubPublishRetried ==
    /\ sub.pc = "publishing"
    /\ Publish("PAYMENTS", PaymentMessage("payments.completed", SubOrder, sub.payment))
    /\ \/ SubGoes("acking") /\ NoFault
       \/ UNCHANGED sub /\ Fault("publish_error")
    /\ UNCHANGED <<consumers, payments, refund, reader>>

\* The publish is the last step and its error is only logged.
SubPublish ==
    /\ sub.pc = "publishing"
    /\ SubGoes("acking")
    /\ \/ /\ Publish("PAYMENTS", PaymentMessage("payments.completed", SubOrder, sub.payment))
          /\ NoFault
       \/ UNCHANGED streams /\ Fault("publish_error")
    /\ UNCHANGED <<consumers, payments, refund, reader>>

\* Mutant of SubAck: there is no Ack when the handler failed.
SubAckOnSuccess ==
    /\ sub.pc = "acking"
    /\ sub' = SubRest
    /\ IF sub.payment # NoPayment /\ payments[sub.payment].status = "completed"
       THEN UNCHANGED consumers ELSE Redeliver(PaymentProcessor, sub.msg)
    /\ NoFault
    /\ UNCHANGED <<streams, payments, refund, reader>>

SubAck ==
    /\ sub.pc = "acking"
    /\ sub' = SubRest
    /\ \/ UNCHANGED consumers /\ NoFault
       \/ Redeliver(PaymentProcessor, sub.msg) /\ Fault("ack_lost")
    /\ UNCHANGED <<streams, payments, refund, reader>>

-----------------------------------------------------------------------------
(* The gRPC server *)

RefundEnds(r, pc) == refund' = [refund EXCEPT ![r].pc = pc]

\* Mutant of RefundCheck: the status is not looked at.
RefundUnchecked(r, p) ==
    /\ refund[r].pc = "idle"
    /\ IF GetByID(p) = NoRow THEN RefundEnds(r, "not_found")
       ELSE refund' = [refund EXCEPT ![r] = [pc |-> "updating", payment |-> p]]
    /\ NoFault
    /\ UNCHANGED <<streams, consumers, payments, sub, reader>>

\* RefundPayment reads the payment; an error of the read is answered as NotFound.
RefundCheck(r, p) ==
    /\ refund[r].pc = "idle"
    /\ \/ /\ GetByID(p) # NoRow /\ GetByID(p).status = "completed"
          /\ refund' = [refund EXCEPT ![r] = [pc |-> "updating", payment |-> p]]
          /\ NoFault
       \/ /\ GetByID(p) # NoRow /\ GetByID(p).status # "completed"
          /\ RefundEnds(r, "refused")
          /\ NoFault
       \/ GetByID(p) = NoRow /\ RefundEnds(r, "not_found") /\ NoFault
       \/ RefundEnds(r, "not_found") /\ Fault("db_error")
    /\ UNCHANGED <<streams, consumers, payments, sub, reader>>

\* Mutant of RefundUpdate: the answer does not wait for the UPDATE's outcome.
RefundAnswersFirst(r) ==
    /\ refund[r].pc = "updating"
    /\ \/ UpdateStatus(refund[r].payment, "refunded") /\ NoFault
       \/ UNCHANGED payments /\ Fault("db_error")
    /\ RefundEnds(r, "refunded")
    /\ UNCHANGED <<streams, consumers, sub, reader>>

\* It then sets the new status, whatever the payment has become meanwhile.
RefundUpdate(r) ==
    /\ refund[r].pc = "updating"
    /\ \/ /\ UpdateStatus(refund[r].payment, "refunded")
          /\ \/ RefundEnds(r, "refunded") /\ NoFault
             \/ RefundEnds(r, "failed") /\ Fault("commit_unknown")
       \/ UNCHANGED payments /\ RefundEnds(r, "failed") /\ Fault("db_error")
    /\ UNCHANGED <<streams, consumers, sub, reader>>

ReaderAnswers(q, pc, rows) == reader' = [reader EXCEPT ![q] = [pc |-> pc, rows |-> rows]]

GetPayment(q, p) ==
    /\ reader[q].pc = "idle"
    /\ \/ /\ GetByID(p) # NoRow
          /\ ReaderAnswers(q, "answered", {<<p, GetByID(p)>>})
          /\ NoFault
       \/ GetByID(p) = NoRow /\ ReaderAnswers(q, "not_found", {}) /\ NoFault
       \/ ReaderAnswers(q, "failed", {}) /\ Fault("db_error")
    /\ UNCHANGED <<streams, consumers, payments, sub, refund>>

\* The loop over the rows does not ask rows.Err: when the connection breaks the
\* rows read so far are the answer.
ListPaymentsByOrder(q, o) ==
    /\ reader[q].pc = "idle"
    /\ \/ ReaderAnswers(q, "answered", GetByOrderID(o)) /\ NoFault
       \/ /\ \E rows \in SUBSET GetByOrderID(o) : ReaderAnswers(q, "answered", rows)
          /\ Fault("partial_read")
       \/ ReaderAnswers(q, "failed", {}) /\ Fault("db_error")
    /\ UNCHANGED <<streams, consumers, payments, sub, refund>>

-----------------------------------------------------------------------------
(* The environment *)

About(o) == {i \in 1..Len(streams["ORDERS"]) : streams["ORDERS"][i].order = o}

\* What the write side puts on the stream: each order is created once, and has at
\* most one outcome after that.
OrderAnnounced(o, msg) ==
    /\ msg.order = o /\ msg.subject \in OrderSubjects
    /\ msg.payment = NoPayment <=> msg.subject # "orders.paid"
    /\ IF msg.subject = "orders.created" THEN About(o) = {}
       ELSE About(o) # {} /\ \A i \in About(o) : streams["ORDERS"][i].subject = "orders.created"
    /\ msg.subject = "orders.paid" =>
          Stored("PAYMENTS", PaymentMessage("payments.completed", o, msg.payment))
    /\ Publish("ORDERS", msg)
    /\ NoFault
    /\ UNCHANGED <<consumers, payments, sub, refund, reader>>

\* The process dies and is started again.
Crash ==
    /\ Fault("crash")
    /\ sub' = SubRest
    /\ LoseClient(PaymentProcessor, sub.msg)
    /\ refund' = [r \in Refunds |->
          IF refund[r].pc = "updating" THEN [refund[r] EXCEPT !.pc = "failed"] ELSE refund[r]]
    /\ UNCHANGED <<streams, payments, reader>>

\* SIGTERM: the context ends, and with it the statement of the subscriber's
\* handler, which may still acknowledge; the consumer is deleted if Unsubscribe
\* comes before the exit.  GracefulStop waits for the calls.
Shutdown ==
    /\ Fault("shutdown")
    /\ \A r \in Refunds : refund[r].pc # "updating"
    /\ sub' = SubRest
    /\ \/ UNCHANGED consumers
       \/ LoseClient(PaymentProcessor, sub.msg)
       \/ Recreate(PaymentProcessor)
    /\ UNCHANGED <<streams, payments, refund, reader>>

\* Nothing is left to do, or the ids of the model are used up.
AtRest ==
    /\ \/ /\ sub.pc = "idle" /\ Addressed = {}
          /\ consumers[PaymentProcessor].next > Len(streams["ORDERS"])
       \/ sub.pc = "creating" /\ FreshIds = {}
    /\ \A r \in Refunds : refund[r].pc # "updating"
    /\ UNCHANGED vars

-----------------------------------------------------------------------------

SubStep ==
    \/ \E i \in Addressed : SubReceive(i)
    \/ SubFilter \/ SubCreate \/ SubComplete \/ SubPublish \/ SubAck

Next ==
    \/ SubStep
    \/ \E r \in Refunds : (\E p \in Payments : RefundCheck(r, p)) \/ RefundUpdate(r)
    \/ \E q \in Readers :
          \/ \E p \in Payments : GetPayment(q, p)
          \/ \E o \in Orders : ListPaymentsByOrder(q, o)
    \/ \E o \in Orders, msg \in Message : OrderAnnounced(o, msg)
    \/ Crash
    \/ Shutdown
    \/ AtRest

Spec == Init /\ [][Next]_vars

-----------------------------------------------------------------------------
(* What the payment service guarantees *)

Charged(p) == payments[p] # NoRow /\ payments[p].status \in {"completed", "refunded"}

\* Nobody is charged for an order that was not announced, and what the stream says
\* of a payment is true: it is charged, and for that order.  A handler that crashed,
\* failed half way or was run twice does not change this.
ChargesJustified ==
    /\ \A p \in Payments : payments[p] # NoRow =>
          Stored("ORDERS", [subject |-> "orders.created", order |-> payments[p].order,
                            payment |-> NoPayment])
    /\ \A i \in 1..Len(streams["PAYMENTS"]) :
          LET msg == streams["PAYMENTS"][i]
          IN  /\ msg.subject = "payments.completed"
              /\ msg.payment \in Payments
              /\ Charged(msg.payment)
              /\ payments[msg.payment].order = msg.order

\* No payment is announced twice, however often its order is delivered: the order
\* service may take two messages for two payments.
AnnouncedOnce ==
    \A i, j \in 1..Len(streams["PAYMENTS"]) :
        streams["PAYMENTS"][i].payment = streams["PAYMENTS"][j].payment => i = j

\* What a client was told, of a refund or of a status, is still so or has only
\* moved on: pending, completed, refunded.
AnswersStand ==
    /\ \A r \in Refunds : refund[r].pc = "refunded" =>
          payments[refund[r].payment] # NoRow /\ payments[refund[r].payment].status = "refunded"
    /\ \A q \in Readers : \A row \in reader[q].rows :
          LET now == payments[row[1]]
          IN  /\ now # NoRow /\ now.order = row[2].order
              /\ now.status = "pending" => row[2].status = "pending"
              /\ now.status = "completed" => row[2].status \in {"pending", "completed"}

\* What the subscriber and the refunds in progress rely on: the message in hand is
\* of a created order, its payment is pending until it is completed and is not
\* announced, and a payment about to be refunded is charged.
ServiceInv ==
    /\ sub.pc # "idle" =>
          /\ sub.msg \in 1..Len(streams["ORDERS"])
          /\ streams["ORDERS"][sub.msg].subject = "orders.created"
    /\ sub.pc \in {"completing", "publishing"} =>
          /\ sub.payment \in Payments /\ payments[sub.payment] # NoRow
          /\ payments[sub.payment].order = SubOrder
          /\ \A i \in 1..Len(streams["PAYMENTS"]) :
                streams["PAYMENTS"][i].payment # sub.payment
    /\ sub.pc = "completing" => payments[sub.payment].status = "pending"
    /\ sub.pc = "publishing" => Charged(sub.payment)
    /\ \A r \in Refunds : refund[r].pc = "updating" =>
          refund[r].payment \in Payments /\ Charged(refund[r].payment)

\* The service implements the life of a payment: opened, charged, refunded, never
\* back, and announced under its order once it is charged.
Ledger == INSTANCE PaymentLedger WITH
    ledger <- payments,
    announced <- {[payment |-> streams["PAYMENTS"][i].payment,
                   order |-> streams["PAYMENTS"][i].order] : i \in 1..Len(streams["PAYMENTS"])}
ImplementsLedger == Ledger!Spec

\* An order is paid for once: every further payment of it is the doing of a failure
\* that had its message delivered again.
ChargedOnce ==
    \A o \in Orders : Cardinality(GetByOrderID(o)) <= 1 + faults

\* Only a completed payment is refunded: what the documentation says of the rule.
RefundsOnlyCompleted ==
    [][\A r \in Refunds :
          refund[r].pc # "refunded" /\ refund'[r].pc = "refunded" =>
              payments[refund[r].payment].status = "completed"]_vars

=============================================================================

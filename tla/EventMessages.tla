---------------------------- MODULE EventMessages ----------------------------
(***************************************************************************)
(* What the services tell each other over JetStream: the payloads the      *)
(* publishers build from an event, and the subjects they send them on.  A  *)
(* payload carries neither the version of the stored event nor anything    *)
(* else that would let a consumer put two messages in order.               *)
(***************************************************************************)
EXTENDS OrderAggregate

OrderSubjects == {"orders.created", "orders.paid", "orders.cancelled"}
PaymentSubjects == {"payments.completed", "payments.failed"}

Message == [subject : OrderSubjects \cup PaymentSubjects, order : Orders,
            payment : Payments \cup {NoPayment}]

NatsSubject(type) ==
    CASE type = EventOrderCreated   -> "orders.created"
      [] type = EventOrderPaid      -> "orders.paid"
      [] type = EventOrderCancelled -> "orders.cancelled"

\* Mutant of OrderMessage: the paid payload has no payment id.
OrderMessageWithoutPayment(e) ==
    [subject |-> NatsSubject(e.type), order |-> e.order, payment |-> NoPayment]

\* What Publisher.Publish sends of a stored event.
OrderMessage(e) ==
    [subject |-> NatsSubject(e.type), order |-> e.order, payment |-> e.payment]

\* Mutant of PaymentMessage: the two ids are passed in the wrong order.
PaymentMessageSwapped(subject, o, payment) ==
    [subject |-> subject, order |-> payment, payment |-> o]

\* What the payment service's publisher sends.
PaymentMessage(subject, o, payment) ==
    [subject |-> subject, order |-> o, payment |-> payment]

=============================================================================

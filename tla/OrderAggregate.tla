--------------------------- MODULE OrderAggregate ---------------------------
(***************************************************************************)
(* The order aggregate (internal/order/aggregate/order.go): what state a   *)
(* history of stored events amounts to, and which event each command       *)
(* produces from that state.  The items of an order are those of its       *)
(* Cart, so a created event does not repeat them.                          *)
(***************************************************************************)
EXTENDS Naturals

CONSTANTS
    Orders,      \* Order ids; PlaceOrder draws a fresh one (a UUID).
    Payments,    \* Payment ids.
    NoPayment    \* The payment id of an event that has none.

ASSUME NoPaymentAssumption == NoPayment \notin Payments

EventOrderCreated   == "order.created"
EventOrderPaid      == "order.paid"
EventOrderCancelled == "order.cancelled"
EventTypes == {EventOrderCreated, EventOrderPaid, EventOrderCancelled}

StoredEvent == [order : Orders, version : Nat, type : EventTypes,
                payment : Payments \cup {NoPayment}]

\* "none" stands for the empty status of an aggregate without events.
Statuses == {"none", "pending", "paid", "cancelled"}

NewOrder == [status |-> "none", version |-> 0]

\* The status apply gives the aggregate; it does not look at the old one.
StatusAfter(type) ==
    CASE type = EventOrderCreated   -> "pending"
      [] type = EventOrderPaid      -> "paid"
      [] type = EventOrderCancelled -> "cancelled"

Newest(events) == CHOOSE e \in events : \A f \in events : f.version <= e.version

\* Replaying the rows in the order of their versions: each apply overwrites
\* status and version, so the newest row decides both.
LoadFromEvents(events) ==
    IF events = {} THEN NewOrder
    ELSE [status |-> StatusAfter(Newest(events).type), version |-> Newest(events).version]

\* Mutant of CanChange: the check forgotten.
CanChangeAlways(status) == TRUE

\* Cancel and MarkPaid return an error unless the order is pending.
CanChange(status) == status = "pending"

\* The event of PlaceOrder, Cancel and MarkPaid, from the version of the
\* aggregate it is called on.
OrderCreated(o) ==
    [order |-> o, version |-> NewOrder.version + 1,
     type |-> EventOrderCreated, payment |-> NoPayment]

OrderCancelled(o, version) ==
    [order |-> o, version |-> version + 1,
     type |-> EventOrderCancelled, payment |-> NoPayment]

\* Mutant of OrderPaid: the version is not counted up.
OrderPaidSameVersion(o, version, payment) ==
    [order |-> o, version |-> version,
     type |-> EventOrderPaid, payment |-> payment]

OrderPaid(o, version, payment) ==
    [order |-> o, version |-> version + 1,
     type |-> EventOrderPaid, payment |-> payment]

=============================================================================

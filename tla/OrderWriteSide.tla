--------------------------- MODULE OrderWriteSide ---------------------------
(***************************************************************************)
(* The write side of the order service: the gRPC handlers PlaceOrder and   *)
(* CancelOrder (internal/order/command/handler.go), which run concurrently *)
(* with each other and with the subscriber of payment events               *)
(* (internal/order/event/payment_subscriber.go), over the event store, the *)
(* product service's stock and the streams ORDERS and PAYMENTS.            *)
(*                                                                         *)
(* One action is one call of a handler to another system: between two      *)
(* calls every other actor may move.                                       *)
(***************************************************************************)
EXTENDS EventStore, EventMessages, ProductStock, JetStream, Faults

CONSTANTS
    Cart,            \* Cart[o] is the sequence of items of the PlaceOrder call
                     \* that draws id o.
    Cancels,         \* The CancelOrder calls.
    NoOrder,         \* The order of a CancelOrder call that has not arrived.
    PaymentOutcomes  \* The subjects the payment service publishes on.

PaymentHandler == "order-payment-handler"

\* The gRPC server refuses a request without items and one with a quantity
\* that is not positive.
OrderItem == [product : Products, quantity : Nat \ {0}]

ASSUME CartAssumption ==
    \A o \in Orders : Cart[o] \in Seq(OrderItem) /\ Len(Cart[o]) > 0
ASSUME WriteSideAssumption ==
    /\ NoOrder \notin Orders
    /\ PaymentOutcomes \subseteq PaymentSubjects
    /\ PaymentHandler \in DOMAIN StreamOf
    /\ StreamOf[PaymentHandler] = "PAYMENTS"

VARIABLES
    place,    \* place[o]: where the PlaceOrder call of o is, how many lines of
              \* its cart it holds a reservation for, how many it gave back.
    cancel,   \* cancel[c]: where the call is, its order, the version of the
              \* aggregate it loaded, how many lines it released.
    sub       \* The payment subscriber: where it is, the position of the
              \* message in its hands (0: none), the version it loaded.

vars == <<store, stock, streams, consumers, faults, place, cancel, sub>>

PlacePcs  == {"idle", "reserving", "rollback", "publishing", "done", "failed", "crashed"}
CancelPcs == {"idle", "persisting", "releasing", "publishing", "done", "rejected", "crashed"}
SubPcs    == {"idle", "persisting", "publishing", "acking"}

TypeOK ==
    /\ EventStoreType /\ StockType /\ FaultsType /\ JetStreamType(Message)
    /\ place \in [Orders -> [pc : PlacePcs, reserved : Nat, released : Nat]]
    /\ cancel \in [Cancels -> [pc : CancelPcs, order : Orders \cup {NoOrder},
                               version : Nat, released : Nat]]
    /\ sub \in [pc : SubPcs, msg : Nat, version : Nat]

Init ==
    /\ EventStoreInit /\ StockInit /\ FaultsInit /\ JetStreamInit
    /\ place = [o \in Orders |-> [pc |-> "idle", reserved |-> 0, released |-> 0]]
    /\ cancel = [c \in Cancels |-> [pc |-> "idle", order |-> NoOrder,
                                    version |-> 0, released |-> 0]]
    /\ sub = [pc |-> "idle", msg |-> 0, version |-> 0]

-----------------------------------------------------------------------------
(* PlaceOrder *)

PlaceGoes(o, pc) == place' = [place EXCEPT ![o].pc = pc]

\* The request passes the checks of the gRPC server.
PlaceStart(o) ==
    /\ place[o].pc = "idle"
    /\ PlaceGoes(o, "reserving")
    /\ NoFault
    /\ UNCHANGED <<store, stock, streams, consumers, cancel, sub>>

NextLine(o) == Cart[o][place[o].reserved + 1]
Reserving(o) == place[o].pc = "reserving" /\ place[o].reserved < Len(Cart[o])
FullyReserved(o) == place[o].pc = "reserving" /\ place[o].reserved = Len(Cart[o])

ReserveLine(o) ==
    /\ Reserving(o)
    /\ ReserveStock(NextLine(o).product, NextLine(o).quantity)
    /\ place' = [place EXCEPT ![o].reserved = @ + 1]
    /\ NoFault
    /\ UNCHANGED <<store, streams, consumers, cancel, sub>>

\* An error path of PlaceOrder: give back what is reserved, then answer.
FailPlace(o) == PlaceGoes(o, IF place[o].reserved = 0 THEN "failed" ELSE "rollback")

\* The product service answers Success: false, or one of the two calls fails.
ReserveRefused(o) ==
    /\ Reserving(o)
    /\ \/ ~Available(NextLine(o).product, NextLine(o).quantity) /\ NoFault
       \/ Fault("rpc_error")
    /\ FailPlace(o)
    /\ UNCHANGED <<store, stock, streams, consumers, cancel, sub>>

\* ReserveStock succeeds but its answer does not arrive: an error to the handler.
ReserveReplyLost(o) ==
    /\ Reserving(o)
    /\ ReserveStock(NextLine(o).product, NextLine(o).quantity)
    /\ Fault("reply_lost")
    /\ FailPlace(o)
    /\ UNCHANGED <<store, streams, consumers, cancel, sub>>

\* rollbackReservations releases line after line and ignores what it is told.
RollbackLine(o) ==
    /\ place[o].pc = "rollback"
    /\ LET line == Cart[o][place[o].released + 1]
       IN  \/ ReleaseStock(line.product, line.quantity) /\ NoFault
           \/ UNCHANGED stock /\ Fault("release_lost")
    /\ place' = [place EXCEPT ![o] =
          [pc |-> IF @.released + 1 = @.reserved THEN "failed" ELSE "rollback",
           reserved |-> @.reserved, released |-> @.released + 1]]
    /\ UNCHANGED <<store, streams, consumers, cancel, sub>>

\* Mutant of PlaceAppend: it answers without publishing.
PlaceAppendOnly(o) ==
    /\ FullyReserved(o)
    /\ Commit(OrderCreated(o))
    /\ PlaceGoes(o, "done")
    /\ NoFault
    /\ UNCHANGED <<stock, streams, consumers, cancel, sub>>

PlaceAppend(o) ==
    /\ FullyReserved(o)
    /\ Commit(OrderCreated(o))
    /\ PlaceGoes(o, "publishing")
    /\ NoFault
    /\ UNCHANGED <<stock, streams, consumers, cancel, sub>>

\* Append returns an error; the transaction may have committed all the same.
PlaceAppendFails(o) ==
    /\ FullyReserved(o)
    /\ \/ UNCHANGED store /\ Fault("append_error")
       \/ Commit(OrderCreated(o)) /\ Fault("commit_unknown")
    /\ FailPlace(o)
    /\ UNCHANGED <<stock, streams, consumers, cancel, sub>>

\* An error of Publish does not change the answer.
PublishOrIgnore(e) ==
    \/ Publish("ORDERS", OrderMessage(e)) /\ NoFault
    \/ UNCHANGED streams /\ Fault("publish_error")

PlacePublish(o) ==
    /\ place[o].pc = "publishing"
    /\ PublishOrIgnore(OrderCreated(o))
    /\ PlaceGoes(o, "done")
    /\ UNCHANGED <<store, stock, consumers, cancel, sub>>

-----------------------------------------------------------------------------
(* CancelOrder *)

CancelGoes(c, pc) == cancel' = [cancel EXCEPT ![c].pc = pc]

\* A client has the id of an order from PlaceOrder's answer or from the read
\* model, which is built from the stream; another id finds no rows.
ClientKnows(o) ==
    \/ place[o].pc = "done"
    \/ Stored("ORDERS", OrderMessage(OrderCreated(o)))
    \/ Load(o) = {}

\* What Load may return to a handler.
Loads(o, rows) ==
    \/ rows = Load(o) /\ NoFault
    \/ rows \in PartialLoads(o) /\ Fault("partial_load")

\* Load, replay and Cancel.
CancelLoad(c, o) ==
    /\ cancel[c].pc = "idle"
    /\ ClientKnows(o)
    /\ \E rows \in {Load(o)} \cup PartialLoads(o) :
          /\ Loads(o, rows)
          /\ LET order == LoadFromEvents(rows)
             IN  cancel' = [cancel EXCEPT ![c] =
                    [pc |-> IF CanChange(order.status) THEN "persisting" ELSE "rejected",
                     order |-> o, version |-> order.version, released |-> 0]]
    /\ UNCHANGED <<store, stock, streams, consumers, place, sub>>

CancelChange(c) == OrderCancelled(cancel[c].order, cancel[c].version)

CancelAppend(c) ==
    /\ cancel[c].pc = "persisting"
    /\ Commit(CancelChange(c))
    /\ CancelGoes(c, "releasing")
    /\ NoFault
    /\ UNCHANGED <<stock, streams, consumers, place, sub>>

\* Mutant of CancelAppendFails: the error of Append is not checked.
CancelAppendUnchecked(c) ==
    /\ cancel[c].pc = "persisting"
    /\ \/ Conflicts(CancelChange(c)) /\ UNCHANGED store /\ NoFault
       \/ UNCHANGED store /\ Fault("append_error")
       \/ Commit(CancelChange(c)) /\ Fault("commit_unknown")
    /\ CancelGoes(c, "releasing")
    /\ UNCHANGED <<stock, streams, consumers, place, sub>>

CancelAppendFails(c) ==
    /\ cancel[c].pc = "persisting"
    /\ \/ Conflicts(CancelChange(c)) /\ UNCHANGED store /\ NoFault
       \/ UNCHANGED store /\ Fault("append_error")
       \/ Commit(CancelChange(c)) /\ Fault("commit_unknown")
    /\ CancelGoes(c, "rejected")
    /\ UNCHANGED <<stock, streams, consumers, place, sub>>

\* The loop over the items; what ReleaseStock answers is ignored.
CancelRelease(c) ==
    /\ cancel[c].pc = "releasing"
    /\ LET line == Cart[cancel[c].order][cancel[c].released + 1]
       IN  \/ ReleaseStock(line.product, line.quantity) /\ NoFault
           \/ UNCHANGED stock /\ Fault("release_lost")
    /\ cancel' = [cancel EXCEPT ![c] =
          [pc |-> IF @.released + 1 = Len(Cart[@.order]) THEN "publishing" ELSE "releasing",
           order |-> @.order, version |-> @.version, released |-> @.released + 1]]
    /\ UNCHANGED <<store, streams, consumers, place, sub>>

CancelPublish(c) ==
    /\ cancel[c].pc = "publishing"
    /\ PublishOrIgnore(CancelChange(c))
    /\ CancelGoes(c, "done")
    /\ UNCHANGED <<store, stock, consumers, place, sub>>

-----------------------------------------------------------------------------
(* The subscriber of payments.*: one message at a time. *)

SubGoes(pc) == sub' = [sub EXCEPT !.pc = pc]
SubMessage == streams["PAYMENTS"][sub.msg]

\* Mutant of SubChange: the subject is not looked at.
SubChangePaid == OrderPaid(SubMessage.order, sub.version, SubMessage.payment)

\* The change the message asks for: MarkPaid or Cancel.
SubChange ==
    IF SubMessage.subject = "payments.completed"
    THEN OrderPaid(SubMessage.order, sub.version, SubMessage.payment)
    ELSE OrderCancelled(SubMessage.order, sub.version)

\* The callback starts: Load, replay and the check of MarkPaid or Cancel.  Every
\* reason not to go on leads to the Ack.
SubHandle(i) ==
    /\ sub.pc = "idle"
    /\ Deliver(PaymentHandler, i)
    /\ LET o == streams["PAYMENTS"][i].order
       IN  \E rows \in {Load(o)} \cup PartialLoads(o) :
             /\ Loads(o, rows)
             /\ LET order == LoadFromEvents(rows)
                IN  sub' = [pc |-> IF CanChange(order.status) THEN "persisting" ELSE "acking",
                            msg |-> i, version |-> order.version]
    /\ UNCHANGED <<store, stock, streams, place, cancel>>

\* Mutant of SubAppend: the change is not published.
SubAppendOnly ==
    /\ sub.pc = "persisting"
    /\ Commit(SubChange)
    /\ SubGoes("acking")
    /\ NoFault
    /\ UNCHANGED <<stock, streams, consumers, place, cancel>>

SubAppend ==
    /\ sub.pc = "persisting"
    /\ Commit(SubChange)
    /\ SubGoes("publishing")
    /\ NoFault
    /\ UNCHANGED <<stock, streams, consumers, place, cancel>>

\* The error is logged and the message acknowledged.
SubAppendFails ==
    /\ sub.pc = "persisting"
    /\ \/ Conflicts(SubChange) /\ UNCHANGED store /\ NoFault
       \/ UNCHANGED store /\ Fault("append_error")
       \/ Commit(SubChange) /\ Fault("commit_unknown")
    /\ SubGoes("acking")
    /\ UNCHANGED <<stock, streams, consumers, place, cancel>>

SubPublish ==
    /\ sub.pc = "publishing"
    /\ PublishOrIgnore(SubChange)
    /\ SubGoes("acking")
    /\ UNCHANGED <<store, stock, consumers, place, cancel>>

SubRests == sub' = [pc |-> "idle", msg |-> 0, version |-> 0]

SubAck ==
    /\ sub.pc = "acking"
    /\ SubRests
    /\ \/ UNCHANGED consumers /\ NoFault
       \/ Redeliver(PaymentHandler, sub.msg) /\ Fault("ack_lost")
    /\ UNCHANGED <<store, stock, streams, place, cancel>>

-----------------------------------------------------------------------------
(* The process and its environment *)

PlaceInProgress(o) == place[o].pc \in {"reserving", "rollback", "publishing"}
CancelInProgress(c) == cancel[c].pc \in {"persisting", "releasing", "publishing"}

\* The process dies and is started again: the requests it was serving are gone.
Crash ==
    /\ Fault("crash")
    /\ place' = [o \in Orders |->
          IF PlaceInProgress(o) THEN [place[o] EXCEPT !.pc = "crashed"] ELSE place[o]]
    /\ cancel' = [c \in Cancels |->
          IF CancelInProgress(c) THEN [cancel[c] EXCEPT !.pc = "crashed"] ELSE cancel[c]]
    /\ SubRests
    /\ LoseClient(PaymentHandler, sub.msg)
    /\ UNCHANGED <<store, stock, streams>>

\* SIGTERM: the context of the callback is cancelled, which makes its database
\* calls fail, GracefulStop waits for the requests, the subscriber unsubscribes
\* if it gets to it before the process exits.  A callback at work acknowledges
\* the message after its error, or the exit comes first.
Shutdown ==
    /\ Fault("shutdown")
    /\ \A o \in Orders : ~PlaceInProgress(o)
    /\ \A c \in Cancels : ~CancelInProgress(c)
    /\ SubRests
    /\ \/ sub.pc # "publishing" /\ UNCHANGED consumers
       \/ LoseClient(PaymentHandler, sub.msg)
       \/ Recreate(PaymentHandler)
    /\ UNCHANGED <<store, stock, streams, place, cancel>>

\* The payment service settles a payment of an order it heard of.  A message
\* that is delivered to it twice makes it create a second payment.
PaymentSettled(payment, o, subject) ==
    /\ subject \in PaymentOutcomes
    /\ Stored("ORDERS", OrderMessage(OrderCreated(o)))
    /\ \A i \in 1..Len(streams["PAYMENTS"]) : streams["PAYMENTS"][i].payment # payment
    /\ Publish("PAYMENTS", PaymentMessage(subject, o, payment))
    /\ NoFault
    /\ UNCHANGED <<store, stock, consumers, place, cancel, sub>>

\* Nothing is in progress and nothing waits to be delivered.
Quiescent ==
    /\ \A o \in Orders : ~PlaceInProgress(o)
    /\ \A c \in Cancels : ~CancelInProgress(c)
    /\ sub.pc = "idle"
    /\ Deliverable(PaymentHandler) = {}

\* The service has nothing to do, which is no deadlock.
AtRest == Quiescent /\ UNCHANGED vars

-----------------------------------------------------------------------------

PlaceStep(o) ==
    \/ ReserveLine(o) \/ ReserveRefused(o) \/ ReserveReplyLost(o) \/ RollbackLine(o)
    \/ PlaceAppend(o) \/ PlaceAppendFails(o) \/ PlacePublish(o)

CancelStep(c) ==
    \/ CancelAppend(c) \/ CancelAppendFails(c) \/ CancelRelease(c) \/ CancelPublish(c)

SubStep ==
    \/ \E i \in Deliverable(PaymentHandler) : SubHandle(i)
    \/ SubAppend \/ SubAppendFails \/ SubPublish \/ SubAck

Next ==
    \/ \E o \in Orders : PlaceStart(o) \/ PlaceStep(o)
    \/ \E c \in Cancels : CancelStep(c) \/ \E o \in Orders : CancelLoad(c, o)
    \/ SubStep
    \/ \E p \in Payments, o \in Orders, s \in PaymentSubjects : PaymentSettled(p, o, s)
    \/ Crash
    \/ Shutdown
    \/ AtRest

Spec == Init /\ [][Next]_vars

\* A goroutine that runs goes on, every call it makes returns, and the server
\* delivers what is in the stream.  Clients and payments are under no obligation.
Fairness ==
    /\ \A o \in Orders : WF_vars(PlaceStep(o))
    /\ \A c \in Cancels : WF_vars(CancelStep(c))
    /\ WF_vars(SubStep)

FairSpec == Spec /\ Fairness

-----------------------------------------------------------------------------
(* What the write side guarantees *)

\* The history of every order is a created event, followed by at most one
\* outcome: no two writers that loaded the same version both get theirs
\* stored, and no event is stored for an order that was never created.
HistoryWellFormed ==
    \A e \in store :
        /\ e.version \in {1, 2}
        /\ e.version = 1 <=> e.type = EventOrderCreated
        /\ \E f \in store : f.order = e.order /\ f.version = 1
        /\ \A f \in store : f.order = e.order /\ f.version = e.version => f = e

\* What makes HistoryWellFormed and TypeOK inductive: what the local state of a
\* handler says of the store it read some steps ago.
Created(o) == \E e \in store : e.order = o /\ e.version = 1

PlaceInv ==
    \A o \in Orders :
        /\ place[o].pc \in {"idle", "reserving"} =>
              Load(o) = {} /\ place[o].released = 0 /\ place[o].reserved <= Len(Cart[o])
        /\ place[o].pc = "rollback" =>
              place[o].released < place[o].reserved /\ place[o].reserved <= Len(Cart[o])
        /\ place[o].pc = "publishing" => Created(o)

CancelInv ==
    \A c \in Cancels :
        /\ cancel[c].pc \in {"persisting", "releasing", "publishing"} =>
              cancel[c].order \in Orders /\ cancel[c].version = 1 /\ Created(cancel[c].order)
        /\ cancel[c].pc \in {"idle", "persisting"} => cancel[c].released = 0
        /\ cancel[c].pc = "releasing" => cancel[c].released < Len(Cart[cancel[c].order])
        /\ cancel[c].pc \in {"releasing", "publishing"} => CancelChange(c) \in store

SubInv ==
    /\ sub.pc # "idle" => sub.msg \in 1..Len(streams["PAYMENTS"])
    /\ sub.pc \in {"persisting", "publishing"} => sub.version = 1 /\ Created(SubMessage.order)
    /\ sub.pc = "publishing" => SubChange \in store

\* No handler acts on a version of an order that the history never had, gives
\* back a line it does not hold, or announces what it did not store.
HandlersInv == PlaceInv /\ CancelInv /\ SubInv

\* An order is recorded as paid only by a payment that was completed for this
\* very order, whatever the subscriber was handed twice, late or again.
PaidByItsPayment ==
    \A e \in store : e.type = EventOrderPaid =>
        Stored("PAYMENTS", PaymentMessage("payments.completed", e.order, e.payment))

\* The stream tells the story of an order in the order it happened: nobody
\* reads of an outcome without having read of the order.  (Needs a stream that
\* takes every message: see the failed publish in the README.)
CreatedFirst ==
    LET log == streams["ORDERS"]
    IN  \A i \in 1..Len(log) : \E j \in 1..i : log[j] = OrderMessage(OrderCreated(log[i].order))

\* Unless something fails, every stored event reaches the stream.
EveryEventAnnounced ==
    \A o \in Orders, type \in EventTypes :
        (\E e \in store : e.order = o /\ e.type = type)
            ~> \/ faults > 0
               \/ \E i \in 1..Len(streams["ORDERS"]) :
                     /\ streams["ORDERS"][i].order = o
                     /\ streams["ORDERS"][i].subject = NatsSubject(type)

\* A payment that was settled settles its order: in the end the order is paid,
\* or cancelled, whichever was stored first.
PaymentSettlesOrder ==
    \A o \in Orders :
        (\E i \in 1..Len(streams["PAYMENTS"]) : streams["PAYMENTS"][i].order = o)
            ~> StatusOf(o) \in {"paid", "cancelled"}

-----------------------------------------------------------------------------
(* The write side implements the life of an order as its clients see it. *)

Fact(subject) ==
    CASE subject = "orders.created"   -> "pending"
      [] subject = "orders.paid"      -> "paid"
      [] subject = "orders.cancelled" -> "cancelled"

StatusNow == [o \in Orders |-> StatusOf(o)]
FeedNow ==
    [i \in 1..Len(streams["ORDERS"]) |->
        [order |-> streams["ORDERS"][i].order, status |-> Fact(streams["ORDERS"][i].subject)]]

Lifecycle == INSTANCE OrderLifecycle WITH status <- StatusNow, feed <- FeedNow

\* Whatever fails, an order goes from pending to one final outcome, and what
\* the stream says of an order is true of it and said once.
ImplementsLifecycle == Lifecycle!Spec

=============================================================================

--------------------------- MODULE OrderReadModel ---------------------------
(***************************************************************************)
(* The read side of the order service: the projector                       *)
(* (internal/order/event/projector.go), which builds a view of each order  *)
(* in Redis (repository/redis_read.go) from the stream ORDERS, and the     *)
(* queries GetOrder and ListOrdersByUser (query/handler.go, server.go).    *)
(*                                                                         *)
(* One action is one Redis command or one delivery: the projector and the  *)
(* queries interleave between any two, also inside a pipeline, which Redis *)
(* does not execute as a transaction.                                      *)
(***************************************************************************)
EXTENDS EventMessages, JetStream, Faults

CONSTANTS
    Users,       \* User ids.
    UserOf,      \* UserOf[o] is the user who placed o.
    Recency,     \* Recency[o] ranks the members of a sorted set: by the second
                 \* o was created in, then by id.
    Queries,     \* The calls of the two query RPCs.
    NoOrder,     \* The order of a query that is not about one.
    NoUser,      \* The user of a query that is not about one.
    NoView       \* What Redis holds of an order without a view.

Projector == "order-projector"

View == [status : Statuses, payment : Payments \cup {NoPayment}]

ASSUME ReadModelAssumption ==
    /\ UserOf \in [Orders -> Users]
    /\ Recency \in [Orders -> Nat]
    /\ \A o, p \in Orders : Recency[o] = Recency[p] => o = p
    /\ NoView \notin View
    /\ NoOrder \notin Orders
    /\ NoUser \notin Users
    /\ Projector \in DOMAIN StreamOf
    /\ StreamOf[Projector] = "ORDERS"

VARIABLES
    views,    \* views[o] is the value of the key order:<o>.
    viewless, \* The orders whose view has ever expired, or was not there when Redis
              \* refused to set it (a history).
    index,    \* index[u] is the sorted set user_orders:<u>.
    proj,     \* The projector: where it is, the position of the message in
              \* its hands (0: none), the view it is about to save.
    query     \* query[q]: where the call is, what it is about, the ids it got
              \* from the sorted set, those it has yet to look up, its answer.

vars == <<streams, consumers, faults, views, viewless, index, proj, query>>

ProjPcs  == {"idle", "loading", "saving", "indexing", "acking"}
QueryPcs == {"idle", "listing", "answered", "not_found", "failed"}

TypeOK ==
    /\ JetStreamType(Message) /\ FaultsType
    /\ views \in [Orders -> View \cup {NoView}]
    /\ viewless \subseteq Orders
    /\ index \in [Users -> SUBSET Orders]
    /\ proj \in [pc : ProjPcs, msg : Nat, view : View \cup {NoView}]
    /\ query \in [Queries -> [pc : QueryPcs, order : Orders \cup {NoOrder},
                              user : Users \cup {NoUser}, ids : SUBSET Orders,
                              left : SUBSET Orders,
                              answer : Seq([order : Orders, view : View])]]

ProjRest == [pc |-> "idle", msg |-> 0, view |-> NoView]
QueryRest == [pc |-> "idle", order |-> NoOrder, user |-> NoUser,
              ids |-> {}, left |-> {}, answer |-> << >>]

Init ==
    /\ JetStreamInit /\ FaultsInit
    /\ views = [o \in Orders |-> NoView]
    /\ viewless = {}
    /\ index = [u \in Users |-> {}]
    /\ proj = ProjRest
    /\ query = [q \in Queries |-> QueryRest]

\* A view in Redis: GetByID finds none under a key that is not there.
Found(o) == views[o] # NoView

\* A view as the queries answer with it.
Answer(o) == [order |-> o, view |-> views[o]]

-----------------------------------------------------------------------------
(* The projector: one message at a time. *)

ProjMessage == streams["ORDERS"][proj.msg]
ProjOrder == ProjMessage.order
ProjGoes(pc) == proj' = [proj EXCEPT !.pc = pc]

\* Mutant of PendingView: the status is not set.
PendingViewUnset == [status |-> "", payment |-> NoPayment]

\* The view of an order that was created and no more.
PendingView == [status |-> "pending", payment |-> NoPayment]

\* The message arrives.  The view of a created order is made from the message
\* alone; the other handlers ask Redis for the view first.
ProjReceive(i) ==
    /\ proj.pc = "idle"
    /\ Deliver(Projector, i)
    /\ proj' = IF streams["ORDERS"][i].subject = "orders.created"
               THEN [pc |-> "saving", msg |-> i, view |-> PendingView]
               ELSE [pc |-> "loading", msg |-> i, view |-> NoView]
    /\ NoFault
    /\ UNCHANGED <<streams, views, viewless, index, query>>

\* Mutant of ViewAfter: the paid handler keeps the status it loaded.
ViewAfterStale(view, msg) ==
    IF msg.subject = "orders.paid"
    THEN [view EXCEPT !.payment = msg.payment]
    ELSE [view EXCEPT !.status = "cancelled"]

\* What the paid and the cancelled handler make of the view they loaded.
ViewAfter(view, msg) ==
    IF msg.subject = "orders.paid"
    THEN [status |-> "paid", payment |-> msg.payment]
    ELSE [view EXCEPT !.status = "cancelled"]

\* Mutant of ProjLoad: a missing view is taken for a pending one.
ProjLoadOrMake ==
    /\ proj.pc = "loading"
    /\ proj' = [proj EXCEPT !.pc = "saving", !.view = ViewAfter(PendingView, ProjMessage)]
    /\ NoFault
    /\ UNCHANGED <<streams, consumers, views, viewless, index, query>>

\* GetByID.  Without a view, or with an error, the handler gives up and the
\* message is acknowledged.
ProjLoad ==
    /\ proj.pc = "loading"
    /\ \/ /\ Found(ProjOrder)
          /\ proj' = [proj EXCEPT !.pc = "saving",
                                  !.view = ViewAfter(views[ProjOrder], ProjMessage)]
          /\ NoFault
       \/ /\ ~Found(ProjOrder)
          /\ ProjGoes("acking")
          /\ NoFault
       \/ ProjGoes("acking") /\ Fault("redis_error")
    /\ UNCHANGED <<streams, consumers, views, viewless, index, query>>

\* Mutant of ProjSet: the index is written first.
ProjIndexFirst ==
    /\ proj.pc = "saving"
    /\ index' = [index EXCEPT ![UserOf[ProjOrder]] = @ \cup {ProjOrder}]
    /\ ProjGoes("indexing")
    /\ NoFault
    /\ UNCHANGED <<streams, consumers, views, viewless, query>>

\* Save, the first command of the pipeline.
ProjSet ==
    /\ proj.pc = "saving"
    /\ views' = [views EXCEPT ![ProjOrder] = proj.view]
    /\ ProjGoes("indexing")
    /\ NoFault
    /\ UNCHANGED <<streams, consumers, viewless, index, query>>

\* Redis refuses the first command, and carries out the second.
ProjSetRefused ==
    /\ proj.pc = "saving"
    /\ viewless' = IF Found(ProjOrder) THEN viewless ELSE viewless \cup {ProjOrder}
    /\ ProjGoes("indexing")
    /\ Fault("set_refused")
    /\ UNCHANGED <<streams, consumers, views, index, query>>

\* Save, the second command.
ProjIndex ==
    /\ proj.pc = "indexing"
    /\ index' = [index EXCEPT ![UserOf[ProjOrder]] = @ \cup {ProjOrder}]
    /\ ProjGoes("acking")
    /\ NoFault
    /\ UNCHANGED <<streams, consumers, views, viewless, query>>

\* The connection breaks before Redis got (all of) the pipeline.
ProjSaveFails ==
    /\ proj.pc \in {"saving", "indexing"}
    /\ Fault("redis_error")
    /\ ProjGoes("acking")
    /\ UNCHANGED <<streams, consumers, views, viewless, index, query>>

\* Mutant of ProjAck: the Ack is forgotten.
ProjAckForgotten ==
    /\ proj.pc = "acking"
    /\ proj' = ProjRest
    /\ Redeliver(Projector, proj.msg)
    /\ NoFault
    /\ UNCHANGED <<streams, views, viewless, index, query>>

\* The Ack follows success and error alike.
ProjAck ==
    /\ proj.pc = "acking"
    /\ proj' = ProjRest
    /\ \/ UNCHANGED consumers /\ NoFault
       \/ Redeliver(Projector, proj.msg) /\ Fault("ack_lost")
    /\ UNCHANGED <<streams, views, viewless, index, query>>

-----------------------------------------------------------------------------
(* The queries *)

QueryGoes(q, rec) == query' = [query EXCEPT ![q] = rec]

\* One GET; a missing key is answered with NotFound.
GetOrder(q, o) ==
    /\ query[q].pc = "idle"
    /\ \/ /\ Found(o)
          /\ QueryGoes(q, [QueryRest EXCEPT !.pc = "answered", !.order = o,
                                           !.answer = <<Answer(o)>>])
          /\ NoFault
       \/ /\ ~Found(o)
          /\ QueryGoes(q, [QueryRest EXCEPT !.pc = "not_found", !.order = o])
          /\ NoFault
       \/ /\ QueryGoes(q, [QueryRest EXCEPT !.pc = "failed", !.order = o])
          /\ Fault("redis_error")
    /\ UNCHANGED <<streams, consumers, views, viewless, index, proj>>

\* ListOrdersByUser begins with the sorted set.
ListStart(q, u) ==
    /\ query[q].pc = "idle"
    /\ \/ /\ QueryGoes(q, [QueryRest EXCEPT
                 !.pc = IF index[u] = {} THEN "answered" ELSE "listing",
                 !.user = u, !.ids = index[u], !.left = index[u]])
          /\ NoFault
       \/ /\ QueryGoes(q, [QueryRest EXCEPT !.pc = "failed", !.user = u])
          /\ Fault("redis_error")
    /\ UNCHANGED <<streams, consumers, views, viewless, index, proj>>

LatestOf(S) == CHOOSE o \in S : \A p \in S : Recency[p] <= Recency[o]

\* The loop: one GET per id, the newest first; an id without a view is skipped,
\* an error ends the call.
ListNext(q) ==
    /\ query[q].pc = "listing"
    /\ LET o == LatestOf(query[q].left)
           left == query[q].left \ {o}
       IN  \/ /\ QueryGoes(q, [query[q] EXCEPT
                     !.pc = IF left = {} THEN "answered" ELSE "listing",
                     !.left = left,
                     !.answer = IF Found(o) THEN Append(@, Answer(o)) ELSE @])
              /\ NoFault
           \/ /\ QueryGoes(q, [query[q] EXCEPT !.pc = "failed"])
              /\ Fault("redis_error")
    /\ UNCHANGED <<streams, consumers, views, viewless, index, proj>>

-----------------------------------------------------------------------------
(* The environment *)

\* What the write side puts on the stream (OrderWriteSide: ImplementsLifecycle,
\* CreatedFirst): each order is created once and has at most one outcome after
\* that; when the publish of the created event failed, the outcome comes alone.
OrderAnnounced(o, msg) ==
    LET about == {i \in 1..Len(streams["ORDERS"]) : streams["ORDERS"][i].order = o}
    IN  /\ msg.order = o /\ msg.subject \in OrderSubjects
        /\ msg.payment = NoPayment <=> msg.subject # "orders.paid"
        /\ Publish("ORDERS", msg)
        /\ IF msg.subject = "orders.created" THEN about = {} /\ NoFault
           ELSE /\ \A i \in about : streams["ORDERS"][i].subject = "orders.created"
                /\ IF about = {} THEN Fault("publish_error") ELSE NoFault
        /\ UNCHANGED <<consumers, views, viewless, index, proj, query>>

\* 24 hours after its last SET the key is gone.
Expire(o) ==
    /\ Found(o)
    /\ views' = [views EXCEPT ![o] = NoView]
    /\ viewless' = viewless \cup {o}
    /\ Fault("expiry")
    /\ UNCHANGED <<streams, consumers, index, proj, query>>

QueriesDropped ==
    query' = [q \in Queries |->
        IF query[q].pc = "listing" THEN [query[q] EXCEPT !.pc = "failed"] ELSE query[q]]

\* The process dies and is started again.
Crash ==
    /\ Fault("crash")
    /\ proj' = ProjRest
    /\ QueriesDropped
    /\ LoseClient(Projector, proj.msg)
    /\ UNCHANGED <<streams, views, viewless, index>>

\* SIGTERM: the context ends, and with it the Redis calls of the callback; the
\* consumer is deleted if Unsubscribe comes before the exit.
Shutdown ==
    /\ Fault("shutdown")
    /\ \A q \in Queries : query[q].pc # "listing"
    /\ proj' = ProjRest
    /\ \/ UNCHANGED consumers
       \/ LoseClient(Projector, proj.msg)
       \/ Recreate(Projector)
    /\ UNCHANGED <<streams, views, viewless, index, query>>

Quiescent ==
    /\ proj.pc = "idle"
    /\ Deliverable(Projector) = {}
    /\ \A q \in Queries : query[q].pc # "listing"

AtRest == Quiescent /\ UNCHANGED vars

-----------------------------------------------------------------------------

ProjStep ==
    \/ \E i \in Deliverable(Projector) : ProjReceive(i)
    \/ ProjLoad \/ ProjSet \/ ProjSetRefused \/ ProjIndex \/ ProjSaveFails \/ ProjAck

QueryStep(q) ==
    \/ \E o \in Orders : GetOrder(q, o)
    \/ \E u \in Users : ListStart(q, u)
    \/ ListNext(q)

Next ==
    \/ ProjStep
    \/ \E q \in Queries : QueryStep(q)
    \/ \E o \in Orders, msg \in Message : OrderAnnounced(o, msg)
    \/ \E o \in Orders : Expire(o)
    \/ Crash
    \/ Shutdown
    \/ AtRest

Spec == Init /\ [][Next]_vars

-----------------------------------------------------------------------------
(* What the read side guarantees *)

Announced(o, subject, payment) ==
    Stored("ORDERS", [subject |-> subject, order |-> o, payment |-> payment])

\* The stream bears out what view says of order o.
True(o, view) ==
    /\ Announced(o, "orders.created", NoPayment)
    /\ \/ view = PendingView
       \/ view.status = "paid" /\ Announced(o, "orders.paid", view.payment)
       \/ view.status = "cancelled" /\ Announced(o, "orders.cancelled", NoPayment)

\* No view, and no answer, tells of an order or of an outcome that the write side
\* did not announce, and a paid view names the payment it was paid with: whatever
\* is delivered twice or out of order, half saved or expired while it is changed.
ViewsTrue ==
    /\ \A o \in Orders : Found(o) => True(o, views[o])
    /\ \A q \in Queries : \A i \in DOMAIN query[q].answer :
          True(query[q].answer[i].order, query[q].answer[i].view)

\* What the projector is about to save is true as well.
ProjInv ==
    /\ proj.pc # "idle" => proj.msg \in 1..Len(streams["ORDERS"])
    /\ proj.pc \in {"saving", "indexing"} => proj.view # NoView /\ True(ProjOrder, proj.view)

\* An order in a user's list is that user's and has a view, also when a Save breaks
\* off half way: unless the view expired, or Redis refused the one command that would
\* have set it.
IndexedHasView ==
    \A u \in Users : \A o \in index[u] : UserOf[o] = u /\ (Found(o) \/ o \in viewless)

\* A list that is answered holds every order that was in the sorted set when the
\* call began and has a view, once, the newest first, although views change and
\* expire while it is made.
ListComplete ==
    \A q \in Queries : query[q].pc = "answered" /\ query[q].user # NoUser =>
        LET answer == query[q].answer
            listed == {answer[i].order : i \in DOMAIN answer}
        IN  /\ query[q].ids \ viewless \subseteq listed /\ listed \subseteq query[q].ids
            /\ \A i, j \in DOMAIN answer :
                  i < j => Recency[answer[j].order] < Recency[answer[i].order]

\* Unless a message is delivered twice or the view expires, a view that shows an
\* outcome shows it for good: no other message takes it back.
OutcomeStays ==
    [][faults' = 0 => \A o \in Orders :
          Found(o) /\ views[o] # PendingView => views'[o] = views[o]]_vars

=============================================================================

---------------------------- MODULE OrderSystem ----------------------------
(***************************************************************************)
(* The order service and the payment service together: the command side,   *)
(* the payment subscriber and the read side of the one, the subscriber and *)
(* the calls of the other, over the two streams.  What each component's    *)
(* module takes for its environment is here done by another component.     *)
(*                                                                         *)
(* The components share the streams, the consumers and the count of        *)
(* failures; the write side and the read side share a process.  The calls  *)
(* that only read are left to the modules of their components: they change *)
(* nothing that another component sees.                                    *)
(***************************************************************************)
EXTENDS EventStore, EventMessages, ProductStock, JetStream, Faults

CONSTANTS
    Cart, Cancels, NoOrder, PaymentOutcomes,                 \* Of OrderWriteSide,
    Refunds, Readers, NoRow,                                 \* PaymentService and
    Users, UserOf, Recency, Queries, NoUser, NoView          \* OrderReadModel.

VARIABLES
    place, cancel, settler,             \* OrderWriteSide, with settler for sub,
    payments, charger, refund, reader,  \* PaymentService, with charger for sub,
    views, viewless, index, proj, query, \* OrderReadModel.
    cut     \* History: the orders of the messages that a handler acknowledged
            \* although a shutdown had cut it short.

writeVars == <<store, stock, place, cancel, settler>>
payVars   == <<payments, charger, refund, reader>>
readVars  == <<views, viewless, index, proj, query>>
vars == <<streams, consumers, faults, writeVars, payVars, readVars, cut>>

Write == INSTANCE OrderWriteSide WITH sub <- settler
Pay   == INSTANCE PaymentService WITH sub <- charger
Read  == INSTANCE OrderReadModel

\* What the three modules assume of their constants.
ASSUME SystemAssumption ==
    /\ \A o \in Orders : Cart[o] \in Seq(Write!OrderItem) /\ Len(Cart[o]) > 0
    /\ PaymentOutcomes \subseteq PaymentSubjects
    /\ NoOrder \notin Orders /\ NoRow \notin Pay!Row
    /\ NoUser \notin Users /\ NoView \notin Read!View
    /\ UserOf \in [Orders -> Users] /\ Recency \in [Orders -> Nat]
    /\ \A o, p \in Orders : Recency[o] = Recency[p] => o = p
    /\ {Write!PaymentHandler, Pay!PaymentProcessor, Read!Projector} \subseteq Consumers
    /\ StreamOf[Write!PaymentHandler] = "PAYMENTS"
    /\ StreamOf[Pay!PaymentProcessor] = "ORDERS"
    /\ StreamOf[Read!Projector] = "ORDERS"

Init == Write!Init /\ Pay!Init /\ Read!Init /\ cut = {}

-----------------------------------------------------------------------------

WriteOnly == UNCHANGED <<payVars, readVars, cut>>
PayOnly   == UNCHANGED <<writeVars, readVars, cut>>
ReadOnly  == UNCHANGED <<writeVars, payVars, cut>>

PlaceStart(o)    == Write!PlaceStart(o) /\ WriteOnly
PlaceStep(o)     == Write!PlaceStep(o) /\ WriteOnly
CancelLoad(c, o) == Write!CancelLoad(c, o) /\ WriteOnly
CancelStep(c)    == Write!CancelStep(c) /\ WriteOnly
SettlerStep      == Write!SubStep /\ WriteOnly

ChargerStep      == Pay!SubStep /\ PayOnly
RefundStep(r)    == ((\E p \in Payments : Pay!RefundCheck(r, p)) \/ Pay!RefundUpdate(r)) /\ PayOnly

ProjectorStep    == Read!ProjStep /\ ReadOnly
Expire(o)        == Read!Expire(o) /\ ReadOnly

PaymentServiceCrash == Pay!Crash /\ PayOnly

\* The handler of consumer c had message i of order o in hand, unfinished, when the
\* context ended; unless the message is delivered again, it was acknowledged.
CutShort(c, unfinished, i) ==
    cut' = cut \cup (IF unfinished /\ UNCHANGED consumers[c]
                     THEN {streams[StreamOf[c]][i].order} ELSE {})

PaymentServiceShutdown ==
    /\ Pay!Shutdown
    /\ CutShort(Pay!PaymentProcessor, charger.pc \notin {"idle", "acking"}, charger.msg)
    /\ UNCHANGED <<writeVars, readVars>>

\* The one process of both sides ends and is started again.
OrderServiceRestarts ==
    /\ place' = [o \in Orders |->
          IF Write!PlaceInProgress(o) THEN [place[o] EXCEPT !.pc = "crashed"] ELSE place[o]]
    /\ cancel' = [c \in Cancels |->
          IF Write!CancelInProgress(c) THEN [cancel[c] EXCEPT !.pc = "crashed"] ELSE cancel[c]]
    /\ Write!SubRests
    /\ proj' = Read!ProjRest
    /\ Read!QueriesDropped
    /\ UNCHANGED <<streams, store, stock, payVars, views, viewless, index>>

\* What becomes of its two consumers.
OrderConsumers(settle, project) ==
    consumers' = [consumers EXCEPT ![Write!PaymentHandler] = settle, ![Read!Projector] = project]

\* It dies: the clients of both consumers are lost.
OrderServiceCrash ==
    /\ Fault("crash")
    /\ OrderServiceRestarts
    /\ \E settle \in AfterLoss(Write!PaymentHandler, settler.msg),
          project \in AfterLoss(Read!Projector, proj.msg) : OrderConsumers(settle, project)
    /\ UNCHANGED cut

Anew == [next |-> 1, again |-> {}]

\* SIGTERM: GracefulStop waits for the calls, the context of both callbacks ends; each
\* goroutine acknowledges and stops, is too late for that, or deletes its consumer.
OrderServiceShutdown ==
    /\ Fault("shutdown")
    /\ \A o \in Orders : ~Write!PlaceInProgress(o)
    /\ \A c \in Cancels : ~Write!CancelInProgress(c)
    /\ \A q \in Queries : query[q].pc # "listing"
    /\ OrderServiceRestarts
    /\ \E settle \in {Anew, consumers[Write!PaymentHandler]}
                         \cup AfterLoss(Write!PaymentHandler, settler.msg),
          project \in {Anew, consumers[Read!Projector]} \cup AfterLoss(Read!Projector, proj.msg) :
          /\ settler.pc = "publishing" => settle # consumers[Write!PaymentHandler]
          /\ OrderConsumers(settle, project)
    /\ CutShort(Write!PaymentHandler, settler.pc = "persisting", settler.msg)

AtRest == Write!AtRest /\ Pay!AtRest /\ Read!AtRest /\ UNCHANGED cut

-----------------------------------------------------------------------------

Next ==
    \/ \E o \in Orders : PlaceStart(o) \/ PlaceStep(o) \/ Expire(o)
    \/ \E c \in Cancels : CancelStep(c) \/ \E o \in Orders : CancelLoad(c, o)
    \/ SettlerStep
    \/ ChargerStep
    \/ \E r \in Refunds : RefundStep(r)
    \/ ProjectorStep
    \/ PaymentServiceCrash
    \/ PaymentServiceShutdown
    \/ OrderServiceCrash
    \/ OrderServiceShutdown
    \/ AtRest

Spec == Init /\ [][Next]_vars

\* As in OrderWriteSide: what runs goes on, and what is in a stream is delivered.
Fairness ==
    /\ \A o \in Orders : WF_vars(PlaceStep(o))
    /\ \A c \in Cancels : WF_vars(CancelStep(c))
    /\ WF_vars(SettlerStep)
    /\ WF_vars(ChargerStep)
    /\ WF_vars(ProjectorStep)

FairSpec == Spec /\ Fairness

-----------------------------------------------------------------------------
(* What the services guarantee together *)

ChargedFor(p, o) == p \in Payments /\ Pay!Charged(p) /\ payments[p].order = o

\* Across three databases: an order is stored as paid only by a payment that was
\* charged for it, and a view shows an outcome only if it is the stored one.
OutcomesAgree ==
    /\ \A e \in store : e.type = EventOrderPaid => ChargedFor(e.payment, e.order)
    /\ \A o \in Orders : Read!Found(o) =>
          /\ Load(o) # {}
          /\ views[o].status \in {"pending", StatusOf(o)}
          /\ views[o].status = "paid" => ChargedFor(views[o].payment, o)

Published(s) == streams[s]' # streams[s]

\* Each component is the environment the others assume: whoever publishes to a
\* stream takes a step that the modules of its readers expect of their environment.
EnvironmentsHold ==
    [][/\ Published("ORDERS") => \E o \in Orders, msg \in Message :
             Pay!OrderAnnounced(o, msg) /\ Read!OrderAnnounced(o, msg)
       /\ Published("PAYMENTS") => \E p \in Payments, o \in Orders, s \in PaymentSubjects :
             Write!PaymentSettled(p, o, s)]_vars

Settled(o) ==
    /\ StatusOf(o) \in {"paid", "cancelled"}
    /\ \E p \in Payments : ChargedFor(p, o)
    /\ faults = 0 => Read!Found(o) /\ views[o].status = StatusOf(o)

\* Every order a client placed is in the end charged and paid, or charged and
\* cancelled, for good, and unless something failed its view says which.  Only a
\* shutdown loses an order on the way: the handler it cuts short acknowledges.
OrderSettles == \A o \in Orders : place[o].pc = "done" ~> [](Settled(o) \/ o \in cut)

=============================================================================

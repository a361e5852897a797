----------------------------- MODULE Notification -----------------------------
(***************************************************************************)
(* From an event to an e-mail: the bridge-service                          *)
(* (internal/notification/event/bridge.go) forwards what it receives from  *)
(* JetStream to an exchange of RabbitMQ, and the notification-service      *)
(* (event/subscriber.go) takes it from its queue, sends a mail             *)
(* (sender/email.go) and logs it (repository/postgres.go).                 *)
(*                                                                         *)
(* One action is one call to another system.  Both services hold one       *)
(* connection to RabbitMQ, which neither opens again once it is closed.    *)
(***************************************************************************)
EXTENDS JetStream, Faults

CONSTANTS
    Events,      \* What the other services publish, each of it once.
    StreamFor,   \* StreamFor[e]: the stream of e's subject, "ORDERS" or "PAYMENTS".
    NoEvent      \* What a handler holds that holds none.

ASSUME NotificationAssumption == StreamFor \in [Events -> Streams] /\ NoEvent \notin Events

\* The durable consumers of the bridge, one per subject pattern.
BridgeConsumers == {"rabbitmq-bridge-orders", "rabbitmq-bridge-payments"}

ASSUME BridgeAssumption ==
    /\ DOMAIN StreamOf = BridgeConsumers
    /\ StreamOf["rabbitmq-bridge-orders"] = "ORDERS"
    /\ StreamOf["rabbitmq-bridge-payments"] = "PAYMENTS"

VARIABLES
    bridge,    \* bridge[c]: where the callback of consumer c is and the position
               \* of the message in its hands (0: none).
    channel,   \* "open" or "closed": the bridge's channel.
    bindings,  \* The streams whose subjects the exchange routes to the queue.
    queue,     \* The messages of the queue that are not in the notifier's hands.
    notifier,  \* Where the notifier is, what it handles, and whether its
               \* connection still stands.
    mailed,    \* mailed[e]: how many mails were sent of e,
    logged,    \* logged[e]: how many rows the log holds of e.
    lost       \* The events given up by a step that at most logged an error (a
               \* history).

vars == <<streams, consumers, faults, bridge, channel, bindings, queue, notifier,
          mailed, logged, lost>>
bridgeVars == <<bridge, channel>>
notifierVars == <<notifier, mailed, logged>>

BridgePcs == {"idle", "forwarding", "acking"}
NotifierPcs == {"starting", "idle", "sending", "logging", "acking", "dead"}

TypeOK ==
    /\ JetStreamType(Events) /\ FaultsType
    /\ bridge \in [BridgeConsumers -> [pc : BridgePcs, msg : Nat]]
    /\ channel \in {"open", "closed"}
    /\ bindings \subseteq Streams
    /\ queue \in Seq(Events)
    /\ notifier \in [pc : NotifierPcs, event : Events \cup {NoEvent}, linked : BOOLEAN]
    /\ mailed \in [Events -> Nat] /\ logged \in [Events -> Nat]
    /\ lost \subseteq Events

BridgeRest == [pc |-> "idle", msg |-> 0]

\* Both services have just connected and declared the exchange; nothing is bound.
Init ==
    /\ JetStreamInit /\ FaultsInit
    /\ bridge = [c \in BridgeConsumers |-> BridgeRest]
    /\ channel = "open"
    /\ bindings = {} /\ queue = << >>
    /\ notifier = [pc |-> "starting", event |-> NoEvent, linked |-> TRUE]
    /\ mailed = [e \in Events |-> 0] /\ logged = [e \in Events |-> 0]
    /\ lost = {}

-----------------------------------------------------------------------------
(* The bridge *)

BridgeEvent(c) == streams[StreamOf[c]][bridge[c].msg]
BridgeGoes(c, rec) == bridge' = [bridge EXCEPT ![c] = rec]

BridgeReceive(c, i) ==
    /\ bridge[c].pc = "idle"
    /\ Deliver(c, i)
    /\ BridgeGoes(c, [pc |-> "forwarding", msg |-> i])
    /\ NoFault
    /\ UNCHANGED <<streams, channel, bindings, queue, notifierVars, lost>>

\* forward: a publish without confirmation.  The exchange drops a message that no
\* binding takes (mandatory is false); a closed channel is an error.
Forward(c) ==
    /\ bridge[c].pc = "forwarding"
    /\ BridgeGoes(c, [bridge[c] EXCEPT !.pc = "acking"])
    /\ \/ /\ channel = "open" /\ StreamOf[c] \in bindings
          /\ queue' = Append(queue, BridgeEvent(c))
          /\ UNCHANGED lost /\ NoFault
       \/ /\ UNCHANGED queue /\ lost' = lost \cup {BridgeEvent(c)}
          /\ IF channel = "open" /\ StreamOf[c] \in bindings
             THEN Fault("unconfirmed") ELSE NoFault
    /\ UNCHANGED <<streams, consumers, channel, bindings, notifierVars>>

\* The Ack follows success and error alike.
BridgeAck(c) ==
    /\ bridge[c].pc = "acking"
    /\ BridgeGoes(c, BridgeRest)
    /\ \/ UNCHANGED consumers /\ NoFault
       \/ Redeliver(c, bridge[c].msg) /\ Fault("ack_lost")
    /\ UNCHANGED <<streams, channel, bindings, queue, notifierVars, lost>>

\* Mutant of BridgeRestart: the consumers are created again for new messages only.
BridgeRestartDeliverNew ==
    /\ Fault("bridge_restart")
    /\ bridge' = [c \in BridgeConsumers |-> BridgeRest]
    /\ channel' = "open"
    /\ consumers' = [c \in BridgeConsumers |->
                        [next |-> Len(streams[StreamOf[c]]) + 1, again |-> {}]]
    /\ UNCHANGED <<streams, bindings, queue, notifierVars, lost>>

\* What may become of consumer c when the process is gone: the server sees its client
\* lost, or Unsubscribe came in time to delete it.
Left(c) == {[next |-> 1, again |-> {}]} \cup AfterLoss(c, bridge[c].msg)

\* The process dies, or is stopped, which cancels nothing that forward or the Ack
\* wait for; it unsubscribes one consumer after the other, and each Unsubscribe may
\* come too late or fail unheard.  It is started again.
BridgeRestart ==
    /\ Fault("bridge_restart")
    /\ bridge' = [c \in BridgeConsumers |-> BridgeRest]
    /\ channel' = "open"
    /\ \E orders \in Left("rabbitmq-bridge-orders"), payments \in Left("rabbitmq-bridge-payments") :
          consumers' = [c \in BridgeConsumers |->
                           IF c = "rabbitmq-bridge-orders" THEN orders ELSE payments]
    /\ UNCHANGED <<streams, bindings, queue, notifierVars, lost>>

-----------------------------------------------------------------------------
(* The notifier *)

NotifierGoes(pc) == notifier' = [notifier EXCEPT !.pc = pc]

\* Start declares the queue and binds it to orders.*, then to payments.*.
NotifierBinds(s) ==
    /\ notifier.pc = "starting" /\ notifier.linked
    /\ s \notin bindings /\ (s = "PAYMENTS" => "ORDERS" \in bindings)
    /\ bindings' = bindings \cup {s}
    /\ NoFault
    /\ UNCHANGED <<streams, consumers, bridgeVars, queue, notifierVars, lost>>

NotifierConsumes ==
    /\ notifier.pc = "starting" /\ notifier.linked /\ bindings = Streams
    /\ NotifierGoes("idle")
    /\ NoFault
    /\ UNCHANGED <<streams, consumers, bridgeVars, bindings, queue, mailed, logged, lost>>

NotifierReceives ==
    /\ notifier.pc = "idle" /\ notifier.linked
    /\ queue # << >>
    /\ notifier' = [notifier EXCEPT !.pc = "sending", !.event = Head(queue)]
    /\ queue' = Tail(queue)
    /\ NoFault
    /\ UNCHANGED <<streams, consumers, bridgeVars, bindings, mailed, logged, lost>>

\* Mutant of Send: a mail that could not be sent is sent again.
SendRetried ==
    /\ notifier.pc = "sending"
    /\ mailed' = [mailed EXCEPT ![notifier.event] = @ + 1]
    /\ mailed[notifier.event] < 3
    /\ \/ NotifierGoes("logging") \/ UNCHANGED notifier
    /\ UNCHANGED lost /\ NoFault
    /\ UNCHANGED <<streams, consumers, bridgeVars, bindings, queue, logged>>

\* Send has no result: an error of the mail server is logged and forgotten.
Send ==
    /\ notifier.pc = "sending"
    /\ NotifierGoes("logging")
    /\ \/ /\ mailed' = [mailed EXCEPT ![notifier.event] = @ + 1]
          /\ UNCHANGED lost /\ NoFault
       \/ /\ UNCHANGED mailed /\ lost' = lost \cup {notifier.event}
          /\ Fault("smtp_error")
    /\ UNCHANGED <<streams, consumers, bridgeVars, bindings, queue, logged>>

\* The row follows the mail, also one that failed; an error goes no further.
Log ==
    /\ notifier.pc = "logging"
    /\ NotifierGoes("acking")
    /\ \/ logged' = [logged EXCEPT ![notifier.event] = @ + 1] /\ NoFault
       \/ UNCHANGED logged /\ Fault("db_error")
    /\ UNCHANGED <<streams, consumers, bridgeVars, bindings, queue, mailed, lost>>

\* The Ack on a closed channel fails unnoticed: the message is in the queue again.
NotifierAcks ==
    /\ notifier.pc = "acking"
    /\ notifier' = [notifier EXCEPT !.pc = "idle", !.event = NoEvent]
    /\ NoFault
    /\ UNCHANGED <<streams, consumers, bridgeVars, bindings, queue, mailed, logged, lost>>

\* The channel of deliveries is closed: Start returns an error, which is logged.
\* The process lives on and handles nothing.  A start over a dead connection ends
\* the same way.
NotifierStops ==
    /\ notifier.pc \in {"starting", "idle"} /\ ~notifier.linked
    /\ NotifierGoes("dead")
    /\ NoFault
    /\ UNCHANGED <<streams, consumers, bridgeVars, bindings, queue, mailed, logged, lost>>

\* Mutant of Unacked: what was acknowledged comes back too.
UnackedAlways == IF notifier.linked THEN <<notifier.event>> ELSE << >>

\* The message in the notifier's hands, which the broker has not seen acknowledged.
Unacked == IF notifier.event # NoEvent /\ notifier.linked THEN <<notifier.event>> ELSE << >>

\* Mutant of NotifierRestart: the queue is consumed with auto-ack.
NotifierRestartAutoAck ==
    /\ Fault("notifier_restart")
    /\ notifier' = [pc |-> "starting", event |-> NoEvent, linked |-> TRUE]
    /\ UNCHANGED <<streams, consumers, bridgeVars, bindings, queue, mailed, logged, lost>>

\* The process dies or is stopped, which waits for no handler; it is started again.
NotifierRestart ==
    /\ Fault("notifier_restart")
    /\ notifier' = [pc |-> "starting", event |-> NoEvent, linked |-> TRUE]
    /\ queue' = Unacked \o queue
    /\ UNCHANGED <<streams, consumers, bridgeVars, bindings, mailed, logged, lost>>

-----------------------------------------------------------------------------
(* The environment *)

\* A service publishes e.
EventPublished(e) ==
    /\ ~Stored(StreamFor[e], e)
    /\ Publish(StreamFor[e], e)
    /\ NoFault
    /\ UNCHANGED <<consumers, bridgeVars, bindings, queue, notifierVars, lost>>

\* RabbitMQ restarts: exchange, queue, bindings and messages are durable, the
\* connections are not.  A handler that is at work goes on.
BrokerRestart ==
    /\ Fault("broker_restart")
    /\ channel' = "closed"
    /\ notifier' = [notifier EXCEPT !.linked = FALSE]
    /\ queue' = Unacked \o queue
    /\ UNCHANGED <<streams, consumers, bridge, bindings, mailed, logged, lost>>

Quiescent ==
    /\ \A c \in BridgeConsumers : bridge[c].pc = "idle" /\ Deliverable(c) = {}
    /\ \/ notifier.pc = "dead"
       \/ notifier.pc = "idle" /\ notifier.linked /\ queue = << >>

AtRest == Quiescent /\ UNCHANGED vars

-----------------------------------------------------------------------------

BridgeStep(c) ==
    \/ \E i \in Deliverable(c) : BridgeReceive(c, i)
    \/ Forward(c) \/ BridgeAck(c)

NotifierStep ==
    \/ \E s \in Streams : NotifierBinds(s)
    \/ NotifierConsumes \/ NotifierReceives \/ Send \/ Log \/ NotifierAcks \/ NotifierStops

Next ==
    \/ \E c \in BridgeConsumers : BridgeStep(c)
    \/ NotifierStep
    \/ \E e \in Events : EventPublished(e)
    \/ BridgeRestart \/ NotifierRestart \/ BrokerRestart
    \/ AtRest

Spec == Init /\ [][Next]_vars

\* The goroutines of the callbacks and of the subscriber go on, the servers deliver
\* and answer.
FairSpec ==
    Spec /\ WF_vars(NotifierStep) /\ \A c \in BridgeConsumers : WF_vars(BridgeStep(c))

-----------------------------------------------------------------------------
(* What the two services guarantee *)

Queued(e) == \E i \in 1..Len(queue) : queue[i] = e

\* The bridge has acknowledged the message at position i, and it will not come again.
Settled(c, i) ==
    /\ i < consumers[c].next /\ i \notin consumers[c].again
    /\ bridge[c].msg # i

\* What the bridge acknowledged was handed on: it is in the queue, in the notifier's
\* hands, was mailed, or was given up by a step that says so; a restart of either
\* service or of the broker loses nothing else.
HandedOn ==
    \A c \in BridgeConsumers : \A i \in 1..Len(streams[StreamOf[c]]) :
        LET e == streams[StreamOf[c]][i]
        IN  Settled(c, i) => Queued(e) \/ notifier.event = e \/ mailed[e] > 0 \/ e \in lost

\* A customer gets a mail twice, and a mail goes unlogged, only for a failure: each
\* one repeats the mail of an event, or keeps it out of the log, at most once.
RepeatsNeedFailures ==
    \A e \in Events :
        /\ mailed[e] <= 1 + faults
        /\ mailed[e] <= logged[e] + faults + (IF notifier.event = e THEN 1 ELSE 0)
        /\ logged[e] <= mailed[e] + faults

\* Every event is in the end mailed or given up by a step that logs an error or
\* knows none, unless the broker's restart has ended the notifier's goroutine.
EventuallyMailed ==
    \A e \in Events :
        Stored(StreamFor[e], e) ~> (mailed[e] > 0 \/ e \in lost \/ notifier.pc = "dead")

=============================================================================

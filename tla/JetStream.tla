------------------------------ MODULE JetStream ------------------------------
(***************************************************************************)
(* NATS JetStream as the services use it (external): append-only streams   *)
(* and durable push consumers with DeliverAll and explicit Ack.            *)
(*                                                                         *)
(* A consumer delivers the messages of its stream in order.  A message     *)
(* whose Ack never reached the server (the client crashed, the Ack was     *)
(* lost, AckWait ran out while the handler was at work) is delivered       *)
(* again, possibly after later messages.  A consumer the client library    *)
(* created is deleted by the Unsubscribe of a graceful shutdown; the next  *)
(* start creates it anew and, with DeliverAll, it starts over.             *)
(***************************************************************************)
EXTENDS Naturals, Sequences

CONSTANT
    StreamOf     \* The stream of each consumer, by the consumer's durable name.

Streams == {"ORDERS", "PAYMENTS"}
Consumers == DOMAIN StreamOf

ASSUME StreamOfAssumption == StreamOf \in [Consumers -> Streams]

VARIABLES
    streams,     \* streams[s] is the sequence of messages stored in s.
    consumers    \* consumers[c].next is the first message of the stream that
                 \* was never delivered to c, consumers[c].again the messages
                 \* that were delivered and will be once more.

JetStreamType(Message) ==
    /\ streams \in [Streams -> Seq(Message)]
    /\ consumers \in [Consumers -> [next : Nat \ {0}, again : SUBSET Nat]]

JetStreamInit ==
    /\ streams = [s \in Streams |-> << >>]
    /\ consumers = [c \in Consumers |-> [next |-> 1, again |-> {}]]

Stored(s, msg) == \E i \in 1..Len(streams[s]) : streams[s][i] = msg

\* js.Publish: the server stored the message before it answered.
Publish(s, msg) == streams' = [streams EXCEPT ![s] = Append(@, msg)]

\* The positions the server may hand to the handler of consumer c now.
Deliverable(c) ==
    (consumers[c].again \cup {consumers[c].next}) \cap (1..Len(streams[StreamOf[c]]))

\* The server passes over a message whose subject consumer c did not subscribe to.
PassOver(c) ==
    /\ consumers[c].next <= Len(streams[StreamOf[c]])
    /\ consumers' = [consumers EXCEPT ![c].next = @ + 1]

\* Message i goes to the handler; until Redeliver it counts as acknowledged.
Deliver(c, i) ==
    /\ i \in Deliverable(c)
    /\ consumers' = [consumers EXCEPT
          ![c] = [next |-> IF i = @.next THEN i + 1 ELSE @.next, again |-> @.again \ {i}]]

\* The Ack of message i did not arrive (in time).
Redeliver(c, i) == consumers' = [consumers EXCEPT ![c].again = @ \cup {i}]

\* The client dies with message i in its handler (0 if none) and with the
\* messages up to n - 1 in its buffer: all of them are delivered again.
AfterLoss(c, i) ==
    {[next |-> n,
      again |-> consumers[c].again \cup ({i} \ {0}) \cup (consumers[c].next..(n - 1))] :
        n \in consumers[c].next..(Len(streams[StreamOf[c]]) + 1)}
LoseClient(c, i) ==
    \E after \in AfterLoss(c, i) : consumers' = [consumers EXCEPT ![c] = after]

\* The durable consumer was deleted and is created again with DeliverAll.
Recreate(c) == consumers' = [consumers EXCEPT ![c] = [next |-> 1, again |-> {}]]

=============================================================================

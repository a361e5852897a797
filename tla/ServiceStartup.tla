--------------------------- MODULE ServiceStartup ---------------------------
(***************************************************************************)
(* How the processes come up (cmd/*/main.go): each connects to its stores  *)
(* in turn and exits when one does not answer, creates its stream, spawns  *)
(* the goroutines that subscribe, and serves.  Nothing orders two          *)
(* processes, nothing tries again, and the end of a goroutine does not end *)
(* its process.                                                            *)
(*                                                                         *)
(* One action is one of these steps.                                       *)
(***************************************************************************)
EXTENDS Sequences, FiniteSets, Faults

CONSTANT Deployed  \* The processes that are started at all.

Backends == {"postgres", "redis", "nats", "rabbitmq"}
StreamNames == {"ORDERS", "PAYMENTS"}

Needs(b) == [do |-> "needs", what |-> b]      \* Connect, or exit.
Adds(s) == [do |-> "adds", what |-> s]        \* AddStream, whose error is ignored.
Spawns(g) == [do |-> "spawns", what |-> g]    \* A goroutine, whose error is logged.
Serves == [do |-> "serves", what |-> "grpc"]  \* Listen, or exit.

UserService == << Needs("postgres"), Serves >>

ProductService == << Needs("postgres"), Serves >>

\* Mutant of OrderService: the goroutines are started before the stream is added.
OrderServiceSpawnsFirst ==
    << Needs("postgres"), Needs("redis"), Needs("nats"), Spawns("projector"),
       Spawns("payment subscriber"), Adds("ORDERS"), Serves >>

OrderService ==
    << Needs("postgres"), Needs("redis"), Needs("nats"), Adds("ORDERS"),
       Spawns("projector"), Spawns("payment subscriber"), Serves >>

PaymentService ==
    << Needs("postgres"), Needs("nats"), Adds("PAYMENTS"), Spawns("payments"), Serves >>

BridgeService == << Needs("nats"), Needs("rabbitmq"), Spawns("bridge") >>

NotificationService == << Needs("postgres"), Needs("rabbitmq") >>

Processes == {"user-service", "product-service", "order-service", "payment-service",
              "bridge-service", "notification-service"}

ASSUME DeployedAssumption == Deployed \subseteq Processes

Main ==
    [p \in Processes |->
        CASE p = "user-service" -> UserService
          [] p = "product-service" -> ProductService
          [] p = "order-service" -> OrderService
          [] p = "payment-service" -> PaymentService
          [] p = "bridge-service" -> BridgeService
          [] p = "notification-service" -> NotificationService]

\* The streams a goroutine subscribes to, one after the other.
Goroutines == {"projector", "payment subscriber", "payments", "bridge"}
Subscribes ==
    [g \in Goroutines |->
        CASE g = "projector" -> <<"ORDERS">>
          [] g = "payment subscriber" -> <<"PAYMENTS">>
          [] g = "payments" -> <<"ORDERS">>
          [] g = "bridge" -> <<"ORDERS", "PAYMENTS">>]

Has(p, step) == \E i \in 1..Len(Main[p]) : Main[p][i] = step
Spawned == [p \in Processes |-> {g \in Goroutines : Has(p, Spawns(g))}]
Added == [p \in Processes |-> {s \in StreamNames : Has(p, Adds(s))}]
Owner == [g \in Goroutines |-> CHOOSE p \in Processes : g \in Spawned[p]]

VARIABLES
    up,       \* The backends that answer.
    existing, \* The streams that exist.
    at,       \* at[p]: the step main is at, 0 when the process does not run.
    stands,   \* stands[g]: how many of its subscriptions g has made.
    state,    \* state[g]: "none", "subscribing", "receiving" or "dead".
    known,    \* known[p]: the streams that existed when p was started, and
    hit       \* hit: the processes a call of which has failed since (histories).

startupVars == <<up, existing, at, stands, state, known, hit, faults>>

StartupTypeOK ==
    /\ FaultsType
    /\ up \subseteq Backends /\ existing \subseteq StreamNames
    /\ at \in [Processes -> Nat] /\ \A p \in Processes : at[p] \in 0..(Len(Main[p]) + 1)
    /\ stands \in [Goroutines -> 0..2]
    /\ state \in [Goroutines -> {"none", "subscribing", "receiving", "dead"}]
    /\ known \in [Processes -> SUBSET StreamNames] /\ hit \subseteq Processes

\* Nothing runs.  docker-compose waits for the health of PostgreSQL and RabbitMQ before
\* it starts a process that needs them, but not for that of Redis and NATS.
StartupInit ==
    /\ FaultsInit
    /\ up = {"postgres", "rabbitmq"} /\ existing = {}
    /\ at = [p \in Processes |-> 0]
    /\ stands = [g \in Goroutines |-> 0] /\ state = [g \in Goroutines |-> "none"]
    /\ known = [p \in Processes |-> {}] /\ hit = {}

-----------------------------------------------------------------------------
(* main *)

Running(p) == at[p] # 0
Does(p, kind) == at[p] \in 1..Len(Main[p]) /\ Main[p][at[p]].do = kind
What(p) == Main[p][at[p]].what

Starts(p) ==
    /\ ~Running(p)
    /\ at' = [at EXCEPT ![p] = 1]
    /\ known' = [known EXCEPT ![p] = existing]
    /\ NoFault
    /\ UNCHANGED <<up, existing, stands, state, hit>>

Proceeds(p) == at' = [at EXCEPT ![p] = @ + 1] /\ UNCHANGED <<up, known>>

\* The process ends, and its goroutines with it.
Ends(p) ==
    /\ at' = [at EXCEPT ![p] = 0]
    /\ state' = [g \in Goroutines |-> IF g \in Spawned[p] THEN "none" ELSE state[g]]
    /\ stands' = [g \in Goroutines |-> IF g \in Spawned[p] THEN 0 ELSE stands[g]]
    /\ known' = [known EXCEPT ![p] = {}] /\ hit' = hit \ {p}
    /\ UNCHANGED <<up, existing>>

\* NewPostgres with its ping and the migration, redis' ping, nats.Connect, NewRabbitMQ.
Connects(p) ==
    /\ Does(p, "needs")
    /\ IF What(p) \in up THEN Proceeds(p) /\ UNCHANGED <<existing, stands, state, hit>> ELSE Ends(p)
    /\ NoFault

AddsStream(p) ==
    /\ Does(p, "adds")
    /\ Proceeds(p)
    /\ \/ "nats" \in up /\ existing' = existing \cup {What(p)} /\ UNCHANGED hit /\ NoFault
       \/ "nats" \notin up /\ hit' = hit \cup {p} /\ UNCHANGED existing /\ NoFault
       \/ "nats" \in up /\ hit' = hit \cup {p} /\ UNCHANGED existing /\ Fault("call_failed")
    /\ UNCHANGED <<stands, state>>

SpawnsGoroutine(p) ==
    /\ Does(p, "spawns")
    /\ Proceeds(p)
    /\ state' = [state EXCEPT ![What(p)] = "subscribing"]
    /\ NoFault
    /\ UNCHANGED <<existing, stands, hit>>

Listens(p) ==
    /\ Does(p, "serves")
    /\ \/ Proceeds(p) /\ NoFault /\ UNCHANGED <<existing, stands, state, hit>>
       \/ Ends(p) /\ Fault("call_failed")

\* main waits for a signal; the goroutines leave with it.
Stops(p) == at[p] = Len(Main[p]) + 1 /\ Ends(p) /\ NoFault

-----------------------------------------------------------------------------
(* The goroutines *)

\* Subscribe looks up the stream of its subjects and creates the durable consumer; any
\* error ends the goroutine.
Subscribe(g) ==
    LET s == Subscribes[g][stands[g] + 1] IN
    /\ state[g] = "subscribing"
    /\ \/ /\ "nats" \in up /\ s \in existing
          /\ stands' = [stands EXCEPT ![g] = @ + 1]
          /\ state' = IF stands[g] + 1 = Len(Subscribes[g])
                      THEN [state EXCEPT ![g] = "receiving"] ELSE state
          /\ NoFault /\ UNCHANGED hit
       \/ /\ "nats" \in up /\ s \notin existing
          /\ state' = [state EXCEPT ![g] = "dead"]
          /\ NoFault /\ UNCHANGED <<stands, hit>>
       \/ /\ state' = [state EXCEPT ![g] = "dead"]
          /\ hit' = hit \cup {Owner[g]}
          /\ IF "nats" \in up THEN Fault("call_failed") ELSE NoFault
          /\ UNCHANGED stands
    /\ UNCHANGED <<up, existing, at, known>>

-----------------------------------------------------------------------------
(* The environment *)

ProcessDies(p) == Running(p) /\ Ends(p) /\ Fault("crash")

BackendAnswers(b) ==
    /\ b \notin up
    /\ up' = up \cup {b}
    /\ NoFault
    /\ UNCHANGED <<existing, at, stands, state, known, hit>>

BackendGone(b) ==
    /\ b \in up
    /\ up' = up \ {b}
    /\ Fault("backend_down")
    /\ UNCHANGED <<existing, at, stands, state, known, hit>>

\* The container of NATS is made anew: it keeps its streams in the container.
StreamsLost ==
    /\ existing # {}
    /\ existing' = {}
    /\ state' = [g \in Goroutines |-> IF stands[g] > 0 THEN "dead" ELSE state[g]]
    /\ hit' = hit \cup {p \in Processes : Running(p)}
    /\ Fault("streams_lost")
    /\ UNCHANGED <<up, at, stands, known>>

-----------------------------------------------------------------------------

MainStep(p) ==
    \/ Connects(p)
    \/ AddsStream(p)
    \/ SpawnsGoroutine(p)
    \/ Listens(p)
    \/ Stops(p)

StartupNext ==
    \/ \E p \in Deployed :
        \/ Starts(p)
        \/ MainStep(p)
        \/ ProcessDies(p)
    \/ \E g \in Goroutines : Subscribe(g)
    \/ \E b \in Backends :
        \/ BackendAnswers(b)
        \/ BackendGone(b)
    \/ StreamsLost

StartupSpec == StartupInit /\ [][StartupNext]_startupVars

-----------------------------------------------------------------------------
(* What the order of the steps guarantees *)

\* A goroutine dies only of a failed call, or because the stream it needs is another
\* process's and did not exist when its own process was started: a process need never
\* wait for a stream it adds itself, and starting it again once all streams are there
\* cures it.
SubscriptionsStand ==
    \A g \in Goroutines :
        state[g] = "dead" =>
            \/ Owner[g] \in hit
            \/ Subscribes[g][stands[g] + 1] \notin known[Owner[g]] \cup Added[Owner[g]]

=============================================================================

------------------------ MODULE OrderReadModelProofs ------------------------
(***************************************************************************)
(* Proofs about OrderReadModel, for every set of orders, users, queries    *)
(* and payments, and for every kind and number of failures.                *)
(***************************************************************************)
EXTENDS OrderReadModel, JetStreamProofs

-----------------------------------------------------------------------------
(* The sorted set: the loop over its members never lacks a newest one *)

\* Every part of S that is not empty has a latest member: so it is of a set that
\* grows by one member at a time.
Ranked(S) ==
    \A T \in SUBSET S : T # {} => \E o \in T : \A p \in T : Recency[p] <= Recency[o]

QueryInv ==
    /\ \A u \in Users : Ranked(index[u])
    /\ \A q \in Queries :
          /\ Ranked(query[q].left)
          /\ query[q].pc = "listing" => query[q].left # {}

LEMMA RankedEmpty == Ranked({})
  BY DEF Ranked

LEMMA RankedSubset ==
    ASSUME NEW S, Ranked(S), NEW T \in SUBSET S
    PROVE  Ranked(T)
  BY DEF Ranked

LEMMA RankedAdd ==
    ASSUME NEW S \in SUBSET Orders, Ranked(S), NEW x \in Orders
    PROVE  Ranked(S \cup {x})
  <1> SUFFICES ASSUME NEW T \in SUBSET (S \cup {x}), T # {}
               PROVE  \E o \in T : \A p \in T : Recency[p] <= Recency[o]
    BY DEF Ranked
  <1>1. \A o \in Orders : Recency[o] \in Nat
    BY ReadModelAssumption
  <1>2. CASE x \notin T
    BY <1>2 DEF Ranked
  <1>3. CASE T = {x}
    BY <1>1, <1>3
  <1>4. CASE x \in T /\ T \ {x} # {}
    <2>1. T \ {x} \in SUBSET S
      OBVIOUS
    <2>2. PICK o \in T \ {x} : \A p \in T \ {x} : Recency[p] <= Recency[o]
      BY <1>4, <2>1 DEF Ranked
    <2>3. CASE Recency[x] <= Recency[o]
      BY <2>2, <2>3
    <2>4. CASE ~(Recency[x] <= Recency[o])
      <3>1. \A p \in T : Recency[p] <= Recency[x]
        <4> TAKE p \in T
        <4>1. p \in Orders /\ o \in Orders
          OBVIOUS
        <4> QED
          BY <1>1, <2>2, <2>4, <4>1
      <3> QED
        BY <1>4, <3>1
    <2> QED
      BY <2>3, <2>4
  <1> QED
    BY <1>2, <1>3, <1>4

\* The order the loop looks up next is one of those left, and the newest of them.
LEMMA LatestLeft ==
    ASSUME NEW S, Ranked(S), S # {}
    PROVE  LatestOf(S) \in S /\ \A p \in S : Recency[p] <= Recency[LatestOf(S)]
  <1>1. \E o \in S : \A p \in S : Recency[p] <= Recency[o]
    BY DEF Ranked
  <1> QED
    BY <1>1 DEF LatestOf

-----------------------------------------------------------------------------
(* Types *)

QueryType == [pc : QueryPcs, order : Orders \cup {NoOrder}, user : Users \cup {NoUser},
              ids : SUBSET Orders, left : SUBSET Orders,
              answer : Seq([order : Orders, view : View])]

LEMMA ProjectorReads == Projector \in Consumers /\ StreamOf[Projector] = "ORDERS"
  BY ReadModelAssumption DEF Consumers

\* What a message in the projector's hands is.
LEMMA ProjMessageType ==
    ASSUME TypeOK, proj.msg \in 1..Len(streams["ORDERS"])
    PROVE  /\ ProjMessage \in Message /\ ProjOrder \in Orders
           /\ UserOf[ProjOrder] \in Users
  <1>1. streams["ORDERS"] \in Seq(Message)
    BY DEF TypeOK, JetStreamType, Streams
  <1>2. ProjMessage \in Message
    BY <1>1 DEF ProjMessage
  <1> QED
    BY <1>2, ReadModelAssumption DEF ProjOrder, Message

LEMMA PendingViewType == PendingView \in View /\ PendingView # NoView
  BY ReadModelAssumption DEF PendingView, View, Statuses

LEMMA ViewAfterType ==
    ASSUME NEW view \in View, NEW msg \in Message
    PROVE  ViewAfter(view, msg) \in View
  BY DEF ViewAfter, View, Message, Statuses

LEMMA AnswerType ==
    ASSUME TypeOK, NEW o \in Orders, Found(o)
    PROVE  Answer(o) \in [order : Orders, view : View]
  BY DEF TypeOK, Found, Answer

LEMMA AnswersType ==
    ASSUME TypeOK, NEW o \in Orders, Found(o), NEW answer \in Seq([order : Orders, view : View])
    PROVE  /\ <<Answer(o)>> \in Seq([order : Orders, view : View])
           /\ Append(answer, Answer(o)) \in Seq([order : Orders, view : View])
  <1> DEFINE Answers == [order : Orders, view : View]
  <1>1. Answer(o) \in Answers
    BY AnswerType
  <1> HIDE DEF Answers
  <1>2. <<Answer(o)>> \in Seq(Answers) /\ \A a \in Seq(Answers) : Append(a, Answer(o)) \in Seq(Answers)
    BY <1>1
  <1> QED
    BY <1>2 DEF Answers

LEMMA ProjectorTypes ==
    ASSUME TypeOK, QueryInv, ProjInv, ProjStep
    PROVE  TypeOK' /\ QueryInv'
  <1> USE DEF TypeOK
  <1>1. ASSUME NEW i \in Deliverable(Projector), ProjReceive(i)
        PROVE  TypeOK' /\ QueryInv'
    <2>1. i \in Nat
      BY DeliverablePosition, ProjectorReads
    <2>2. JetStreamType(Message)' /\ FaultsType'
      BY <1>1, <2>1, DeliverType, ProjectorReads, FaultCounted DEF ProjReceive
    <2>3. proj' \in [pc : ProjPcs, msg : Nat, view : View \cup {NoView}]
      BY <1>1, <2>1, PendingViewType DEF ProjReceive, ProjPcs
    <2> QED
      BY <1>1, <2>2, <2>3 DEF ProjReceive, QueryInv
  <1>2. JetStreamType(Message) /\ UNCHANGED <<streams, consumers>> => JetStreamType(Message)'
    BY DEF JetStreamType
  <1>3. CASE ProjLoad
    <2>1. ProjMessage \in Message /\ ProjOrder \in Orders
      BY <1>3, ProjMessageType DEF ProjLoad, ProjInv
    <2>2. Found(ProjOrder) => ViewAfter(views[ProjOrder], ProjMessage) \in View
      BY <2>1, ViewAfterType DEF Found
    <2>3. proj' \in [pc : ProjPcs, msg : Nat, view : View \cup {NoView}]
      BY <1>3, <2>2 DEF ProjLoad, ProjGoes, ProjPcs
    <2> QED
      BY <1>2, <1>3, <2>3, FaultCounted DEF ProjLoad, QueryInv
  <1>4. CASE ProjSet
    <2>1. ProjOrder \in Orders /\ proj.view \in View
      BY <1>4, ProjMessageType DEF ProjSet, ProjInv
    <2> QED
      BY <1>2, <1>4, <2>1, FaultCounted DEF ProjSet, ProjGoes, ProjPcs, QueryInv
  <1>8. CASE ProjSetRefused
    <2>1. ProjOrder \in Orders
      BY <1>8, ProjMessageType DEF ProjSetRefused, ProjInv
    <2> QED
      BY <1>2, <1>8, <2>1, FaultCounted DEF ProjSetRefused, ProjGoes, ProjPcs, QueryInv
  <1>5. CASE ProjIndex
    <2>1. ProjOrder \in Orders /\ UserOf[ProjOrder] \in Users
      BY <1>5, ProjMessageType DEF ProjIndex, ProjInv
    <2>2. index' = [index EXCEPT ![UserOf[ProjOrder]] = index[UserOf[ProjOrder]] \cup {ProjOrder}]
      BY <1>5 DEF ProjIndex
    <2>3. index' \in [Users -> SUBSET Orders]
      BY <2>1, <2>2
    <2>4. \A u \in Users : Ranked(index'[u])
      BY <2>1, <2>2, RankedAdd DEF QueryInv
    <2> QED
      BY <1>2, <1>5, <2>3, <2>4, FaultCounted DEF ProjIndex, ProjGoes, ProjPcs, QueryInv, Ranked
  <1>6. CASE ProjSaveFails
    BY <1>2, <1>6, FaultCounted DEF ProjSaveFails, ProjGoes, ProjPcs, QueryInv
  <1>7. CASE ProjAck
    <2>1. JetStreamType(Message)' /\ FaultsType'
      BY <1>2, <1>7, RedeliverType, ProjectorReads, FaultCounted DEF ProjAck
    <2> QED
      BY <1>7, <2>1 DEF ProjAck, ProjRest, ProjPcs, QueryInv
  <1> QED
    BY <1>1, <1>3, <1>4, <1>5, <1>6, <1>7, <1>8 DEF ProjStep

LEMMA QueryTypes ==
    ASSUME TypeOK, QueryInv, NEW q \in Queries, QueryStep(q)
    PROVE  TypeOK' /\ QueryInv'
  <1> USE DEF TypeOK
  <1>1. JetStreamType(Message) /\ UNCHANGED <<streams, consumers>> => JetStreamType(Message)'
    BY DEF JetStreamType
  <1>2. ASSUME NEW rec \in QueryType, QueryGoes(q, rec), Ranked(rec.left),
               rec.pc = "listing" => rec.left # {},
               UNCHANGED <<streams, consumers, views, viewless, index, proj>>, FaultsType'
        PROVE  TypeOK' /\ QueryInv'
    <2>1. query' = [query EXCEPT ![q] = rec] /\ query \in [Queries -> QueryType]
      BY <1>2 DEF QueryGoes, QueryType
    <2>2. query' \in [Queries -> QueryType]
      BY <1>2, <2>1
    <2>3. QueryInv'
      BY <1>2, <2>1 DEF QueryInv
    <2> QED
      BY <1>1, <1>2, <2>2, <2>3 DEF QueryType
  <1>3. QueryRest \in QueryType
    BY DEF QueryRest, QueryType, QueryPcs
  <1>4. ASSUME NEW o \in Orders, GetOrder(q, o)
        PROVE  TypeOK' /\ QueryInv'
    <2>1. Found(o) => <<Answer(o)>> \in Seq([order : Orders, view : View])
      <3>1. << >> \in Seq([order : Orders, view : View])
        OBVIOUS
      <3> QED
        BY <3>1, AnswersType
    <2>2. CASE /\ Found(o)
               /\ QueryGoes(q, [QueryRest EXCEPT !.pc = "answered", !.order = o,
                                                 !.answer = <<Answer(o)>>])
      <3>1. [QueryRest EXCEPT !.pc = "answered", !.order = o, !.answer = <<Answer(o)>>]
                \in QueryType
        BY <1>3, <2>1, <2>2 DEF QueryType, QueryPcs
      <3> QED
        BY <1>2, <1>4, <2>2, <3>1, RankedEmpty, FaultCounted DEF GetOrder, QueryRest
    <2>3. ASSUME NEW pc \in {"not_found", "failed"},
                 QueryGoes(q, [QueryRest EXCEPT !.pc = pc, !.order = o])
          PROVE  TypeOK' /\ QueryInv'
      <3>1. [QueryRest EXCEPT !.pc = pc, !.order = o] \in QueryType
        BY <1>3 DEF QueryType, QueryPcs
      <3> QED
        BY <1>2, <1>4, <2>3, <3>1, RankedEmpty, FaultCounted DEF GetOrder, QueryRest
    <2> QED
      BY <1>4, <2>2, <2>3 DEF GetOrder
  <1>5. ASSUME NEW u \in Users, ListStart(q, u)
        PROVE  TypeOK' /\ QueryInv'
    <2> DEFINE started == [QueryRest EXCEPT
                               !.pc = IF index[u] = {} THEN "answered" ELSE "listing",
                               !.user = u, !.ids = index[u], !.left = index[u]]
    <2>1. CASE QueryGoes(q, started)
      <3>1. started \in QueryType /\ started.left = index[u]
            /\ (started.pc = "listing" => index[u] # {})
        BY <1>3 DEF QueryType, QueryPcs
      <3> HIDE DEF started
      <3> QED
        BY <1>2, <1>5, <2>1, <3>1, FaultCounted DEF ListStart, QueryInv
    <2>2. CASE QueryGoes(q, [QueryRest EXCEPT !.pc = "failed", !.user = u])
      <3>1. [QueryRest EXCEPT !.pc = "failed", !.user = u] \in QueryType
        BY <1>3 DEF QueryType, QueryPcs
      <3> QED
        BY <1>2, <1>5, <2>2, <3>1, RankedEmpty, FaultCounted DEF ListStart, QueryRest
    <2> QED
      BY <1>5, <2>1, <2>2 DEF ListStart
  <1>6. CASE ListNext(q)
    <2> DEFINE o == LatestOf(query[q].left)
               left == query[q].left \ {o}
               next == [query[q] EXCEPT
                           !.pc = IF left = {} THEN "answered" ELSE "listing",
                           !.left = left,
                           !.answer = IF Found(o) THEN Append(@, Answer(o)) ELSE @]
    <2>1. query[q] \in QueryType
      BY DEF QueryType
    <2>2. o \in Orders
      BY <1>6, <2>1, LatestLeft DEF ListNext, QueryInv, QueryType
    <2>3. CASE QueryGoes(q, next)
      <3>1. query[q].answer \in Seq([order : Orders, view : View]) /\ left \in SUBSET Orders
        BY <2>1 DEF QueryType
      <3>2. (IF Found(o) THEN Append(query[q].answer, Answer(o)) ELSE query[q].answer)
                \in Seq([order : Orders, view : View])
        BY <2>2, <3>1, AnswersType
      <3>3. next \in QueryType /\ next.left = left /\ (next.pc = "listing" => left # {})
        BY <2>1, <3>1, <3>2 DEF QueryType, QueryPcs
      <3>4. Ranked(left)
        BY RankedSubset DEF QueryInv
      <3> HIDE DEF next, left
      <3> QED
        BY <1>2, <1>6, <2>3, <3>3, <3>4, FaultCounted DEF ListNext
    <2>4. CASE QueryGoes(q, [query[q] EXCEPT !.pc = "failed"])
      <3>1. [query[q] EXCEPT !.pc = "failed"] \in QueryType
        BY <2>1 DEF QueryType, QueryPcs
      <3>2. [query[q] EXCEPT !.pc = "failed"].left = query[q].left
            /\ [query[q] EXCEPT !.pc = "failed"].pc = "failed"
        BY <2>1 DEF QueryType
      <3> QED
        BY <1>2, <1>6, <2>4, <3>1, <3>2, FaultCounted DEF ListNext, QueryInv
    <2> QED
      BY <1>6, <2>3, <2>4 DEF ListNext
  <1> QED
    BY <1>4, <1>5, <1>6 DEF QueryStep

LEMMA EnvironmentTypes ==
    ASSUME TypeOK, QueryInv,
           \/ \E o \in Orders, msg \in Message : OrderAnnounced(o, msg)
           \/ \E o \in Orders : Expire(o)
           \/ Crash \/ Shutdown \/ AtRest \/ UNCHANGED vars
    PROVE  TypeOK' /\ QueryInv'
  <1> USE DEF TypeOK
  <1>1. JetStreamType(Message) /\ UNCHANGED <<streams, consumers>> => JetStreamType(Message)'
    BY DEF JetStreamType
  <1>2. ProjRest \in [pc : ProjPcs, msg : Nat, view : View \cup {NoView}]
    BY DEF ProjRest, ProjPcs
  <1>3. ASSUME NEW o \in Orders, NEW msg \in Message, OrderAnnounced(o, msg)
        PROVE  TypeOK' /\ QueryInv'
    <2>1. JetStreamType(Message)'
      BY <1>3, PublishType DEF OrderAnnounced, Streams
    <2>2. FaultsType'
      BY <1>3, FaultCounted DEF OrderAnnounced
    <2> QED
      BY <1>3, <2>1, <2>2 DEF OrderAnnounced, QueryInv
  <1>4. ASSUME NEW o \in Orders, Expire(o)
        PROVE  TypeOK' /\ QueryInv'
    BY <1>1, <1>4, FaultCounted DEF Expire, QueryInv
  <1>5. CASE Crash
    <2>1. JetStreamType(Message)' /\ FaultsType'
      BY <1>5, LoseClientType, ProjectorReads, FaultCounted DEF Crash
    <2>2. query' \in [Queries -> QueryType] /\ \A q \in Queries : query'[q].left = query[q].left
      <3>1. \A q \in Queries : query[q] \in QueryType
        BY DEF QueryType
      <3>2. \A q \in Queries : [query[q] EXCEPT !.pc = "failed"] \in QueryType
                               /\ [query[q] EXCEPT !.pc = "failed"].left = query[q].left
        BY <3>1 DEF QueryType, QueryPcs
      <3>3. query' = [q \in Queries |-> IF query[q].pc = "listing"
                                        THEN [query[q] EXCEPT !.pc = "failed"] ELSE query[q]]
        BY <1>5 DEF Crash, QueriesDropped
      <3> QED
        BY <3>1, <3>2, <3>3
    <2>3. \A q \in Queries : query'[q].pc # "listing"
      BY <1>5 DEF Crash, QueriesDropped, QueryPcs
    <2>4. QueryInv'
      BY <1>5, <2>2, <2>3 DEF Crash, QueryInv
    <2> QED
      BY <1>2, <1>5, <2>1, <2>2, <2>4 DEF Crash, QueryType
  <1>6. CASE Shutdown
    <2>1. JetStreamType(Message)' /\ FaultsType'
      BY <1>1, <1>6, LoseClientType, RecreateType, ProjectorReads, FaultCounted DEF Shutdown
    <2> QED
      BY <1>2, <1>6, <2>1 DEF Shutdown, QueryInv
  <1>7. CASE AtRest \/ UNCHANGED vars
    BY <1>1, <1>7 DEF AtRest, vars, QueryInv, FaultsType
  <1> QED
    BY <1>3, <1>4, <1>5, <1>6, <1>7

LEMMA InitTypes == Init => TypeOK /\ QueryInv
  <1> SUFFICES ASSUME Init PROVE TypeOK /\ QueryInv
    OBVIOUS
  <1>1. JetStreamType(Message) /\ FaultsType
    BY FaultsAssumption DEF Init, JetStreamInit, JetStreamType, FaultsInit, FaultsType
  <1>2. ProjRest \in [pc : ProjPcs, msg : Nat, view : View \cup {NoView}]
    BY DEF ProjRest, ProjPcs
  <1>3. QueryRest \in QueryType
    BY DEF QueryRest, QueryType, QueryPcs
  <1>4. TypeOK
    BY <1>1, <1>2, <1>3 DEF Init, TypeOK, QueryType
  <1>5. QueryInv
    BY RankedEmpty DEF Init, QueryInv, QueryRest
  <1> QED
    BY <1>4, <1>5

-----------------------------------------------------------------------------
(* What is true stays true *)

\* What the order service announces, and what the projector holds of it.
StreamInv ==
    \A i \in 1..Len(streams["ORDERS"]) :
        /\ streams["ORDERS"][i].subject \in OrderSubjects
        /\ streams["ORDERS"][i].payment = NoPayment
              <=> streams["ORDERS"][i].subject # "orders.paid"

LoadInv == proj.pc = "loading" => ProjMessage.subject # "orders.created"

TruthInv == ViewsTrue /\ ProjInv /\ StreamInv /\ LoadInv

StreamGrows == streams' = streams \/ \E msg \in Message : Publish("ORDERS", msg)

LEMMA LogGrows ==
    ASSUME TypeOK, StreamGrows
    PROVE  /\ Len(streams["ORDERS"]) \in Nat /\ Len(streams'["ORDERS"]) \in Nat
           /\ Len(streams["ORDERS"]) <= Len(streams'["ORDERS"])
           /\ \A i \in 1..Len(streams["ORDERS"]) :
                 i \in 1..Len(streams'["ORDERS"]) /\ streams'["ORDERS"][i] = streams["ORDERS"][i]
  <1>1. JetStreamType(Message) /\ "ORDERS" \in Streams /\ Len(streams["ORDERS"]) \in Nat
    BY DEF TypeOK, JetStreamType, Streams
  <1>2. CASE streams' = streams
    BY <1>1, <1>2
  <1>3. ASSUME NEW msg \in Message, Publish("ORDERS", msg)
        PROVE  /\ Len(streams'["ORDERS"]) = Len(streams["ORDERS"]) + 1
               /\ \A i \in 1..Len(streams["ORDERS"]) :
                     streams'["ORDERS"][i] = streams["ORDERS"][i]
    BY <1>1, <1>3, PublishAppends
  <1> QED
    BY <1>1, <1>2, <1>3 DEF StreamGrows

LEMMA AnnouncedStays ==
    ASSUME TypeOK, StreamGrows, NEW o, NEW subject, NEW payment, Announced(o, subject, payment)
    PROVE  Announced(o, subject, payment)'
  BY LogGrows DEF Announced, Stored

LEMMA TrueStays ==
    ASSUME TypeOK, StreamGrows, NEW o, NEW view, True(o, view)
    PROVE  True(o, view)'
  BY AnnouncedStays DEF True

\* A message in the stream announces what it says.
LEMMA MessageAnnounces ==
    ASSUME TypeOK, NEW i \in 1..Len(streams["ORDERS"])
    PROVE  Announced(streams["ORDERS"][i].order, streams["ORDERS"][i].subject,
                     streams["ORDERS"][i].payment)
  <1> DEFINE msg == streams["ORDERS"][i]
  <1>1. msg \in Message
    BY DEF TypeOK, JetStreamType, Streams
  <1>2. msg = [subject |-> msg.subject, order |-> msg.order, payment |-> msg.payment]
    BY <1>1 DEF Message
  <1> QED
    BY <1>2 DEF Announced, Stored

\* A step keeps the views and the answers true when what it writes is true.
LEMMA KeepsViewsTrue ==
    ASSUME TypeOK, TypeOK', ViewsTrue, StreamGrows,
           \A o \in Orders : \/ views'[o] \in {views[o], NoView}
                             \/ True(o, views'[o]),
           \A q \in Queries : \A i \in DOMAIN query'[q].answer :
               \/ i \in DOMAIN query[q].answer /\ query'[q].answer[i] = query[q].answer[i]
               \/ True(query'[q].answer[i].order, query'[q].answer[i].view)
    PROVE  ViewsTrue'
  <1>1. ASSUME NEW o \in Orders, NEW view, view = views'[o], view # NoView
        PROVE  True(o, view)'
    <2>1. True(o, view)
      BY <1>1 DEF ViewsTrue, Found
    <2> QED
      BY <2>1, TrueStays
  <1>2. ASSUME NEW q \in Queries, NEW i, i \in DOMAIN query'[q].answer,
               NEW o, NEW view, o = query'[q].answer[i].order, view = query'[q].answer[i].view
        PROVE  True(o, view)'
    <2>1. True(o, view)
      BY <1>2 DEF ViewsTrue
    <2> QED
      BY <2>1, TrueStays
  <1> QED
    BY <1>1, <1>2 DEF ViewsTrue, Found, True

\* What the projector holds after a step is fine when it was so before.
ProjHolds(p) ==
    /\ p.pc # "idle" => p.msg \in 1..Len(streams["ORDERS"])
    /\ p.pc \in {"saving", "indexing"} =>
          p.view # NoView /\ True(streams["ORDERS"][p.msg].order, p.view)
    /\ p.pc = "loading" => streams["ORDERS"][p.msg].subject # "orders.created"

LEMMA HoldsProj == ProjInv /\ LoadInv <=> ProjHolds(proj)
  BY DEF ProjInv, LoadInv, ProjHolds, ProjMessage, ProjOrder

LEMMA KeepsProj ==
    ASSUME TypeOK, StreamGrows, ProjHolds(proj')
    PROVE  ProjInv' /\ LoadInv'
  <1> DEFINE o == streams["ORDERS"][proj'.msg].order
  <1>1. proj'.pc # "idle" => /\ proj'.msg \in 1..Len(streams'["ORDERS"])
                            /\ streams'["ORDERS"][proj'.msg] = streams["ORDERS"][proj'.msg]
    BY LogGrows DEF ProjHolds
  <1>2. ASSUME NEW p, NEW view, p = o, view = proj'.view, proj'.pc \in {"saving", "indexing"}
        PROVE  view # NoView /\ True(p, view)'
    BY <1>2, TrueStays DEF ProjHolds
  <1> QED
    BY <1>1, <1>2 DEF ProjHolds, ProjInv, LoadInv, ProjMessage, ProjOrder, True

-----------------------------------------------------------------------------
(* Every step keeps the views true *)

\* The message the server hands to the projector is one of the stream.
LEMMA ReceivedTrue ==
    ASSUME TypeOK, StreamInv, NEW i \in Deliverable(Projector), ProjReceive(i)
    PROVE  ProjHolds(proj')
  <1>1. i \in 1..Len(streams["ORDERS"])
    BY ProjectorReads DEF Deliverable
  <1>2. CASE streams["ORDERS"][i].subject = "orders.created"
    <2>1. True(streams["ORDERS"][i].order, PendingView)
      BY <1>1, <1>2, MessageAnnounces DEF True, StreamInv
    <2> QED
      BY <1>1, <1>2, <2>1, PendingViewType DEF ProjReceive, ProjHolds
  <1>3. CASE streams["ORDERS"][i].subject # "orders.created"
    BY <1>1, <1>3 DEF ProjReceive, ProjHolds
  <1> QED
    BY <1>2, <1>3

\* What a handler makes of a true view and the message in its hands is true.
LEMMA LoadedTrue ==
    ASSUME TypeOK, TruthInv, ProjLoad
    PROVE  ProjHolds(proj')
  <1> DEFINE msg == ProjMessage
             o == ProjOrder
             view == ViewAfter(views[o], msg)
  <1>1. proj.msg \in 1..Len(streams["ORDERS"]) /\ proj.pc = "loading"
    BY DEF ProjLoad, TruthInv, ProjInv
  <1>2. msg \in Message /\ o \in Orders
    BY <1>1, ProjMessageType
  <1>3. msg.subject \in {"orders.paid", "orders.cancelled"}
        /\ (msg.payment = NoPayment <=> msg.subject # "orders.paid")
    BY <1>1 DEF TruthInv, LoadInv, StreamInv, OrderSubjects, ProjMessage
  <1>4. Announced(o, msg.subject, msg.payment)
    BY <1>1, MessageAnnounces DEF ProjMessage, ProjOrder
  <1>5. ASSUME Found(o)
        PROVE  view # NoView /\ True(o, view)
    <2>1. views[o] \in View
      BY <1>2, <1>5 DEF Found, TypeOK
    <2>2. view \in View /\ view # NoView
      BY <1>2, <2>1, ViewAfterType, ReadModelAssumption
    <2>3. Announced(o, "orders.created", NoPayment)
      BY <1>2, <1>5 DEF TruthInv, ViewsTrue, True
    <2>4. CASE msg.subject = "orders.paid"
      <3>1. view.status = "paid" /\ view.payment = msg.payment
        BY <2>4 DEF ViewAfter
      <3> QED
        BY <1>4, <2>2, <2>3, <2>4, <3>1 DEF True
    <2>5. CASE msg.subject = "orders.cancelled"
      <3>1. view.status = "cancelled" /\ msg.payment = NoPayment
        BY <1>3, <2>1, <2>5 DEF ViewAfter, View
      <3> QED
        BY <1>4, <2>2, <2>3, <2>5, <3>1 DEF True
    <2> QED
      BY <1>3, <2>4, <2>5
  <1>6. CASE Found(o) /\ proj' = [proj EXCEPT !.pc = "saving", !.view = view]
    <2>1. proj'.pc = "saving" /\ proj'.msg = proj.msg /\ proj'.view = view
      BY <1>6 DEF TypeOK
    <2> HIDE DEF view
    <2> QED
      BY <1>1, <1>5, <1>6, <2>1 DEF ProjHolds, ProjOrder, ProjMessage
  <1>7. CASE ProjGoes("acking")
    <2>1. proj'.pc = "acking" /\ proj'.msg = proj.msg
      BY <1>7 DEF ProjGoes, TypeOK
    <2> QED
      BY <1>1, <2>1 DEF ProjHolds
  <1> QED
    BY <1>6, <1>7 DEF ProjLoad

LEMMA ProjectorTruth ==
    ASSUME TypeOK, TypeOK', TruthInv, ProjStep
    PROVE  TruthInv'
  <1>1. StreamGrows /\ StreamInv'
    BY DEF ProjStep, ProjReceive, ProjLoad, ProjSet, ProjSetRefused, ProjIndex, ProjSaveFails, ProjAck,
           StreamGrows, TruthInv, StreamInv
  <1>2. query' = query
    BY DEF ProjStep, ProjReceive, ProjLoad, ProjSet, ProjSetRefused, ProjIndex, ProjSaveFails, ProjAck
  <1>3. ProjHolds(proj)
    BY HoldsProj DEF TruthInv
  <1>4. \A o \in Orders : views'[o] \in {views[o], NoView} \/ True(o, views'[o])
    <2>1. CASE ProjSet
      <3>1. ProjOrder \in Orders /\ True(ProjOrder, proj.view)
        BY <2>1, ProjMessageType DEF ProjSet, TruthInv, ProjInv
      <3>2. views' = [views EXCEPT ![ProjOrder] = proj.view] /\ views \in [Orders -> View \cup {NoView}]
        BY <2>1 DEF ProjSet, TypeOK
      <3> QED
        BY <3>1, <3>2
    <2>2. CASE views' = views
      BY <2>2
    <2> QED
      BY <2>1, <2>2 DEF ProjStep, ProjReceive, ProjLoad, ProjSetRefused, ProjIndex, ProjSaveFails, ProjAck
  <1>5. ProjHolds(proj')
    <2>1. ASSUME NEW i \in Deliverable(Projector), ProjReceive(i)
          PROVE  ProjHolds(proj')
      BY <2>1, ReceivedTrue DEF TruthInv
    <2>2. CASE ProjLoad
      BY <2>2, LoadedTrue
    <2>3. CASE ProjSet \/ ProjSetRefused \/ ProjIndex \/ ProjSaveFails
      <3>1. proj.pc \in {"saving", "indexing"} /\ proj'.pc \in {"indexing", "acking"}
            /\ proj'.msg = proj.msg /\ proj'.view = proj.view
        BY <2>3 DEF ProjSet, ProjSetRefused, ProjIndex, ProjSaveFails, ProjGoes, TypeOK
      <3> QED
        BY <1>3, <3>1 DEF ProjHolds
    <2>4. CASE ProjAck
      BY <2>4 DEF ProjAck, ProjRest, ProjHolds
    <2> QED
      BY <2>1, <2>2, <2>3, <2>4 DEF ProjStep
  <1>6. ViewsTrue'
    BY <1>1, <1>2, <1>4, KeepsViewsTrue DEF TruthInv
  <1> QED
    BY <1>1, <1>5, <1>6, KeepsProj DEF TruthInv

LEMMA QueryTruth ==
    ASSUME TypeOK, TypeOK', QueryInv, TruthInv, NEW q \in Queries, QueryStep(q)
    PROVE  TruthInv'
  <1>1. UNCHANGED <<streams, views, proj>>
    BY DEF QueryStep, GetOrder, ListStart, ListNext
  <1>2. StreamGrows /\ StreamInv'
    BY <1>1 DEF StreamGrows, TruthInv, StreamInv
  <1>3. ASSUME NEW o \in Orders, Found(o), NEW a, a = Answer(o)
        PROVE  True(a.order, a.view)
    BY <1>3 DEF TruthInv, ViewsTrue, Answer
  <1>4. ASSUME NEW rec, QueryGoes(q, rec),
               \A i \in DOMAIN rec.answer :
                   \/ i \in DOMAIN query[q].answer /\ rec.answer[i] = query[q].answer[i]
                   \/ True(rec.answer[i].order, rec.answer[i].view)
        PROVE  TruthInv'
    <2>1. \A r \in Queries : query'[r] = IF r = q THEN rec ELSE query[r]
      BY <1>4 DEF QueryGoes, TypeOK
    <2>2. ViewsTrue'
      BY <1>1, <1>2, <1>4, <2>1, KeepsViewsTrue DEF TruthInv
    <2>3. ProjInv' /\ LoadInv'
      BY <1>1, <1>2, HoldsProj, KeepsProj DEF TruthInv
    <2> QED
      BY <1>2, <2>2, <2>3 DEF TruthInv
  <1>5. ASSUME NEW rec, QueryGoes(q, rec), rec.answer = << >>
        PROVE  TruthInv'
    <2>1. \A i \in DOMAIN rec.answer : FALSE
      BY <1>5
    <2> QED
      BY <1>4, <1>5, <2>1
  <1>6. ASSUME NEW o \in Orders, GetOrder(q, o)
        PROVE  TruthInv'
    <2>1. CASE /\ Found(o)
               /\ QueryGoes(q, [QueryRest EXCEPT !.pc = "answered", !.order = o,
                                                 !.answer = <<Answer(o)>>])
      <3> DEFINE rec == [QueryRest EXCEPT !.pc = "answered", !.order = o,
                                          !.answer = <<Answer(o)>>]
      <3>1. rec.answer = <<Answer(o)>>
        BY DEF QueryRest
      <3>2. \A i \in DOMAIN rec.answer : rec.answer[i] = Answer(o)
        BY <3>1
      <3>3. \A i \in DOMAIN rec.answer : True(rec.answer[i].order, rec.answer[i].view)
        BY <1>3, <2>1, <3>2
      <3> HIDE DEF rec
      <3>4. QueryGoes(q, rec)
        BY <2>1 DEF rec
      <3> QED
        BY <1>4, <3>3, <3>4
    <2>2. ASSUME NEW pc, QueryGoes(q, [QueryRest EXCEPT !.pc = pc, !.order = o])
          PROVE  TruthInv'
      <3> DEFINE rec == [QueryRest EXCEPT !.pc = pc, !.order = o]
      <3>1. rec.answer = << >> /\ QueryGoes(q, rec)
        BY <2>2 DEF QueryRest
      <3> HIDE DEF rec
      <3> QED
        BY <1>5, <3>1
    <2> QED
      BY <1>6, <2>1, <2>2 DEF GetOrder
  <1>7. ASSUME NEW u \in Users, ListStart(q, u)
        PROVE  TruthInv'
    <2> DEFINE started == [QueryRest EXCEPT
                               !.pc = IF index[u] = {} THEN "answered" ELSE "listing",
                               !.user = u, !.ids = index[u], !.left = index[u]]
               failed == [QueryRest EXCEPT !.pc = "failed", !.user = u]
    <2>1. started.answer = << >> /\ failed.answer = << >>
      BY DEF QueryRest
    <2>2. QueryGoes(q, started) \/ QueryGoes(q, failed)
      BY <1>7 DEF ListStart
    <2> HIDE DEF started, failed
    <2> QED
      BY <1>5, <2>1, <2>2
  <1>8. CASE ListNext(q)
    <2> DEFINE o == LatestOf(query[q].left)
               left == query[q].left \ {o}
    <2>1. o \in Orders
      <3>1. query[q].left \in SUBSET Orders
        BY DEF TypeOK
      <3> QED
        BY <1>8, <3>1, LatestLeft DEF ListNext, QueryInv
    <2>2. query[q].answer \in Seq([order : Orders, view : View])
      BY DEF TypeOK
    <2>3. PICK rec :
             /\ QueryGoes(q, rec)
             /\ \/ rec.answer = query[q].answer
                \/ Found(o) /\ rec.answer = Append(query[q].answer, Answer(o))
      <3> DEFINE next == [query[q] EXCEPT
                     !.pc = IF left = {} THEN "answered" ELSE "listing",
                     !.left = left,
                     !.answer = IF Found(o) THEN Append(@, Answer(o)) ELSE @]
                 failed == [query[q] EXCEPT !.pc = "failed"]
      <3>1. query[q] \in QueryType
        BY DEF TypeOK, QueryType
      <3>2. next.answer = (IF Found(o) THEN Append(query[q].answer, Answer(o))
                                       ELSE query[q].answer)
            /\ failed.answer = query[q].answer
        BY <3>1 DEF QueryType
      <3>3. QueryGoes(q, next) \/ QueryGoes(q, failed)
        BY <1>8 DEF ListNext
      <3> HIDE DEF next, failed
      <3> QED
        BY <3>2, <3>3
    <2>4. CASE rec.answer = query[q].answer
      BY <1>4, <2>3, <2>4
    <2>5. CASE Found(o) /\ rec.answer = Append(query[q].answer, Answer(o))
      <3>1. \A i \in DOMAIN rec.answer :
                \/ i \in DOMAIN query[q].answer /\ rec.answer[i] = query[q].answer[i]
                \/ rec.answer[i] = Answer(o)
        <4> DEFINE answer == query[q].answer
                   new == Answer(o)
        <4>1. answer \in Seq([order : Orders, view : View])
          BY <2>2
        <4> HIDE DEF answer, new
        <4>2. \A i \in DOMAIN Append(answer, new) :
                 (i \in DOMAIN answer /\ Append(answer, new)[i] = answer[i]) \/ Append(answer, new)[i] = new
          BY <4>1
        <4> QED
          BY <2>5, <4>2 DEF answer, new
      <3>2. \A i \in DOMAIN rec.answer :
                \/ i \in DOMAIN query[q].answer /\ rec.answer[i] = query[q].answer[i]
                \/ True(rec.answer[i].order, rec.answer[i].view)
        BY <1>3, <2>1, <2>5, <3>1
      <3> QED
        BY <1>4, <2>3, <3>2
    <2> QED
      BY <2>3, <2>4, <2>5
  <1> QED
    BY <1>6, <1>7, <1>8 DEF QueryStep

LEMMA EnvironmentTruth ==
    ASSUME TypeOK, TypeOK', TruthInv,
           \/ \E o \in Orders, msg \in Message : OrderAnnounced(o, msg)
           \/ \E o \in Orders : Expire(o)
           \/ Crash \/ Shutdown \/ AtRest \/ UNCHANGED vars
    PROVE  TruthInv'
  <1>1. StreamGrows /\ StreamInv'
    <2>1. ASSUME NEW o \in Orders, NEW msg \in Message, OrderAnnounced(o, msg)
          PROVE  StreamGrows /\ StreamInv'
      <3>1. Publish("ORDERS", msg) /\ msg.subject \in OrderSubjects
            /\ (msg.payment = NoPayment <=> msg.subject # "orders.paid")
        BY <2>1 DEF OrderAnnounced
      <3>2. /\ streams'["ORDERS"] = Append(streams["ORDERS"], msg)
            /\ streams["ORDERS"] \in Seq(Message)
        BY <3>1 DEF Publish, TypeOK, JetStreamType, Streams
      <3>3. \A i \in 1..Len(streams'["ORDERS"]) :
               \/ i \in 1..Len(streams["ORDERS"]) /\ streams'["ORDERS"][i] = streams["ORDERS"][i]
               \/ streams'["ORDERS"][i] = msg
        BY <3>2
      <3> QED
        BY <3>1, <3>3 DEF StreamGrows, TruthInv, StreamInv
    <2>2. CASE streams' = streams
      BY <2>2 DEF StreamGrows, TruthInv, StreamInv
    <2> QED
      BY <2>1, <2>2 DEF Expire, Crash, Shutdown, AtRest, vars
  <1>2. \A o \in Orders : views'[o] \in {views[o], NoView}
    BY DEF OrderAnnounced, Expire, Crash, Shutdown, AtRest, vars, TypeOK
  <1>3. \A q \in Queries : query'[q].answer = query[q].answer
    BY DEF OrderAnnounced, Expire, Crash, QueriesDropped, Shutdown, AtRest, vars, TypeOK
  <1>4. ProjHolds(proj')
    <2>1. proj' = proj \/ proj' = ProjRest
      BY DEF OrderAnnounced, Expire, Crash, Shutdown, AtRest, vars
    <2> QED
      BY <2>1, HoldsProj DEF TruthInv, ProjHolds, ProjRest
  <1>5. ViewsTrue'
    BY <1>1, <1>2, <1>3, KeepsViewsTrue DEF TruthInv
  <1> QED
    BY <1>1, <1>4, <1>5, KeepsProj DEF TruthInv

LEMMA InitTruth == Init => TruthInv
  BY DEF Init, JetStreamInit, Streams, ProjRest, QueryRest, TruthInv, ViewsTrue, Found,
         ProjInv, StreamInv, LoadInv

-----------------------------------------------------------------------------
(* The sorted sets name orders with a view *)

\* Between the two commands of the pipeline the view is there, or has expired, or was
\* refused.
IndexInv ==
    /\ IndexedHasView
    /\ proj.pc = "indexing" => Found(ProjOrder) \/ ProjOrder \in viewless

\* A view that is there stays, or expires.
FoundStays ==
    /\ viewless \subseteq viewless'
    /\ \A o \in Orders : Found(o) => views'[o] # NoView \/ o \in viewless'

LEMMA StepFoundStays ==
    ASSUME TypeOK, ProjInv, [Next]_vars
    PROVE  FoundStays
  <1>1. CASE UNCHANGED <<views, viewless>>
    BY <1>1 DEF FoundStays, Found
  <1>2. CASE ProjSet
    BY <1>2 DEF ProjSet, ProjInv, TypeOK, FoundStays, Found
  <1>4. CASE ProjSetRefused
    BY <1>4 DEF ProjSetRefused, FoundStays, Found
  <1>3. ASSUME NEW o \in Orders, Expire(o)
        PROVE  FoundStays
    BY <1>3 DEF Expire, TypeOK, FoundStays, Found
  <1> QED
    BY <1>1, <1>2, <1>3, <1>4
       DEF Next, ProjStep, QueryStep, ProjReceive, ProjLoad, ProjIndex, ProjSaveFails, ProjAck,
           GetOrder, ListStart, ListNext, OrderAnnounced, Crash, Shutdown, AtRest, vars

LEMMA IndexStep ==
    ASSUME TypeOK, TypeOK', TruthInv, IndexInv, [Next]_vars
    PROVE  IndexInv'
  <1>1. FoundStays
    BY StepFoundStays DEF TruthInv
  <1>2. \A u \in Users : index[u] \subseteq Orders
    BY DEF TypeOK
  <1>3. proj.pc # "idle" =>
           /\ proj.msg \in 1..Len(streams["ORDERS"])
           /\ ProjOrder \in Orders
    BY ProjMessageType DEF TruthInv, ProjInv
  <1>4. ASSUME index' = index
        PROVE  IndexedHasView'
    BY <1>1, <1>2, <1>4 DEF IndexInv, IndexedHasView, FoundStays, Found
  <1>5. CASE ProjIndex
    <2>1. proj.pc = "indexing" /\ proj'.pc = "acking" /\ views' = views /\ viewless' = viewless
          /\ index' = [index EXCEPT ![UserOf[ProjOrder]] = index[UserOf[ProjOrder]] \cup {ProjOrder}]
      BY <1>5 DEF ProjIndex, ProjGoes, TypeOK
    <2>2. Found(ProjOrder) \/ ProjOrder \in viewless
      BY <2>1 DEF IndexInv
    <2>3. ASSUME NEW u \in Users, NEW o \in index'[u]
          PROVE  UserOf[o] = u /\ (Found(o) \/ o \in viewless)
      BY <2>1, <2>2, <2>3 DEF IndexInv, IndexedHasView, TypeOK
    <2>4. IndexedHasView'
      BY <2>1, <2>3 DEF IndexedHasView, Found
    <2> QED
      BY <2>1, <2>4 DEF IndexInv
  <1>6. CASE ProjSet
    <2>1. /\ proj.pc = "saving" /\ UNCHANGED <<streams, index>>
          /\ proj'.msg = proj.msg /\ views' = [views EXCEPT ![ProjOrder] = proj.view]
      BY <1>6 DEF ProjSet, ProjGoes, TypeOK
    <2>2. proj.view # NoView
      BY <2>1 DEF TruthInv, ProjInv
    <2>3. ProjOrder' = ProjOrder /\ views'[ProjOrder] # NoView
      BY <1>3, <2>1, <2>2 DEF ProjOrder, ProjMessage, TypeOK
    <2> QED
      BY <1>4, <2>1, <2>3 DEF IndexInv, Found
  <1>14. CASE ProjSetRefused
    <2>1. /\ proj.pc = "saving" /\ UNCHANGED <<streams, index, views>>
          /\ proj'.msg = proj.msg
          /\ Found(ProjOrder) \/ ProjOrder \in viewless'
      BY <1>14 DEF ProjSetRefused, ProjGoes, TypeOK
    <2>2. ProjOrder' = ProjOrder
      BY <2>1 DEF ProjOrder, ProjMessage
    <2> QED
      BY <1>4, <2>1, <2>2 DEF IndexInv, Found
  <1>7. CASE index' = index /\ proj'.pc # "indexing"
    BY <1>4, <1>7 DEF IndexInv
  <1>8. ASSUME index' = index, proj' = proj, StreamGrows
        PROVE  IndexInv'
    <2>1. CASE proj.pc = "indexing"
      <3>1. ProjOrder' = ProjOrder
        BY <1>3, <1>8, <2>1, LogGrows DEF ProjOrder, ProjMessage
      <3> QED
        BY <1>1, <1>3, <1>4, <1>8, <2>1, <3>1 DEF IndexInv, FoundStays, Found
    <2> QED
      BY <1>4, <1>8, <2>1 DEF IndexInv
  <1>9. CASE \E q \in Queries : QueryStep(q)
    BY <1>8, <1>9 DEF QueryStep, GetOrder, ListStart, ListNext, StreamGrows
  <1>10. CASE \E i \in Deliverable(Projector) : ProjReceive(i)
    BY <1>7, <1>10 DEF ProjReceive
  <1>11. CASE ProjLoad \/ ProjSaveFails \/ ProjAck \/ Crash \/ Shutdown
    <2>1. index' = index
      BY <1>11 DEF ProjLoad, ProjSaveFails, ProjAck, Crash, Shutdown
    <2>2. ProjLoad => proj'.pc # "indexing"
      BY DEF ProjLoad, ProjGoes, TypeOK
    <2>3. ProjSaveFails => proj'.pc # "indexing"
      BY DEF ProjSaveFails, ProjGoes, TypeOK
    <2>4. ProjAck \/ Crash \/ Shutdown => proj'.pc # "indexing"
      BY DEF ProjAck, Crash, Shutdown, ProjRest
    <2> QED
      BY <1>7, <1>11, <2>1, <2>2, <2>3, <2>4
  <1>12. ASSUME NEW o \in Orders, NEW msg \in Message, OrderAnnounced(o, msg)
         PROVE  IndexInv'
    BY <1>8, <1>12 DEF OrderAnnounced, StreamGrows
  <1>13. CASE (\E o \in Orders : Expire(o)) \/ AtRest \/ UNCHANGED vars
    BY <1>8, <1>13 DEF Expire, AtRest, vars, StreamGrows
  <1> QED
    BY <1>5, <1>6, <1>9, <1>10, <1>11, <1>12, <1>13, <1>14 DEF Next, ProjStep

-----------------------------------------------------------------------------

ReadInv == TypeOK /\ QueryInv /\ TruthInv /\ IndexInv

LEMMA InitRead == Init => ReadInv
  <1> SUFFICES ASSUME Init PROVE ReadInv
    OBVIOUS
  <1>1. IndexInv
    BY DEF Init, IndexInv, IndexedHasView, ProjRest
  <1> QED
    BY <1>1, InitTypes, InitTruth DEF ReadInv

LEMMA StepRead == ReadInv /\ [Next]_vars => ReadInv'
  <1> SUFFICES ASSUME ReadInv, [Next]_vars PROVE ReadInv'
    OBVIOUS
  <1> USE DEF ReadInv
  <1>1. ProjInv
    BY DEF TruthInv
  <1>2. CASE ProjStep
    BY <1>1, <1>2, ProjectorTypes, ProjectorTruth, IndexStep
  <1>3. ASSUME NEW q \in Queries, QueryStep(q)
        PROVE  ReadInv'
    BY <1>3, QueryTypes, QueryTruth, IndexStep
  <1>4. CASE \/ \E o \in Orders, msg \in Message : OrderAnnounced(o, msg)
             \/ \E o \in Orders : Expire(o)
             \/ Crash \/ Shutdown \/ AtRest \/ UNCHANGED vars
    BY <1>4, EnvironmentTypes, EnvironmentTruth, IndexStep
  <1> QED
    BY <1>2, <1>3, <1>4 DEF Next

\* Every state the read side reaches is of its types.
THEOREM TypeCorrect == Spec => []TypeOK
  <1>1. ReadInv => TypeOK
    BY DEF ReadInv
  <1> QED
    BY <1>1, InitRead, StepRead, PTL DEF Spec

\* Views and answers tell only of what was announced (projector.go, redis_read.go),
\* for every number of orders, queries, redeliveries, crashes and expiries.
THEOREM ViewsAreTrue == Spec => []ViewsTrue
  <1>1. ReadInv => ViewsTrue
    BY DEF ReadInv, TruthInv
  <1> QED
    BY <1>1, InitRead, StepRead, PTL DEF Spec

\* What the projector is about to save is true as well (projector.go).
THEOREM ProjectorHoldsTruth == Spec => []ProjInv
  <1>1. ReadInv => ProjInv
    BY DEF ReadInv, TruthInv
  <1> QED
    BY <1>1, InitRead, StepRead, PTL DEF Spec

\* The sorted sets name orders of their user whose view is there, has expired or was
\* refused (Save, redis_read.go), although Save is two commands, either of which may
\* take effect alone.
THEOREM IndexedViews == Spec => []IndexedHasView
  <1>1. ReadInv => IndexedHasView
    BY DEF ReadInv, IndexInv
  <1> QED
    BY <1>1, InitRead, StepRead, PTL DEF Spec

-----------------------------------------------------------------------------
(* The list a query makes *)

\* A list in the making, with views v, of which those of x have ever expired: what
\* is left is to be found or has expired, everything else that has not expired is
\* in the answer, newest first, and newer than what is left.
ListHolds(rec, v, x) ==
    /\ rec.left \subseteq rec.ids
    /\ rec.pc = "answered" => rec.left = {}
    /\ \A o \in rec.left : v[o] # NoView \/ o \in x
    /\ \A o \in rec.ids \ x : o \in rec.left \/ \E i \in DOMAIN rec.answer : rec.answer[i].order = o
    /\ \A i \in DOMAIN rec.answer :
          /\ rec.answer[i].order \in rec.ids
          /\ \A p \in rec.left : Recency[p] < Recency[rec.answer[i].order]
    /\ \A i, j \in DOMAIN rec.answer :
          i < j => Recency[rec.answer[j].order] < Recency[rec.answer[i].order]

IsList(rec) == rec.pc \in {"listing", "answered"} /\ rec.user # NoUser

ListInv == \A q \in Queries : IsList(query[q]) => ListHolds(query[q], views, viewless)

\* Views that come, change or expire do not disturb it.
LEMMA ListStays ==
    ASSUME TypeOK, FoundStays, NEW rec \in QueryType, ListHolds(rec, views, viewless)
    PROVE  ListHolds(rec, views', viewless')
  <1>1. \A o \in rec.left : views'[o] # NoView \/ o \in viewless'
    BY DEF ListHolds, FoundStays, Found, QueryType
  <1>2. \A o \in rec.ids \ viewless' : o \in rec.ids \ viewless
    BY DEF FoundStays
  <1> QED
    BY <1>1, <1>2 DEF ListHolds

\* The loop takes the newest order that is left.
LEMMA ListGoesOn ==
    ASSUME TypeOK, QueryInv, NEW q \in Queries, IsList(query[q]), query[q].pc = "listing",
           ListHolds(query[q], views, viewless),
           NEW o, o = LatestOf(query[q].left), NEW next \in QueryType,
           next.ids = query[q].ids, next.left = query[q].left \ {o},
           next.pc = "answered" => next.left = {},
           next.answer = IF Found(o) THEN Append(query[q].answer, Answer(o)) ELSE query[q].answer
    PROVE  ListHolds(next, views, viewless)
  <1> DEFINE old == query[q].answer
             left == query[q].left
  <1>1. o \in left /\ \A p \in left : Recency[p] <= Recency[o]
    BY LatestLeft DEF QueryInv
  <1>2. query[q] \in QueryType
    BY DEF TypeOK, QueryType
  <1>3. left \subseteq Orders /\ old \in Seq([order : Orders, view : View])
    BY <1>2 DEF QueryType
  <1>4. \A p \in next.left : Recency[p] < Recency[o]
    <2> TAKE p \in next.left
    <2>1. p \in Orders /\ o \in Orders /\ p # o /\ Recency[p] <= Recency[o]
      BY <1>1, <1>3
    <2> QED
      BY <2>1, ReadModelAssumption
  <1>5. CASE ~Found(o)
    <2>1. o \in viewless
      BY <1>1, <1>5 DEF ListHolds, Found
    <2> QED
      BY <1>5, <2>1 DEF ListHolds
  <1>6. CASE Found(o)
    <2> DEFINE new == Append(old, Answer(o))
    <2>1. Answer(o) \in [order : Orders, view : View] /\ Answer(o).order = o
      BY <1>1, <1>3, <1>6, AnswerType DEF Answer
    <2>2. /\ DOMAIN new = DOMAIN old \cup {Len(old) + 1}
          /\ DOMAIN old = 1..Len(old) /\ Len(old) \in Nat
          /\ \A i \in DOMAIN old : new[i] = old[i]
          /\ new[Len(old) + 1].order = o
      BY <1>3, <2>1
    <2>3. \A i \in DOMAIN new :
             /\ new[i].order \in query[q].ids
             /\ \A p \in next.left : Recency[p] < Recency[new[i].order]
      BY <1>1, <1>4, <2>2 DEF ListHolds
    <2>4. \A i, j \in DOMAIN new : i < j => Recency[new[j].order] < Recency[new[i].order]
      BY <1>1, <2>2 DEF ListHolds
    <2>5. \A p \in query[q].ids \ viewless :
             p \in next.left \/ \E i \in DOMAIN new : new[i].order = p
      BY <2>2 DEF ListHolds
    <2> HIDE DEF new
    <2> QED
      BY <1>6, <2>3, <2>4, <2>5 DEF ListHolds, new
  <1> QED
    BY <1>5, <1>6

LEMMA StepList ==
    ASSUME ReadInv, ListInv, [Next]_vars
    PROVE  ListInv'
  <1> USE DEF ReadInv
  <1>1. FoundStays
    BY StepFoundStays DEF TruthInv
  <1>2. \A q \in Queries : query[q] \in QueryType
    BY DEF TypeOK, QueryType
  <1>3. ASSUME NEW q \in Queries, query'[q] = query[q] \/ ~IsList(query'[q])
        PROVE  IsList(query'[q]) => ListHolds(query'[q], views', viewless')
    BY <1>1, <1>2, <1>3, ListStays DEF ListInv
  <1>4. CASE UNCHANGED query
    BY <1>3, <1>4 DEF ListInv
  <1>5. CASE QueriesDropped
    <2>1. \A q \in Queries : query'[q] = query[q] \/ query'[q].pc = "failed"
      BY <1>2, <1>5 DEF QueriesDropped, QueryType
    <2> QED
      BY <1>3, <2>1 DEF ListInv, IsList
  <1>6. ASSUME NEW q \in Queries, QueryStep(q)
        PROVE  ListInv'
    <2>1. UNCHANGED <<views, viewless>>
      BY <1>6 DEF QueryStep, GetOrder, ListStart, ListNext
    <2>2. ASSUME NEW rec, QueryGoes(q, rec), IsList(rec) => ListHolds(rec, views, viewless)
          PROVE  ListInv'
      <3>1. query' = [query EXCEPT ![q] = rec]
        BY <2>2 DEF QueryGoes
      <3> QED
        BY <2>1, <2>2, <3>1 DEF ListInv, TypeOK
    <2>3. ASSUME NEW o \in Orders, GetOrder(q, o)
          PROVE  ListInv'
      <3> DEFINE found == [QueryRest EXCEPT !.pc = "answered", !.order = o,
                                            !.answer = <<Answer(o)>>]
                 other(pc) == [QueryRest EXCEPT !.pc = pc, !.order = o]
      <3>1. found.user = NoUser /\ \A pc : other(pc).user = NoUser
        BY DEF QueryRest
      <3>2. QueryGoes(q, found) \/ \E pc : QueryGoes(q, other(pc))
        BY <2>3 DEF GetOrder
      <3> HIDE DEF found, other
      <3> QED
        BY <2>2, <3>1, <3>2 DEF IsList
    <2>4. ASSUME NEW u \in Users, ListStart(q, u)
          PROVE  ListInv'
      <3> DEFINE started == [QueryRest EXCEPT
                                 !.pc = IF index[u] = {} THEN "answered" ELSE "listing",
                                 !.user = u, !.ids = index[u], !.left = index[u]]
      <3>1. CASE QueryGoes(q, started)
        <4>1. /\ started.ids = index[u] /\ started.left = index[u] /\ started.answer = << >>
              /\ started.pc = "answered" => index[u] = {}
          BY DEF QueryRest
        <4>2. \A o \in index[u] : views[o] # NoView \/ o \in viewless
          BY DEF IndexInv, IndexedHasView, Found
        <4> HIDE DEF started
        <4>3. ListHolds(started, views, viewless)
          BY <4>1, <4>2 DEF ListHolds
        <4> QED
          BY <2>2, <3>1, <4>3
      <3>2. CASE QueryGoes(q, [QueryRest EXCEPT !.pc = "failed", !.user = u])
        BY <2>2, <3>2 DEF IsList, QueryRest
      <3> QED
        BY <2>4, <3>1, <3>2 DEF ListStart
    <2>5. CASE ListNext(q)
      <3> DEFINE o == LatestOf(query[q].left)
                 next == [query[q] EXCEPT
                             !.pc = IF query[q].left \ {o} = {} THEN "answered" ELSE "listing",
                             !.left = query[q].left \ {o},
                             !.answer = IF Found(o) THEN Append(@, Answer(o)) ELSE @]
      <3>1. CASE QueryGoes(q, next)
        <4>1. /\ next.ids = query[q].ids /\ next.left = query[q].left \ {o}
              /\ next.user = query[q].user
              /\ next.pc = "answered" => next.left = {}
              /\ next.answer = IF Found(o) THEN Append(query[q].answer, Answer(o))
                                           ELSE query[q].answer
          BY <1>2 DEF QueryType
        <4>2. query' = [query EXCEPT ![q] = next]
          BY <3>1 DEF QueryGoes
        <4>3. next \in QueryType
          <5>1. query' \in [Queries -> QueryType]
            BY <1>6, QueryTypes DEF TypeOK, QueryType
          <5>2. query'[q] = next
            BY <4>2 DEF TypeOK
          <5> QED
            BY <5>1, <5>2
        <4> HIDE DEF next
        <4>4. IsList(next) => ListHolds(next, views, viewless)
          <5> SUFFICES ASSUME IsList(next)
                       PROVE  ListHolds(next, views, viewless)
            OBVIOUS
          <5>1. query[q].pc = "listing" /\ IsList(query[q])
            BY <2>5, <4>1 DEF ListNext, IsList
          <5> HIDE DEF o
          <5>2. o = LatestOf(query[q].left)
            BY DEF o
          <5> QED
            BY <4>1, <4>3, <5>1, <5>2, ListGoesOn DEF ListInv
        <4> QED
          BY <2>2, <3>1, <4>4
      <3>2. CASE QueryGoes(q, [query[q] EXCEPT !.pc = "failed"])
        <4>1. [query[q] EXCEPT !.pc = "failed"].pc = "failed"
          BY <1>2 DEF QueryType
        <4> QED
          BY <2>2, <3>2, <4>1 DEF IsList
      <3> QED
        BY <2>5, <3>1, <3>2 DEF ListNext
    <2> QED
      BY <1>6, <2>3, <2>4, <2>5 DEF QueryStep
  <1> QED
    BY <1>4, <1>5, <1>6
       DEF Next, ProjStep, ProjReceive, ProjLoad, ProjSet, ProjSetRefused, ProjIndex, ProjSaveFails, ProjAck,
           OrderAnnounced, Expire, Crash, Shutdown, AtRest, vars

\* A list that is answered holds every order it should, once, the newest first
\* (query/handler.go, redis_read.go), although it is made with one GET per order
\* while views change and expire.
THEOREM ListsAreComplete == Spec => []ListComplete
  <1>1. Init => ListInv
    BY DEF Init, ListInv, IsList, QueryRest
  <1>2. ReadInv /\ ListInv => ListComplete
    BY DEF ListInv, IsList, ListHolds, ListComplete
  <1>3. ReadInv /\ ListInv /\ [Next]_vars => ReadInv' /\ ListInv'
    BY StepRead, StepList
  <1> QED
    BY <1>1, <1>2, <1>3, InitRead, PTL DEF Spec

-----------------------------------------------------------------------------
(* Outcomes, as long as nothing fails *)

OrderLog == streams["ORDERS"]
Inbox == consumers[Projector]

\* The first message whose effect is not in the views.
Ahead == IF proj.pc \in {"loading", "saving"} THEN proj.msg ELSE Inbox.next

\* Each message is handed over once and in order.
InboxInOrder ==
    /\ Inbox.again = {}
    /\ proj.pc # "idle" => proj.msg + 1 = Inbox.next

\* Two messages of an order are its creation and then its outcome.
LogShape ==
    \A i, j \in 1..Len(OrderLog) : i < j /\ OrderLog[i].order = OrderLog[j].order =>
        OrderLog[i].subject = "orders.created" /\ OrderLog[j].subject # "orders.created"

\* Only the view of a created order is about to be saved as pending, and a view that
\* shows an outcome has it from a message that is done with.
SavesPending == proj.pc = "saving" /\ ProjMessage.subject = "orders.created" => proj.view = PendingView
OutcomesSeen ==
    \A o \in Orders : Found(o) /\ views[o] # PendingView =>
        \E k \in 1..Len(OrderLog) :
            k < Ahead /\ OrderLog[k].order = o /\ OrderLog[k].subject # "orders.created"

OutcomeInv == faults = 0 => InboxInOrder /\ LogShape /\ SavesPending /\ OutcomesSeen

LEMMA InboxType ==
    ASSUME TypeOK
    PROVE  /\ Inbox.next \in Nat \ {0} /\ proj.msg \in Nat /\ faults \in Nat
           /\ OrderLog \in Seq(Message) /\ Len(OrderLog) \in Nat
  <1>1. Inbox \in [next : Nat \ {0}, again : SUBSET Nat]
    BY ProjectorReads DEF TypeOK, JetStreamType, Inbox
  <1>2. OrderLog \in Seq(Message)
    BY DEF TypeOK, JetStreamType, Streams, OrderLog
  <1> QED
    BY <1>1, <1>2, FaultsAssumption DEF TypeOK, FaultsType

\* The view that is saved is the one of the order's last message so far.
LEMMA SavedLast ==
    ASSUME TypeOK, ProjInv, InboxInOrder, LogShape, OutcomesSeen, ProjSet
    PROVE  Found(ProjOrder) => views[ProjOrder] = PendingView
  <1>1. proj.pc = "saving" /\ proj.msg \in 1..Len(OrderLog) /\ ProjOrder \in Orders
    BY ProjMessageType DEF ProjSet, ProjInv, OrderLog
  <1> SUFFICES ASSUME Found(ProjOrder), views[ProjOrder] # PendingView
               PROVE  FALSE
    OBVIOUS
  <1>2. PICK k \in 1..Len(OrderLog) : k < proj.msg /\ OrderLog[k].order = ProjOrder
                                     /\ OrderLog[k].subject # "orders.created"
    BY <1>1 DEF OutcomesSeen, Ahead
  <1> QED
    BY <1>1, <1>2 DEF LogShape, ProjOrder, ProjMessage, OrderLog

\* The steps of the projector.
LEMMA ProjectorOutcome ==
    ASSUME ReadInv, faults = 0, OutcomeInv, ProjStep, NoFault
    PROVE  OutcomeInv'
  <1> USE DEF ReadInv, OutcomeInv
  <1>1. /\ Inbox.next \in Nat \ {0} /\ proj.msg \in Nat /\ Len(OrderLog) \in Nat
        /\ proj.pc # "idle" => proj.msg \in 1..Len(OrderLog) /\ proj.msg + 1 = Inbox.next
    BY InboxType DEF TruthInv, ProjInv, InboxInOrder, OrderLog
  <1>2. UNCHANGED streams
    BY DEF ProjStep, ProjReceive, ProjLoad, ProjSet, ProjSetRefused, ProjIndex, ProjSaveFails, ProjAck
  <1>3. LogShape'
    BY <1>2 DEF LogShape, OrderLog
  <1>4. ~ProjSaveFails /\ ~ProjSetRefused
    BY <1>1, InboxType DEF ProjSaveFails, ProjSetRefused, Fault, NoFault
  <1>5. ASSUME NEW i \in Deliverable(Projector), ProjReceive(i)
        PROVE  OutcomeInv'
    <2>1. i = Inbox.next
      BY <1>5 DEF Deliverable, InboxInOrder, Inbox
    <2>2. Inbox' = [next |-> i + 1, again |-> {}]
      BY <1>5, <2>1, ProjectorReads
         DEF ProjReceive, Deliver, InboxInOrder, TypeOK, JetStreamType, Inbox
    <2>3. /\ proj'.msg = i /\ proj'.pc \in {"loading", "saving"} /\ proj.pc = "idle"
          /\ proj'.pc = "saving" => proj'.view = PendingView
          /\ UNCHANGED views
      BY <1>5 DEF ProjReceive
    <2>4. Ahead' = Ahead
      BY <2>1, <2>3 DEF Ahead
    <2>5. InboxInOrder' /\ SavesPending'
      BY <2>2, <2>3 DEF InboxInOrder, SavesPending
    <2>6. OutcomesSeen'
      BY <1>2, <2>3, <2>4 DEF OutcomesSeen, OrderLog, Found
    <2> QED
      BY <1>3, <2>5, <2>6
  <1>6. CASE ProjLoad
    <2>1. /\ proj.pc = "loading" /\ proj'.pc \in {"saving", "acking"} /\ proj'.msg = proj.msg
          /\ UNCHANGED <<consumers, views>>
      BY <1>6 DEF ProjLoad, ProjGoes, TypeOK
    <2>2. ProjMessage' = ProjMessage /\ ProjMessage.subject # "orders.created"
      BY <1>2, <2>1 DEF ProjMessage, TruthInv, LoadInv
    <2>3. InboxInOrder' /\ SavesPending'
      BY <2>1, <2>2 DEF InboxInOrder, SavesPending, Inbox
    <2>4. Ahead' >= Ahead /\ Ahead \in Nat /\ Ahead' \in Nat
      BY <1>1, <2>1 DEF Ahead, Inbox
    <2>5. OutcomesSeen'
      <3> SUFFICES ASSUME NEW o \in Orders, Found(o)', views'[o] # PendingView
                   PROVE  \E k \in 1..Len(OrderLog') : k < Ahead' /\ OrderLog'[k].order = o
                                              /\ OrderLog'[k].subject # "orders.created"
        BY DEF OutcomesSeen, PendingView
      <3>1. PICK k \in 1..Len(OrderLog) : k < Ahead /\ OrderLog[k].order = o
                                         /\ OrderLog[k].subject # "orders.created"
        BY <2>1 DEF OutcomesSeen, Found
      <3> QED
        BY <1>1, <1>2, <2>4, <3>1 DEF OrderLog
    <2> QED
      BY <1>3, <2>3, <2>5
  <1>7. CASE ProjSet
    <2>1. /\ proj.pc = "saving" /\ proj'.pc = "indexing" /\ proj'.msg = proj.msg
          /\ views' = [views EXCEPT ![ProjOrder] = proj.view] /\ UNCHANGED consumers
      BY <1>7 DEF ProjSet, ProjGoes, TypeOK
    <2>2. InboxInOrder' /\ SavesPending'
      BY <2>1 DEF InboxInOrder, SavesPending, Inbox
    <2>3. Ahead = proj.msg /\ Ahead' = proj.msg + 1
      BY <1>1, <2>1 DEF Ahead, Inbox
    <2>4. ASSUME NEW o \in Orders, Found(o)', views'[o] # PendingView
          PROVE  \E k \in 1..Len(OrderLog) : k < Ahead' /\ OrderLog[k].order = o
                                             /\ OrderLog[k].subject # "orders.created"
      <3>1. CASE o = ProjOrder
        <4>1. proj.view # PendingView
          BY <2>1, <2>4, <3>1 DEF TypeOK
        <4>2. ProjMessage.subject # "orders.created"
          BY <2>1, <4>1 DEF SavesPending
        <4> QED
          BY <1>1, <2>1, <2>3, <3>1, <4>2 DEF ProjOrder, ProjMessage, OrderLog
      <3>2. CASE o # ProjOrder
        <4>1. Found(o) /\ views[o] # PendingView
          BY <2>1, <2>4, <3>2 DEF Found, TypeOK
        <4> QED
          BY <1>1, <2>3, <4>1 DEF OutcomesSeen
      <3> QED
        BY <3>1, <3>2
    <2>5. OutcomesSeen'
      BY <1>2, <2>4 DEF OutcomesSeen, OrderLog, PendingView
    <2> QED
      BY <1>3, <2>2, <2>5
  <1>8. CASE ProjIndex \/ ProjAck
    <2>1. /\ proj.pc \in {"indexing", "acking"} /\ proj'.pc \in {"acking", "idle"}
          /\ proj'.pc # "idle" => proj'.msg = proj.msg
          /\ UNCHANGED <<consumers, views>>
      BY <1>1, <1>8, InboxType
         DEF ProjIndex, ProjAck, ProjGoes, ProjRest, TypeOK, Fault, NoFault
    <2>2. InboxInOrder' /\ SavesPending' /\ Ahead' = Ahead
      BY <2>1 DEF InboxInOrder, SavesPending, Ahead, Inbox
    <2>3. OutcomesSeen'
      BY <1>2, <2>1, <2>2 DEF OutcomesSeen, OrderLog, Found
    <2> QED
      BY <1>3, <2>2, <2>3
  <1> QED
    BY <1>4, <1>5, <1>6, <1>7, <1>8 DEF ProjStep

LEMMA AnnouncedOutcome ==
    ASSUME ReadInv, faults = 0, OutcomeInv, NEW a \in Orders, NEW msg \in Message,
           OrderAnnounced(a, msg), NoFault
    PROVE  OutcomeInv'
  <1> USE DEF ReadInv, OutcomeInv
  <1>1. /\ Len(OrderLog) \in Nat /\ Len(OrderLog') = Len(OrderLog) + 1
        /\ OrderLog'[Len(OrderLog) + 1] = msg
        /\ \A i \in 1..Len(OrderLog) : OrderLog'[i] = OrderLog[i]
    BY PublishAppends DEF OrderAnnounced, TypeOK, Streams, OrderLog
  <1>2. UNCHANGED <<consumers, proj, views>> /\ msg.order = a
    BY DEF OrderAnnounced
  <1>3. \A i \in 1..Len(OrderLog) : OrderLog[i].order = a =>
           OrderLog[i].subject = "orders.created" /\ msg.subject # "orders.created"
    BY DEF OrderAnnounced, OrderLog
  <1>4. LogShape'
    <2> SUFFICES ASSUME NEW i \in 1..Len(OrderLog'), NEW j \in 1..Len(OrderLog'),
                        i < j, OrderLog'[i].order = OrderLog'[j].order
                 PROVE  OrderLog'[i].subject = "orders.created"
                        /\ OrderLog'[j].subject # "orders.created"
      BY DEF LogShape
    <2>1. CASE j \in 1..Len(OrderLog)
      BY <1>1, <2>1 DEF LogShape
    <2>2. CASE j = Len(OrderLog) + 1
      <3>1. i \in 1..Len(OrderLog)
        BY <1>1, <2>2
      <3> QED
        BY <1>1, <1>2, <1>3, <2>2, <3>1
    <2> QED
      BY <1>1, <2>1, <2>2
  <1>5. InboxInOrder' /\ Ahead' = Ahead
    BY <1>2 DEF InboxInOrder, Ahead, Inbox
  <1>6. SavesPending'
    <2>1. proj.pc = "saving" => ProjMessage' = ProjMessage
      BY <1>1, <1>2 DEF TruthInv, ProjInv, ProjMessage, OrderLog
    <2> QED
      BY <1>2, <2>1 DEF SavesPending
  <1>7. OutcomesSeen'
    <2>1. 1..Len(OrderLog) \subseteq 1..Len(OrderLog')
      BY <1>1
    <2> QED
      BY <1>1, <1>2, <1>5, <2>1 DEF OutcomesSeen, Found
  <1> QED
    BY <1>4, <1>5, <1>6, <1>7

LEMMA StepOutcome ==
    ASSUME ReadInv, OutcomeInv, [Next]_vars
    PROVE  /\ OutcomeInv'
           /\ faults' = 0 => \A o \in Orders :
                 Found(o) /\ views[o] # PendingView => views'[o] = views[o]
  <1> USE DEF ReadInv
  <1>1. faults \in Nat
    BY InboxType
  <1>2. CASE faults' # 0
    BY <1>2 DEF OutcomeInv
  <1>3. CASE faults' = 0
    <2>1. ~\E kind : Fault(kind)
      BY <1>1, <1>3 DEF Fault
    <2>2. NoFault /\ faults = 0
      <3>1. NoFault
        BY <2>1 DEF Next, ProjStep, QueryStep, ProjReceive, ProjLoad, ProjSet, ProjSetRefused, ProjIndex,
                    ProjSaveFails, ProjAck, GetOrder, ListStart, ListNext, OrderAnnounced,
                    Expire, Crash, Shutdown, AtRest, vars, NoFault
      <3> QED
        BY <1>3, <3>1 DEF NoFault
    <2>3. CASE ProjStep
      <3>1. OutcomeInv'
        BY <2>2, <2>3, ProjectorOutcome
      <3>2. ASSUME NEW o \in Orders, Found(o), views[o] # PendingView
            PROVE  views'[o] = views[o]
        <4>1. CASE ProjSet
          <5>1. o # ProjOrder
            BY <2>2, <3>2, <4>1, SavedLast DEF OutcomeInv, TruthInv
          <5> QED
            BY <4>1, <5>1 DEF ProjSet, TypeOK
        <4>2. CASE ~ProjSet
          BY <2>3, <4>2 DEF ProjStep, ProjReceive, ProjLoad, ProjSetRefused, ProjIndex, ProjSaveFails, ProjAck
        <4> QED
          BY <4>1, <4>2
      <3> QED
        BY <3>1, <3>2
    <2>4. ASSUME UNCHANGED <<streams, consumers, views, proj>>
          PROVE  OutcomeInv' /\ UNCHANGED views
      BY <2>2, <2>4 DEF OutcomeInv, InboxInOrder, LogShape, SavesPending, OutcomesSeen, Ahead,
                        Inbox, OrderLog, ProjMessage, Found
    <2>5. ASSUME NEW q \in Queries, QueryStep(q)
          PROVE  UNCHANGED <<streams, consumers, views, proj>>
      BY <2>5 DEF QueryStep, GetOrder, ListStart, ListNext
    <2>6. ASSUME NEW o \in Orders, NEW msg \in Message, OrderAnnounced(o, msg)
          PROVE  OutcomeInv' /\ UNCHANGED views
      BY <2>2, <2>6, AnnouncedOutcome DEF OrderAnnounced
    <2>7. ~Crash /\ ~Shutdown /\ ~\E o \in Orders : Expire(o)
      BY <2>1 DEF Crash, Shutdown, Expire
    <2>8. AtRest \/ UNCHANGED vars => UNCHANGED <<streams, consumers, views, proj>>
      BY DEF AtRest, vars
    <2> QED
      BY <2>3, <2>4, <2>5, <2>6, <2>7, <2>8 DEF Next
  <1> QED
    BY <1>2, <1>3

\* Unless something fails a view that shows an outcome shows it for good
\* (projector.go): its handlers save what they made of the view they loaded, and
\* this is safe because messages are handed over in order and one at a time.
THEOREM OutcomesStay == Spec => OutcomeStays
  <1>1. Init => OutcomeInv
    <2> SUFFICES ASSUME Init PROVE OutcomeInv
      OBVIOUS
    <2>1. Inbox = [next |-> 1, again |-> {}] /\ OrderLog = << >>
      BY ProjectorReads DEF Init, JetStreamInit, Inbox, OrderLog, Streams
    <2> QED
      BY <2>1 DEF Init, OutcomeInv, InboxInOrder, LogShape, SavesPending, OutcomesSeen,
                  ProjRest, Found
  <1>2. ReadInv /\ OutcomeInv /\ [Next]_vars =>
           /\ ReadInv' /\ OutcomeInv'
           /\ [faults' = 0 => \A o \in Orders :
                  Found(o) /\ views[o] # PendingView => views'[o] = views[o]]_vars
    BY StepRead, StepOutcome
  <1> QED
    BY <1>1, <1>2, InitRead, PTL DEF Spec, OutcomeStays

-----------------------------------------------------------------------------
(* Beside other services.  What the read side holds on to survives a step of      *)
(* another service: of what the read side reads it only extends ORDERS.           *)

\* A message as the order service publishes it.
OrderShaped(m) ==
    /\ m.subject \in OrderSubjects
    /\ m.payment = NoPayment <=> m.subject # "orders.paid"

Aside ==
    /\ UNCHANGED <<views, viewless, index, proj, query>>
    /\ JetStreamType(Message)' /\ FaultsType'
    /\ \/ streams'["ORDERS"] = streams["ORDERS"]
       \/ \E m \in Message : Publish("ORDERS", m) /\ OrderShaped(m)

\* The process dies, and with it the clients of more consumers than the read side has.
Restarts ==
    /\ proj' = ProjRest
    /\ QueriesDropped
    /\ JetStreamType(Message)' /\ FaultsType'
    /\ UNCHANGED <<streams, views, viewless, index>>

LEMMA StreamAside ==
    ASSUME TypeOK, StreamInv, Aside
    PROVE  /\ StreamInv'
           /\ \A i \in 1..Len(streams["ORDERS"]) :
                 i \in 1..Len(streams'["ORDERS"]) /\ streams'["ORDERS"][i] = streams["ORDERS"][i]
  <1>1. CASE streams'["ORDERS"] = streams["ORDERS"]
    BY <1>1 DEF StreamInv
  <1>2. ASSUME NEW m \in Message, Publish("ORDERS", m), OrderShaped(m)
        PROVE  /\ StreamInv'
               /\ \A i \in 1..Len(streams["ORDERS"]) :
                     /\ i \in 1..Len(streams'["ORDERS"])
                     /\ streams'["ORDERS"][i] = streams["ORDERS"][i]
    <2>1. /\ Len(streams["ORDERS"]) \in Nat
          /\ Len(streams'["ORDERS"]) = Len(streams["ORDERS"]) + 1
          /\ streams'["ORDERS"][Len(streams["ORDERS"]) + 1] = m
          /\ \A i \in 1..Len(streams["ORDERS"]) : streams'["ORDERS"][i] = streams["ORDERS"][i]
      BY <1>2, PublishAppends DEF TypeOK, Streams
    <2>2. \A i \in 1..Len(streams["ORDERS"]) : i \in 1..Len(streams'["ORDERS"])
      BY <2>1
    <2>3. ASSUME NEW i \in 1..Len(streams'["ORDERS"])
          PROVE  i \in 1..Len(streams["ORDERS"]) \/ streams'["ORDERS"][i] = m
      BY <2>1
    <2>4. ASSUME NEW i \in 1..Len(streams'["ORDERS"])
          PROVE  OrderShaped(streams'["ORDERS"][i])
      <3>1. CASE i \in 1..Len(streams["ORDERS"])
        <4>1. OrderShaped(streams["ORDERS"][i])
          BY <3>1 DEF StreamInv, OrderShaped
        <4>2. streams'["ORDERS"][i] = streams["ORDERS"][i]
          BY <2>1, <3>1
        <4> QED
          BY <4>1, <4>2
      <3>2. CASE streams'["ORDERS"][i] = m
        BY <1>2, <3>2
      <3> QED
        BY <2>3, <3>1, <3>2
    <2>5. StreamInv'
      BY <2>4 DEF StreamInv, OrderShaped
    <2> QED
      BY <2>1, <2>2, <2>5
  <1> QED
    BY <1>1, <1>2 DEF Aside

LEMMA AsideKeeps == ReadInv /\ Aside => ReadInv'
  <1> SUFFICES ASSUME ReadInv, Aside PROVE ReadInv'
    OBVIOUS
  <1> USE DEF ReadInv, TruthInv
  <1>1. TypeOK' /\ QueryInv'
    BY DEF Aside, TypeOK, QueryInv
  <1>2. /\ StreamInv'
        /\ \A i \in 1..Len(streams["ORDERS"]) :
              i \in 1..Len(streams'["ORDERS"]) /\ streams'["ORDERS"][i] = streams["ORDERS"][i]
    BY StreamAside
  <1>3. ASSUME NEW o, NEW view, True(o, view)
        PROVE  True(o, view)'
    BY <1>2, <1>3 DEF True, Announced, Stored
  <1>4. ViewsTrue'
    BY <1>3 DEF Aside, ViewsTrue, Found
  <1>5. proj.pc # "idle" => proj.msg \in 1..Len(streams'["ORDERS"])
                            /\ ProjMessage' = ProjMessage /\ ProjOrder' = ProjOrder
    BY <1>2 DEF Aside, ProjInv, ProjMessage, ProjOrder
  <1>6. ProjInv'
    <2>1. ASSUME NEW o, NEW view, o = ProjOrder, view = proj.view, proj.pc \in {"saving", "indexing"}
          PROVE  view # NoView /\ True(o, view)'
      BY <1>3, <2>1 DEF ProjInv
    <2> QED
      BY <1>5, <2>1 DEF Aside, ProjInv, True, Announced
  <1>7. LoadInv'
    BY <1>5 DEF Aside, LoadInv
  <1>8. IndexInv'
    BY <1>5 DEF Aside, IndexInv, IndexedHasView, Found
  <1> QED
    BY <1>1, <1>2, <1>4, <1>6, <1>7, <1>8

LEMMA RestartsKeeps == ReadInv /\ Restarts => ReadInv'
  <1> SUFFICES ASSUME ReadInv, Restarts PROVE ReadInv'
    OBVIOUS
  <1> USE DEF ReadInv, TruthInv
  <1>1. query' \in [Queries -> QueryType]
        /\ \A q \in Queries : \/ query'[q] = query[q]
                              \/ query'[q] = [query[q] EXCEPT !.pc = "failed"]
    <2>1. \A q \in Queries : query[q] \in QueryType
      BY DEF TypeOK, QueryType
    <2>2. \A q \in Queries : [query[q] EXCEPT !.pc = "failed"] \in QueryType
      BY <2>1 DEF QueryType, QueryPcs
    <2> QED
      BY <2>1, <2>2 DEF Restarts, QueriesDropped
  <1>2. \A q \in Queries : /\ query'[q].answer = query[q].answer /\ query'[q].left = query[q].left
                           /\ query'[q].pc = "listing" => query[q].pc = "listing"
    BY <1>1 DEF TypeOK, QueryType
  <1>3. ProjRest \in [pc : ProjPcs, msg : Nat, view : View \cup {NoView}]
    BY DEF ProjRest, ProjPcs
  <1>4. TypeOK'
    BY <1>1, <1>3 DEF Restarts, TypeOK, QueryType
  <1>5. QueryInv' /\ StreamInv'
    BY <1>2 DEF Restarts, QueryInv, StreamInv, Ranked
  <1>6. ViewsTrue'
    <2>1. ASSUME NEW o, NEW view, True(o, view)
          PROVE  True(o, view)'
      BY <2>1 DEF Restarts, True, Announced, Stored
    <2> QED
      BY <1>2, <2>1 DEF Restarts, ViewsTrue, Found
  <1>7. ProjInv' /\ LoadInv' /\ IndexInv'
    BY DEF Restarts, ProjInv, LoadInv, IndexInv, IndexedHasView, Found, ProjRest
  <1> QED
    BY <1>4, <1>5, <1>6, <1>7

=============================================================================

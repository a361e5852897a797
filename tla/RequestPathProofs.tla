------------------------- MODULE RequestPathProofs -------------------------
(***************************************************************************)
(* Proofs about a request's way through the gateway, the interceptors and  *)
(* the user-service, for every number of clients, requests, services that  *)
(* die and failures: the answers agree with the accounts, a token stays    *)
(* good, and a request reaches the one RPC its pattern names.              *)
(***************************************************************************)
EXTENDS RequestPath, FiniteSetTheorems, SequenceTheorems, TLAPS

-----------------------------------------------------------------------------
(* The routes *)

\* Two lists, one after the other.
LEMMA Joined ==
    ASSUME NEW S, NEW s \in Seq(S), NEW t \in Seq(S), NEW u, u = s \o t
    PROVE  /\ u \in Seq(S) /\ Len(u) = Len(s) + Len(t)
           /\ \A i \in 1..Len(s) : u[i] = s[i]
           /\ \A i \in 1..Len(t) : u[Len(s) + i] = t[i]
  <1>1. /\ u \in Seq(S) /\ Len(u) = Len(s) + Len(t)
        /\ Len(s) \in Nat /\ Len(t) \in Nat
        /\ \A i \in 1..(Len(s) + Len(t)) : u[i] = IF i <= Len(s) THEN s[i] ELSE t[i - Len(s)]
    BY ConcatProperties
  <1>2. ASSUME NEW i \in 1..Len(t)
        PROVE  u[Len(s) + i] = t[i]
    <2>1. Len(s) + i \in 1..(Len(s) + Len(t)) /\ ~(Len(s) + i <= Len(s)) /\ Len(s) + i - Len(s) = i
      BY <1>1
    <2> QED
      BY <1>1, <2>1
  <1> QED
    BY <1>1, <1>2

Verb == {"GET", "POST", "PUT"}
Segment ==
    {"api", "v1", "users", "products", "orders", "payments", "register", "login", "inventory",
     "cancel", "refund"} \cup PathParams
Call == [rpc : Rpcs, body : BOOLEAN]
Route == [verb : Verb, path : Seq(Segment), call : Call]

LEMMA ListsOfRoutes ==
    /\ UserRoutes \in Seq(Route) /\ Len(UserRoutes) = 4
    /\ ProductRoutes \in Seq(Route) /\ Len(ProductRoutes) = 5
    /\ OrderCommandRoutes \in Seq(Route) /\ Len(OrderCommandRoutes) = 2
    /\ OrderQueryRoutes \in Seq(Route) /\ Len(OrderQueryRoutes) = 2
    /\ PaymentRoutes \in Seq(Route) /\ Len(PaymentRoutes) = 3
  <1>1. ASSUME NEW verb \in Verb, NEW path \in Seq(Segment), NEW c \in Call
        PROVE  On(verb, path, c) \in Route
    <2>1. <<"api", "v1">> \in Seq(Segment)
      BY DEF Segment
    <2>2. <<"api", "v1">> \o path \in Seq(Segment)
      BY <2>1, Joined
    <2> QED
      BY <2>2 DEF On, Route
  <1>2. \A rpc \in Rpcs : Calls(rpc) \in Call /\ CallsWithBody(rpc) \in Call
    BY DEF Calls, CallsWithBody, Call
  <1>3. /\ \A a, b, c, d \in Route : /\ <<a, b, c, d>> \in Seq(Route)
                                     /\ Len(<<a, b, c, d>>) = 4
        /\ \A a, b, c, d, e \in Route : /\ <<a, b, c, d, e>> \in Seq(Route)
                                        /\ Len(<<a, b, c, d, e>>) = 5
        /\ \A a, b \in Route : <<a, b>> \in Seq(Route) /\ Len(<<a, b>>) = 2
        /\ \A a, b, c \in Route : <<a, b, c>> \in Seq(Route) /\ Len(<<a, b, c>>) = 3
    OBVIOUS
  <1>4. ASSUME NEW a \in Segment, NEW verb \in Verb, NEW rpc \in Rpcs,
               NEW call0 \in {Calls(rpc), CallsWithBody(rpc)}
        PROVE  /\ On(verb, <<a>>, call0) \in Route
               /\ \A b \in Segment : On(verb, <<a, b>>, call0) \in Route
               /\ \A b, c \in Segment : On(verb, <<a, b, c>>, call0) \in Route
    <2>1. <<a>> \in Seq(Segment) /\ (\A b \in Segment : <<a, b>> \in Seq(Segment))
          /\ \A b, c \in Segment : <<a, b, c>> \in Seq(Segment)
      OBVIOUS
    <2> QED
      BY <1>1, <1>2, <2>1
  <1>5. UserRoutes \in Seq(Route) /\ Len(UserRoutes) = 4
    <2> DEFINE a == On("POST", <<"users", "register">>, Register)
               b == On("POST", <<"users", "login">>, Login)
               c == On("GET", <<"users", "{user_id}">>, GetUser)
               d == On("PUT", <<"users", "{user_id}">>, UpdateUser)
    <2>1. a \in Route
      BY <1>4 DEF Verb, Segment, PathParams, Rpcs, UserService, Register
    <2>2. b \in Route
      BY <1>4 DEF Verb, Segment, PathParams, Rpcs, UserService, Login
    <2>3. c \in Route
      BY <1>4 DEF Verb, Segment, PathParams, Rpcs, UserService, GetUser
    <2>4. d \in Route
      BY <1>4 DEF Verb, Segment, PathParams, Rpcs, UserService, UpdateUser
    <2>6. UserRoutes = <<a, b, c, d>>
      BY DEF UserRoutes
    <2> HIDE DEF a, b, c, d
    <2>7. <<a, b, c, d>> \in Seq(Route) /\ Len(<<a, b, c, d>>) = 4
      BY <2>1, <2>2, <2>3, <2>4
    <2> QED
      BY <2>6, <2>7
  <1>6. ProductRoutes \in Seq(Route) /\ Len(ProductRoutes) = 5
    <2> DEFINE a == On("POST", <<"products">>, CreateProduct)
               b == On("GET", <<"products", "{product_id}">>, GetProduct)
               c == On("GET", <<"products">>, ListProducts)
               d == On("PUT", <<"products", "{product_id}">>, UpdateProduct)
               e == On("PUT", <<"products", "{product_id}", "inventory">>, UpdateInventory)
    <2>1. a \in Route
      BY <1>4 DEF Verb, Segment, PathParams, Rpcs, ProductService, CreateProduct
    <2>2. b \in Route
      BY <1>4 DEF Verb, Segment, PathParams, Rpcs, ProductService, GetProduct
    <2>3. c \in Route
      BY <1>4 DEF Verb, Segment, PathParams, Rpcs, ProductService, ListProducts
    <2>4. d \in Route
      BY <1>4 DEF Verb, Segment, PathParams, Rpcs, ProductService, UpdateProduct
    <2>5. e \in Route
      BY <1>4 DEF Verb, Segment, PathParams, Rpcs, ProductService, UpdateInventory
    <2>6. ProductRoutes = <<a, b, c, d, e>>
      BY DEF ProductRoutes
    <2> HIDE DEF a, b, c, d, e
    <2>7. <<a, b, c, d, e>> \in Seq(Route) /\ Len(<<a, b, c, d, e>>) = 5
      BY <2>1, <2>2, <2>3, <2>4, <2>5
    <2> QED
      BY <2>6, <2>7
  <1>7. OrderCommandRoutes \in Seq(Route) /\ Len(OrderCommandRoutes) = 2
    BY <1>3, <1>4 DEF Verb, Segment, PathParams, Rpcs, UserService, ProductService,
           OrderCommandService, OrderQueryService, PaymentService, OrderCommandRoutes, PlaceOrder, CancelOrder
  <1>8. OrderQueryRoutes \in Seq(Route) /\ Len(OrderQueryRoutes) = 2
    BY <1>3, <1>4 DEF Verb, Segment, PathParams, Rpcs, UserService, ProductService,
           OrderCommandService, OrderQueryService, PaymentService, OrderQueryRoutes, GetOrder, ListOrdersByUser
  <1>9. PaymentRoutes \in Seq(Route) /\ Len(PaymentRoutes) = 3
    BY <1>3, <1>4 DEF Verb, Segment, PathParams, Rpcs, UserService, ProductService,
           OrderCommandService, OrderQueryService, PaymentService, PaymentRoutes, GetPayment, ListPaymentsByOrder, RefundPayment
  <1> QED
    BY <1>5, <1>6, <1>7, <1>8, <1>9

LEMMA RoutesTable ==
    /\ Len(Routes) = 16
    /\ \A i \in 1..4 : Routes[i] = UserRoutes[i]
    /\ \A i \in 1..5 : Routes[4 + i] = ProductRoutes[i]
    /\ \A i \in 1..2 : Routes[9 + i] = OrderCommandRoutes[i]
    /\ \A i \in 1..2 : Routes[11 + i] = OrderQueryRoutes[i]
    /\ \A i \in 1..3 : Routes[13 + i] = PaymentRoutes[i]
  <1> DEFINE two == UserRoutes \o ProductRoutes
             three == two \o OrderCommandRoutes
             four == three \o OrderQueryRoutes
  <1>1. /\ two = UserRoutes \o ProductRoutes
        /\ three = two \o OrderCommandRoutes
        /\ four = three \o OrderQueryRoutes
        /\ Routes = four \o PaymentRoutes
    BY DEF Routes
  <1> HIDE DEF two, three, four
  <1>2. /\ two \in Seq(Route) /\ Len(two) = 9
        /\ \A i \in 1..4 : two[i] = UserRoutes[i]
        /\ \A i \in 1..5 : two[4 + i] = ProductRoutes[i]
    <2>1. UserRoutes \in Seq(Route) /\ ProductRoutes \in Seq(Route) /\ Len(UserRoutes) = 4 /\ Len(ProductRoutes) = 5
      BY <1>1, ListsOfRoutes
    <2>2. two = UserRoutes \o ProductRoutes /\ UserRoutes \in Seq(Route) /\ ProductRoutes \in Seq(Route)
      BY <1>1, <2>1
    <2>3. /\ two \in Seq(Route) /\ Len(two) = Len(UserRoutes) + Len(ProductRoutes)
          /\ \A i \in 1..Len(UserRoutes) : two[i] = UserRoutes[i]
          /\ \A i \in 1..Len(ProductRoutes) : two[Len(UserRoutes) + i] = ProductRoutes[i]
      BY <2>2, Joined
    <2> QED
      BY <2>1, <2>3
  <1>3. /\ three \in Seq(Route) /\ Len(three) = 11
        /\ \A i \in 1..9 : three[i] = two[i]
        /\ \A i \in 1..2 : three[9 + i] = OrderCommandRoutes[i]
    <2>1. two \in Seq(Route) /\ OrderCommandRoutes \in Seq(Route) /\ Len(two) = 9 /\ Len(OrderCommandRoutes) = 2
      BY <1>1, <1>2, ListsOfRoutes
    <2>2. three = two \o OrderCommandRoutes /\ two \in Seq(Route) /\ OrderCommandRoutes \in Seq(Route)
      BY <1>1, <2>1
    <2>3. /\ three \in Seq(Route) /\ Len(three) = Len(two) + Len(OrderCommandRoutes)
          /\ \A i \in 1..Len(two) : three[i] = two[i]
          /\ \A i \in 1..Len(OrderCommandRoutes) : three[Len(two) + i] = OrderCommandRoutes[i]
      BY <2>2, Joined
    <2> QED
      BY <2>1, <2>3
  <1>4. /\ four \in Seq(Route) /\ Len(four) = 13
        /\ \A i \in 1..11 : four[i] = three[i]
        /\ \A i \in 1..2 : four[11 + i] = OrderQueryRoutes[i]
    <2>1. three \in Seq(Route) /\ OrderQueryRoutes \in Seq(Route) /\ Len(three) = 11 /\ Len(OrderQueryRoutes) = 2
      BY <1>1, <1>3, ListsOfRoutes
    <2>2. four = three \o OrderQueryRoutes /\ three \in Seq(Route) /\ OrderQueryRoutes \in Seq(Route)
      BY <1>1, <2>1
    <2>3. /\ four \in Seq(Route) /\ Len(four) = Len(three) + Len(OrderQueryRoutes)
          /\ \A i \in 1..Len(three) : four[i] = three[i]
          /\ \A i \in 1..Len(OrderQueryRoutes) : four[Len(three) + i] = OrderQueryRoutes[i]
      BY <2>2, Joined
    <2> QED
      BY <2>1, <2>3
  <1>5. /\ Routes \in Seq(Route) /\ Len(Routes) = 16
        /\ \A i \in 1..13 : Routes[i] = four[i]
        /\ \A i \in 1..3 : Routes[13 + i] = PaymentRoutes[i]
    <2>1. four \in Seq(Route) /\ PaymentRoutes \in Seq(Route) /\ Len(four) = 13 /\ Len(PaymentRoutes) = 3
      BY <1>1, <1>4, ListsOfRoutes
    <2>2. Routes = four \o PaymentRoutes /\ four \in Seq(Route) /\ PaymentRoutes \in Seq(Route)
      BY <1>1, <2>1
    <2>3. /\ Routes \in Seq(Route) /\ Len(Routes) = Len(four) + Len(PaymentRoutes)
          /\ \A i \in 1..Len(four) : Routes[i] = four[i]
          /\ \A i \in 1..Len(PaymentRoutes) : Routes[Len(four) + i] = PaymentRoutes[i]
      BY <2>2, Joined
    <2> QED
      BY <2>1, <2>3
  <1> QED
    BY <1>2, <1>3, <1>4, <1>5

\* The route at each position.
LEMMA RouteAt ==
    /\ Routes[1] = On("POST", <<"users", "register">>, Register)
    /\ Routes[2] = On("POST", <<"users", "login">>, Login)
    /\ Routes[3] = On("GET", <<"users", "{user_id}">>, GetUser)
    /\ Routes[4] = On("PUT", <<"users", "{user_id}">>, UpdateUser)
    /\ Routes[5] = On("POST", <<"products">>, CreateProduct)
    /\ Routes[6] = On("GET", <<"products", "{product_id}">>, GetProduct)
    /\ Routes[7] = On("GET", <<"products">>, ListProducts)
    /\ Routes[8] = On("PUT", <<"products", "{product_id}">>, UpdateProduct)
    /\ Routes[9] = On("PUT", <<"products", "{product_id}", "inventory">>, UpdateInventory)
    /\ Routes[10] = On("POST", <<"orders">>, PlaceOrder)
    /\ Routes[11] = On("POST", <<"orders", "{order_id}", "cancel">>, CancelOrder)
    /\ Routes[12] = On("GET", <<"orders", "{order_id}">>, GetOrder)
    /\ Routes[13] = On("GET", <<"users", "{user_id}", "orders">>, ListOrdersByUser)
    /\ Routes[14] = On("GET", <<"payments", "{payment_id}">>, GetPayment)
    /\ Routes[15] = On("GET", <<"orders", "{order_id}", "payments">>, ListPaymentsByOrder)
    /\ Routes[16] = On("POST", <<"payments", "{payment_id}", "refund">>, RefundPayment)
  <1>1. /\ Routes[1] = UserRoutes[1]
        /\ Routes[2] = UserRoutes[2]
        /\ Routes[3] = UserRoutes[3]
        /\ Routes[4] = UserRoutes[4]
    BY RoutesTable
  <1>2. /\ Routes[5] = ProductRoutes[1]
        /\ Routes[6] = ProductRoutes[2]
        /\ Routes[7] = ProductRoutes[3]
        /\ Routes[8] = ProductRoutes[4]
        /\ Routes[9] = ProductRoutes[5]
    BY RoutesTable
  <1>3. /\ Routes[10] = OrderCommandRoutes[1]
        /\ Routes[11] = OrderCommandRoutes[2]
    BY RoutesTable
  <1>4. /\ Routes[12] = OrderQueryRoutes[1]
        /\ Routes[13] = OrderQueryRoutes[2]
    BY RoutesTable
  <1>5. /\ Routes[14] = PaymentRoutes[1]
        /\ Routes[15] = PaymentRoutes[2]
        /\ Routes[16] = PaymentRoutes[3]
    BY RoutesTable
  <1> QED
    BY <1>1, <1>2, <1>3, <1>4, <1>5
    DEF UserRoutes, ProductRoutes, OrderCommandRoutes, OrderQueryRoutes, PaymentRoutes

\* What a request that fits a route looks like behind the prefix.
LEMMA FitsPath ==
    ASSUME NEW v, NEW path \in Seq(Segment), NEW call0, NEW verb, NEW url,
           Matches(On(v, path, call0), verb, url)
    PROVE  /\ verb = v /\ Len(url) = 2 + Len(path)
           /\ Len(path) >= 1 => path[1] \in PathParams \/ url[3] = path[1]
           /\ Len(path) >= 2 => path[2] \in PathParams \/ url[4] = path[2]
           /\ Len(path) >= 3 => path[3] \in PathParams \/ url[5] = path[3]
  <1> DEFINE whole == <<"api", "v1">> \o path
             prefix == <<"api", "v1">>
  <1>1. prefix \in Seq(Segment) /\ Len(prefix) = 2
    BY DEF Segment
  <1>2. whole = prefix \o path
    OBVIOUS
  <1>3. verb = v /\ Len(url) = Len(whole)
        /\ \A i \in 1..Len(url) : whole[i] \in PathParams \/ url[i] = whole[i]
    BY DEF Matches, On
  <1> HIDE DEF whole, prefix
  <1>4. /\ Len(whole) = Len(prefix) + Len(path)
        /\ \A i \in 1..Len(path) : whole[Len(prefix) + i] = path[i]
    <2>1. prefix \in Seq(Segment)
      BY <1>1
    <2> QED
      BY <2>1, <1>2, Joined
  <1>5. Len(whole) = 2 + Len(path) /\ \A i \in 1..Len(path) : whole[2 + i] = path[i]
    BY <1>1, <1>4
  <1>6. \A i \in 1..Len(path) : 2 + i \in 1..(2 + Len(path))
    OBVIOUS
  <1>7. \A i \in 1..Len(path) : path[i] \in PathParams \/ url[2 + i] = path[i]
    BY <1>3, <1>5, <1>6
  <1>8. /\ Len(path) \in Nat
        /\ Len(path) >= 1 => 1 \in 1..Len(path)
        /\ Len(path) >= 2 => 2 \in 1..Len(path)
        /\ Len(path) >= 3 => 3 \in 1..Len(path)
        /\ 2 + 1 = 3 /\ 2 + 2 = 4 /\ 2 + 3 = 5
    OBVIOUS
  <1>9. /\ Len(path) >= 1 => path[1] \in PathParams \/ url[2 + 1] = path[1]
        /\ Len(path) >= 2 => path[2] \in PathParams \/ url[2 + 2] = path[2]
        /\ Len(path) >= 3 => path[3] \in PathParams \/ url[2 + 3] = path[3]
    BY <1>7, <1>8
  <1> QED
    BY <1>3, <1>5, <1>8, <1>9

\* What a request that fits each route looks like.
LEMMA Fits ==
    ASSUME NEW verb, NEW url
    PROVE
    /\ Matches(Routes[1], verb, url) =>
          verb = "POST" /\ Len(url) = 4 /\ url[3] = "users" /\ url[4] = "register"
    /\ Matches(Routes[2], verb, url) =>
          verb = "POST" /\ Len(url) = 4 /\ url[3] = "users" /\ url[4] = "login"
    /\ Matches(Routes[3], verb, url) =>
          verb = "GET" /\ Len(url) = 4 /\ url[3] = "users"
    /\ Matches(Routes[4], verb, url) =>
          verb = "PUT" /\ Len(url) = 4 /\ url[3] = "users"
    /\ Matches(Routes[5], verb, url) =>
          verb = "POST" /\ Len(url) = 3 /\ url[3] = "products"
    /\ Matches(Routes[6], verb, url) =>
          verb = "GET" /\ Len(url) = 4 /\ url[3] = "products"
    /\ Matches(Routes[7], verb, url) =>
          verb = "GET" /\ Len(url) = 3 /\ url[3] = "products"
    /\ Matches(Routes[8], verb, url) =>
          verb = "PUT" /\ Len(url) = 4 /\ url[3] = "products"
    /\ Matches(Routes[9], verb, url) =>
          verb = "PUT" /\ Len(url) = 5 /\ url[3] = "products" /\ url[5] = "inventory"
    /\ Matches(Routes[10], verb, url) =>
          verb = "POST" /\ Len(url) = 3 /\ url[3] = "orders"
    /\ Matches(Routes[11], verb, url) =>
          verb = "POST" /\ Len(url) = 5 /\ url[3] = "orders" /\ url[5] = "cancel"
    /\ Matches(Routes[12], verb, url) =>
          verb = "GET" /\ Len(url) = 4 /\ url[3] = "orders"
    /\ Matches(Routes[13], verb, url) =>
          verb = "GET" /\ Len(url) = 5 /\ url[3] = "users" /\ url[5] = "orders"
    /\ Matches(Routes[14], verb, url) =>
          verb = "GET" /\ Len(url) = 4 /\ url[3] = "payments"
    /\ Matches(Routes[15], verb, url) =>
          verb = "GET" /\ Len(url) = 5 /\ url[3] = "orders" /\ url[5] = "payments"
    /\ Matches(Routes[16], verb, url) =>
          verb = "POST" /\ Len(url) = 5 /\ url[3] = "payments" /\ url[5] = "refund"
  <1>1. ASSUME Matches(Routes[1], verb, url)
        PROVE  verb = "POST" /\ Len(url) = 4 /\ url[3] = "users" /\ url[4] = "register"
    <2> DEFINE path == <<"users", "register">>
    <2>1. path \in Seq(Segment)
      BY DEF Segment, PathParams
    <2>5. Len(path) = 2 /\ path[1] = "users" /\ path[2] = "register"
      OBVIOUS
    <2>2. Routes[1] = On("POST", path, Register)
      BY RouteAt
    <2> HIDE DEF path
    <2>3. path \in Seq(Segment) /\ Matches(On("POST", path, Register), verb, url)
      BY <1>1, <2>1, <2>2
    <2>4. /\ verb = "POST" /\ Len(url) = 2 + Len(path)
          /\ Len(path) >= 1 => path[1] \in PathParams \/ url[3] = path[1]
          /\ Len(path) >= 2 => path[2] \in PathParams \/ url[4] = path[2]
          /\ Len(path) >= 3 => path[3] \in PathParams \/ url[5] = path[3]
      BY <2>3, FitsPath
    <2>6. path[1] \notin PathParams /\ path[2] \notin PathParams
      BY <2>5 DEF PathParams
    <2> QED
      BY <2>4, <2>5, <2>6
  <1>2. ASSUME Matches(Routes[2], verb, url)
        PROVE  verb = "POST" /\ Len(url) = 4 /\ url[3] = "users" /\ url[4] = "login"
    <2> DEFINE path == <<"users", "login">>
    <2>1. path \in Seq(Segment)
      BY DEF Segment, PathParams
    <2>5. Len(path) = 2 /\ path[1] = "users" /\ path[2] = "login"
      OBVIOUS
    <2>2. Routes[2] = On("POST", path, Login)
      BY RouteAt
    <2> HIDE DEF path
    <2>3. path \in Seq(Segment) /\ Matches(On("POST", path, Login), verb, url)
      BY <1>2, <2>1, <2>2
    <2>4. /\ verb = "POST" /\ Len(url) = 2 + Len(path)
          /\ Len(path) >= 1 => path[1] \in PathParams \/ url[3] = path[1]
          /\ Len(path) >= 2 => path[2] \in PathParams \/ url[4] = path[2]
          /\ Len(path) >= 3 => path[3] \in PathParams \/ url[5] = path[3]
      BY <2>3, FitsPath
    <2>6. path[1] \notin PathParams /\ path[2] \notin PathParams
      BY <2>5 DEF PathParams
    <2> QED
      BY <2>4, <2>5, <2>6
  <1>3. ASSUME Matches(Routes[3], verb, url)
        PROVE  verb = "GET" /\ Len(url) = 4 /\ url[3] = "users"
    <2> DEFINE path == <<"users", "{user_id}">>
    <2>1. path \in Seq(Segment)
      BY DEF Segment, PathParams
    <2>5. Len(path) = 2 /\ path[1] = "users"
      OBVIOUS
    <2>2. Routes[3] = On("GET", path, GetUser)
      BY RouteAt
    <2> HIDE DEF path
    <2>3. path \in Seq(Segment) /\ Matches(On("GET", path, GetUser), verb, url)
      BY <1>3, <2>1, <2>2
    <2>4. /\ verb = "GET" /\ Len(url) = 2 + Len(path)
          /\ Len(path) >= 1 => path[1] \in PathParams \/ url[3] = path[1]
          /\ Len(path) >= 2 => path[2] \in PathParams \/ url[4] = path[2]
          /\ Len(path) >= 3 => path[3] \in PathParams \/ url[5] = path[3]
      BY <2>3, FitsPath
    <2>6. path[1] \notin PathParams
      BY <2>5 DEF PathParams
    <2> QED
      BY <2>4, <2>5, <2>6
  <1>4. ASSUME Matches(Routes[4], verb, url)
        PROVE  verb = "PUT" /\ Len(url) = 4 /\ url[3] = "users"
    <2> DEFINE path == <<"users", "{user_id}">>
    <2>1. path \in Seq(Segment)
      BY DEF Segment, PathParams
    <2>5. Len(path) = 2 /\ path[1] = "users"
      OBVIOUS
    <2>2. Routes[4] = On("PUT", path, UpdateUser)
      BY RouteAt
    <2> HIDE DEF path
    <2>3. path \in Seq(Segment) /\ Matches(On("PUT", path, UpdateUser), verb, url)
      BY <1>4, <2>1, <2>2
    <2>4. /\ verb = "PUT" /\ Len(url) = 2 + Len(path)
          /\ Len(path) >= 1 => path[1] \in PathParams \/ url[3] = path[1]
          /\ Len(path) >= 2 => path[2] \in PathParams \/ url[4] = path[2]
          /\ Len(path) >= 3 => path[3] \in PathParams \/ url[5] = path[3]
      BY <2>3, FitsPath
    <2>6. path[1] \notin PathParams
      BY <2>5 DEF PathParams
    <2> QED
      BY <2>4, <2>5, <2>6
  <1>5. ASSUME Matches(Routes[5], verb, url)
        PROVE  verb = "POST" /\ Len(url) = 3 /\ url[3] = "products"
    <2> DEFINE path == <<"products">>
    <2>1. path \in Seq(Segment)
      BY DEF Segment, PathParams
    <2>5. Len(path) = 1 /\ path[1] = "products"
      OBVIOUS
    <2>2. Routes[5] = On("POST", path, CreateProduct)
      BY RouteAt
    <2> HIDE DEF path
    <2>3. path \in Seq(Segment) /\ Matches(On("POST", path, CreateProduct), verb, url)
      BY <1>5, <2>1, <2>2
    <2>4. /\ verb = "POST" /\ Len(url) = 2 + Len(path)
          /\ Len(path) >= 1 => path[1] \in PathParams \/ url[3] = path[1]
          /\ Len(path) >= 2 => path[2] \in PathParams \/ url[4] = path[2]
          /\ Len(path) >= 3 => path[3] \in PathParams \/ url[5] = path[3]
      BY <2>3, FitsPath
    <2>6. path[1] \notin PathParams
      BY <2>5 DEF PathParams
    <2> QED
      BY <2>4, <2>5, <2>6
  <1>6. ASSUME Matches(Routes[6], verb, url)
        PROVE  verb = "GET" /\ Len(url) = 4 /\ url[3] = "products"
    <2> DEFINE path == <<"products", "{product_id}">>
    <2>1. path \in Seq(Segment)
      BY DEF Segment, PathParams
    <2>5. Len(path) = 2 /\ path[1] = "products"
      OBVIOUS
    <2>2. Routes[6] = On("GET", path, GetProduct)
      BY RouteAt
    <2> HIDE DEF path
    <2>3. path \in Seq(Segment) /\ Matches(On("GET", path, GetProduct), verb, url)
      BY <1>6, <2>1, <2>2
    <2>4. /\ verb = "GET" /\ Len(url) = 2 + Len(path)
          /\ Len(path) >= 1 => path[1] \in PathParams \/ url[3] = path[1]
          /\ Len(path) >= 2 => path[2] \in PathParams \/ url[4] = path[2]
          /\ Len(path) >= 3 => path[3] \in PathParams \/ url[5] = path[3]
      BY <2>3, FitsPath
    <2>6. path[1] \notin PathParams
      BY <2>5 DEF PathParams
    <2> QED
      BY <2>4, <2>5, <2>6
  <1>7. ASSUME Matches(Routes[7], verb, url)
        PROVE  verb = "GET" /\ Len(url) = 3 /\ url[3] = "products"
    <2> DEFINE path == <<"products">>
    <2>1. path \in Seq(Segment)
      BY DEF Segment, PathParams
    <2>5. Len(path) = 1 /\ path[1] = "products"
      OBVIOUS
    <2>2. Routes[7] = On("GET", path, ListProducts)
      BY RouteAt
    <2> HIDE DEF path
    <2>3. path \in Seq(Segment) /\ Matches(On("GET", path, ListProducts), verb, url)
      BY <1>7, <2>1, <2>2
    <2>4. /\ verb = "GET" /\ Len(url) = 2 + Len(path)
          /\ Len(path) >= 1 => path[1] \in PathParams \/ url[3] = path[1]
          /\ Len(path) >= 2 => path[2] \in PathParams \/ url[4] = path[2]
          /\ Len(path) >= 3 => path[3] \in PathParams \/ url[5] = path[3]
      BY <2>3, FitsPath
    <2>6. path[1] \notin PathParams
      BY <2>5 DEF PathParams
    <2> QED
      BY <2>4, <2>5, <2>6
  <1>8. ASSUME Matches(Routes[8], verb, url)
        PROVE  verb = "PUT" /\ Len(url) = 4 /\ url[3] = "products"
    <2> DEFINE path == <<"products", "{product_id}">>
    <2>1. path \in Seq(Segment)
      BY DEF Segment, PathParams
    <2>5. Len(path) = 2 /\ path[1] = "products"
      OBVIOUS
    <2>2. Routes[8] = On("PUT", path, UpdateProduct)
      BY RouteAt
    <2> HIDE DEF path
    <2>3. path \in Seq(Segment) /\ Matches(On("PUT", path, UpdateProduct), verb, url)
      BY <1>8, <2>1, <2>2
    <2>4. /\ verb = "PUT" /\ Len(url) = 2 + Len(path)
          /\ Len(path) >= 1 => path[1] \in PathParams \/ url[3] = path[1]
          /\ Len(path) >= 2 => path[2] \in PathParams \/ url[4] = path[2]
          /\ Len(path) >= 3 => path[3] \in PathParams \/ url[5] = path[3]
      BY <2>3, FitsPath
    <2>6. path[1] \notin PathParams
      BY <2>5 DEF PathParams
    <2> QED
      BY <2>4, <2>5, <2>6
  <1>9. ASSUME Matches(Routes[9], verb, url)
        PROVE  verb = "PUT" /\ Len(url) = 5 /\ url[3] = "products" /\ url[5] = "inventory"
    <2> DEFINE path == <<"products", "{product_id}", "inventory">>
    <2>1. path \in Seq(Segment)
      BY DEF Segment, PathParams
    <2>5. Len(path) = 3 /\ path[1] = "products" /\ path[3] = "inventory"
      OBVIOUS
    <2>2. Routes[9] = On("PUT", path, UpdateInventory)
      BY RouteAt
    <2> HIDE DEF path
    <2>3. path \in Seq(Segment) /\ Matches(On("PUT", path, UpdateInventory), verb, url)
      BY <1>9, <2>1, <2>2
    <2>4. /\ verb = "PUT" /\ Len(url) = 2 + Len(path)
          /\ Len(path) >= 1 => path[1] \in PathParams \/ url[3] = path[1]
          /\ Len(path) >= 2 => path[2] \in PathParams \/ url[4] = path[2]
          /\ Len(path) >= 3 => path[3] \in PathParams \/ url[5] = path[3]
      BY <2>3, FitsPath
    <2>6. path[1] \notin PathParams /\ path[3] \notin PathParams
      BY <2>5 DEF PathParams
    <2> QED
      BY <2>4, <2>5, <2>6
  <1>10. ASSUME Matches(Routes[10], verb, url)
        PROVE  verb = "POST" /\ Len(url) = 3 /\ url[3] = "orders"
    <2> DEFINE path == <<"orders">>
    <2>1. path \in Seq(Segment)
      BY DEF Segment, PathParams
    <2>5. Len(path) = 1 /\ path[1] = "orders"
      OBVIOUS
    <2>2. Routes[10] = On("POST", path, PlaceOrder)
      BY RouteAt
    <2> HIDE DEF path
    <2>3. path \in Seq(Segment) /\ Matches(On("POST", path, PlaceOrder), verb, url)
      BY <1>10, <2>1, <2>2
    <2>4. /\ verb = "POST" /\ Len(url) = 2 + Len(path)
          /\ Len(path) >= 1 => path[1] \in PathParams \/ url[3] = path[1]
          /\ Len(path) >= 2 => path[2] \in PathParams \/ url[4] = path[2]
          /\ Len(path) >= 3 => path[3] \in PathParams \/ url[5] = path[3]
      BY <2>3, FitsPath
    <2>6. path[1] \notin PathParams
      BY <2>5 DEF PathParams
    <2> QED
      BY <2>4, <2>5, <2>6
  <1>11. ASSUME Matches(Routes[11], verb, url)
        PROVE  verb = "POST" /\ Len(url) = 5 /\ url[3] = "orders" /\ url[5] = "cancel"
    <2> DEFINE path == <<"orders", "{order_id}", "cancel">>
    <2>1. path \in Seq(Segment)
      BY DEF Segment, PathParams
    <2>5. Len(path) = 3 /\ path[1] = "orders" /\ path[3] = "cancel"
      OBVIOUS
    <2>2. Routes[11] = On("POST", path, CancelOrder)
      BY RouteAt
    <2> HIDE DEF path
    <2>3. path \in Seq(Segment) /\ Matches(On("POST", path, CancelOrder), verb, url)
      BY <1>11, <2>1, <2>2
    <2>4. /\ verb = "POST" /\ Len(url) = 2 + Len(path)
          /\ Len(path) >= 1 => path[1] \in PathParams \/ url[3] = path[1]
          /\ Len(path) >= 2 => path[2] \in PathParams \/ url[4] = path[2]
          /\ Len(path) >= 3 => path[3] \in PathParams \/ url[5] = path[3]
      BY <2>3, FitsPath
    <2>6. path[1] \notin PathParams /\ path[3] \notin PathParams
      BY <2>5 DEF PathParams
    <2> QED
      BY <2>4, <2>5, <2>6
  <1>12. ASSUME Matches(Routes[12], verb, url)
        PROVE  verb = "GET" /\ Len(url) = 4 /\ url[3] = "orders"
    <2> DEFINE path == <<"orders", "{order_id}">>
    <2>1. path \in Seq(Segment)
      BY DEF Segment, PathParams
    <2>5. Len(path) = 2 /\ path[1] = "orders"
      OBVIOUS
    <2>2. Routes[12] = On("GET", path, GetOrder)
      BY RouteAt
    <2> HIDE DEF path
    <2>3. path \in Seq(Segment) /\ Matches(On("GET", path, GetOrder), verb, url)
      BY <1>12, <2>1, <2>2
    <2>4. /\ verb = "GET" /\ Len(url) = 2 + Len(path)
          /\ Len(path) >= 1 => path[1] \in PathParams \/ url[3] = path[1]
          /\ Len(path) >= 2 => path[2] \in PathParams \/ url[4] = path[2]
          /\ Len(path) >= 3 => path[3] \in PathParams \/ url[5] = path[3]
      BY <2>3, FitsPath
    <2>6. path[1] \notin PathParams
      BY <2>5 DEF PathParams
    <2> QED
      BY <2>4, <2>5, <2>6
  <1>13. ASSUME Matches(Routes[13], verb, url)
        PROVE  verb = "GET" /\ Len(url) = 5 /\ url[3] = "users" /\ url[5] = "orders"
    <2> DEFINE path == <<"users", "{user_id}", "orders">>
    <2>1. path \in Seq(Segment)
      BY DEF Segment, PathParams
    <2>5. Len(path) = 3 /\ path[1] = "users" /\ path[3] = "orders"
      OBVIOUS
    <2>2. Routes[13] = On("GET", path, ListOrdersByUser)
      BY RouteAt
    <2> HIDE DEF path
    <2>3. path \in Seq(Segment) /\ Matches(On("GET", path, ListOrdersByUser), verb, url)
      BY <1>13, <2>1, <2>2
    <2>4. /\ verb = "GET" /\ Len(url) = 2 + Len(path)
          /\ Len(path) >= 1 => path[1] \in PathParams \/ url[3] = path[1]
          /\ Len(path) >= 2 => path[2] \in PathParams \/ url[4] = path[2]
          /\ Len(path) >= 3 => path[3] \in PathParams \/ url[5] = path[3]
      BY <2>3, FitsPath
    <2>6. path[1] \notin PathParams /\ path[3] \notin PathParams
      BY <2>5 DEF PathParams
    <2> QED
      BY <2>4, <2>5, <2>6
  <1>14. ASSUME Matches(Routes[14], verb, url)
        PROVE  verb = "GET" /\ Len(url) = 4 /\ url[3] = "payments"
    <2> DEFINE path == <<"payments", "{payment_id}">>
    <2>1. path \in Seq(Segment)
      BY DEF Segment, PathParams
    <2>5. Len(path) = 2 /\ path[1] = "payments"
      OBVIOUS
    <2>2. Routes[14] = On("GET", path, GetPayment)
      BY RouteAt
    <2> HIDE DEF path
    <2>3. path \in Seq(Segment) /\ Matches(On("GET", path, GetPayment), verb, url)
      BY <1>14, <2>1, <2>2
    <2>4. /\ verb = "GET" /\ Len(url) = 2 + Len(path)
          /\ Len(path) >= 1 => path[1] \in PathParams \/ url[3] = path[1]
          /\ Len(path) >= 2 => path[2] \in PathParams \/ url[4] = path[2]
          /\ Len(path) >= 3 => path[3] \in PathParams \/ url[5] = path[3]
      BY <2>3, FitsPath
    <2>6. path[1] \notin PathParams
      BY <2>5 DEF PathParams
    <2> QED
      BY <2>4, <2>5, <2>6
  <1>15. ASSUME Matches(Routes[15], verb, url)
        PROVE  verb = "GET" /\ Len(url) = 5 /\ url[3] = "orders" /\ url[5] = "payments"
    <2> DEFINE path == <<"orders", "{order_id}", "payments">>
    <2>1. path \in Seq(Segment)
      BY DEF Segment, PathParams
    <2>5. Len(path) = 3 /\ path[1] = "orders" /\ path[3] = "payments"
      OBVIOUS
    <2>2. Routes[15] = On("GET", path, ListPaymentsByOrder)
      BY RouteAt
    <2> HIDE DEF path
    <2>3. path \in Seq(Segment) /\ Matches(On("GET", path, ListPaymentsByOrder), verb, url)
      BY <1>15, <2>1, <2>2
    <2>4. /\ verb = "GET" /\ Len(url) = 2 + Len(path)
          /\ Len(path) >= 1 => path[1] \in PathParams \/ url[3] = path[1]
          /\ Len(path) >= 2 => path[2] \in PathParams \/ url[4] = path[2]
          /\ Len(path) >= 3 => path[3] \in PathParams \/ url[5] = path[3]
      BY <2>3, FitsPath
    <2>6. path[1] \notin PathParams /\ path[3] \notin PathParams
      BY <2>5 DEF PathParams
    <2> QED
      BY <2>4, <2>5, <2>6
  <1>16. ASSUME Matches(Routes[16], verb, url)
        PROVE  verb = "POST" /\ Len(url) = 5 /\ url[3] = "payments" /\ url[5] = "refund"
    <2> DEFINE path == <<"payments", "{payment_id}", "refund">>
    <2>1. path \in Seq(Segment)
      BY DEF Segment, PathParams
    <2>5. Len(path) = 3 /\ path[1] = "payments" /\ path[3] = "refund"
      OBVIOUS
    <2>2. Routes[16] = On("POST", path, RefundPayment)
      BY RouteAt
    <2> HIDE DEF path
    <2>3. path \in Seq(Segment) /\ Matches(On("POST", path, RefundPayment), verb, url)
      BY <1>16, <2>1, <2>2
    <2>4. /\ verb = "POST" /\ Len(url) = 2 + Len(path)
          /\ Len(path) >= 1 => path[1] \in PathParams \/ url[3] = path[1]
          /\ Len(path) >= 2 => path[2] \in PathParams \/ url[4] = path[2]
          /\ Len(path) >= 3 => path[3] \in PathParams \/ url[5] = path[3]
      BY <2>3, FitsPath
    <2>6. path[1] \notin PathParams /\ path[3] \notin PathParams
      BY <2>5 DEF PathParams
    <2> QED
      BY <2>4, <2>5, <2>6
  <1> QED
    BY <1>1, <1>2, <1>3, <1>4, <1>5, <1>6, <1>7, <1>8,
       <1>9, <1>10, <1>11, <1>12, <1>13, <1>14, <1>15, <1>16

\* No request fits two routes.
LEMMA OneRoute ==
    ASSUME NEW verb, NEW url, NEW i \in Matching(verb, url), NEW j \in Matching(verb, url)
    PROVE  i = j
  <1>1. /\ i \in 1..16 /\ Matches(Routes[i], verb, url)
        /\ j \in 1..16 /\ Matches(Routes[j], verb, url)
    BY RoutesTable DEF Matching
  <1> QED
    BY <1>1, Fits

LEMMA RouteRpc ==
    ASSUME NEW i \in 1..16
    PROVE  Routes[i].call.rpc \in Rpcs \ ForServices
  <1>1. Routes[1].call = Register
    <2>1. \E v, path : Routes[1] = On(v, path, Register)
      BY RouteAt, Zenon
    <2> QED
      BY <2>1 DEF On
  <1>2. Routes[2].call = Login
    <2>1. \E v, path : Routes[2] = On(v, path, Login)
      BY RouteAt, Zenon
    <2> QED
      BY <2>1 DEF On
  <1>3. Routes[3].call = GetUser
    <2>1. \E v, path : Routes[3] = On(v, path, GetUser)
      BY RouteAt, Zenon
    <2> QED
      BY <2>1 DEF On
  <1>4. Routes[4].call = UpdateUser
    <2>1. \E v, path : Routes[4] = On(v, path, UpdateUser)
      BY RouteAt, Zenon
    <2> QED
      BY <2>1 DEF On
  <1>5. Routes[5].call = CreateProduct
    <2>1. \E v, path : Routes[5] = On(v, path, CreateProduct)
      BY RouteAt, Zenon
    <2> QED
      BY <2>1 DEF On
  <1>6. Routes[6].call = GetProduct
    <2>1. \E v, path : Routes[6] = On(v, path, GetProduct)
      BY RouteAt, Zenon
    <2> QED
      BY <2>1 DEF On
  <1>7. Routes[7].call = ListProducts
    <2>1. \E v, path : Routes[7] = On(v, path, ListProducts)
      BY RouteAt, Zenon
    <2> QED
      BY <2>1 DEF On
  <1>8. Routes[8].call = UpdateProduct
    <2>1. \E v, path : Routes[8] = On(v, path, UpdateProduct)
      BY RouteAt, Zenon
    <2> QED
      BY <2>1 DEF On
  <1>9. Routes[9].call = UpdateInventory
    <2>1. \E v, path : Routes[9] = On(v, path, UpdateInventory)
      BY RouteAt, Zenon
    <2> QED
      BY <2>1 DEF On
  <1>10. Routes[10].call = PlaceOrder
    <2>1. \E v, path : Routes[10] = On(v, path, PlaceOrder)
      BY RouteAt, Zenon
    <2> QED
      BY <2>1 DEF On
  <1>11. Routes[11].call = CancelOrder
    <2>1. \E v, path : Routes[11] = On(v, path, CancelOrder)
      BY RouteAt, Zenon
    <2> QED
      BY <2>1 DEF On
  <1>12. Routes[12].call = GetOrder
    <2>1. \E v, path : Routes[12] = On(v, path, GetOrder)
      BY RouteAt, Zenon
    <2> QED
      BY <2>1 DEF On
  <1>13. Routes[13].call = ListOrdersByUser
    <2>1. \E v, path : Routes[13] = On(v, path, ListOrdersByUser)
      BY RouteAt, Zenon
    <2> QED
      BY <2>1 DEF On
  <1>14. Routes[14].call = GetPayment
    <2>1. \E v, path : Routes[14] = On(v, path, GetPayment)
      BY RouteAt, Zenon
    <2> QED
      BY <2>1 DEF On
  <1>15. Routes[15].call = ListPaymentsByOrder
    <2>1. \E v, path : Routes[15] = On(v, path, ListPaymentsByOrder)
      BY RouteAt, Zenon
    <2> QED
      BY <2>1 DEF On
  <1>16. Routes[16].call = RefundPayment
    <2>1. \E v, path : Routes[16] = On(v, path, RefundPayment)
      BY RouteAt, Zenon
    <2> QED
      BY <2>1 DEF On
  <1>17. \A rpc : Calls(rpc).rpc = rpc /\ CallsWithBody(rpc).rpc = rpc
    BY DEF Calls, CallsWithBody
  <1>18. /\ Register.rpc \in Rpcs \ ForServices
        /\ Login.rpc \in Rpcs \ ForServices
        /\ GetUser.rpc \in Rpcs \ ForServices
        /\ UpdateUser.rpc \in Rpcs \ ForServices
    BY <1>17 DEF Register, Login, GetUser, UpdateUser,
           Rpcs, ForServices, UserService, ProductService, OrderCommandService,
           OrderQueryService, PaymentService
  <1>19. /\ CreateProduct.rpc \in Rpcs \ ForServices
        /\ GetProduct.rpc \in Rpcs \ ForServices
        /\ ListProducts.rpc \in Rpcs \ ForServices
        /\ UpdateProduct.rpc \in Rpcs \ ForServices
        /\ UpdateInventory.rpc \in Rpcs \ ForServices
    BY <1>17 DEF CreateProduct, GetProduct, ListProducts, UpdateProduct, UpdateInventory,
           Rpcs, ForServices, UserService, ProductService, OrderCommandService,
           OrderQueryService, PaymentService
  <1>20. /\ PlaceOrder.rpc \in Rpcs \ ForServices
        /\ CancelOrder.rpc \in Rpcs \ ForServices
        /\ GetOrder.rpc \in Rpcs \ ForServices
        /\ ListOrdersByUser.rpc \in Rpcs \ ForServices
    BY <1>17 DEF PlaceOrder, CancelOrder, GetOrder, ListOrdersByUser,
           Rpcs, ForServices, UserService, ProductService, OrderCommandService,
           OrderQueryService, PaymentService
  <1>21. /\ GetPayment.rpc \in Rpcs \ ForServices
        /\ ListPaymentsByOrder.rpc \in Rpcs \ ForServices
        /\ RefundPayment.rpc \in Rpcs \ ForServices
    BY <1>17 DEF GetPayment, ListPaymentsByOrder, RefundPayment,
           Rpcs, ForServices, UserService, ProductService, OrderCommandService,
           OrderQueryService, PaymentService
  <1> QED
    BY <1>1, <1>2, <1>3, <1>4, <1>5, <1>6, <1>7, <1>8, <1>9, <1>10, <1>11, <1>12,
       <1>13, <1>14, <1>15, <1>16, <1>18, <1>19, <1>20, <1>21

\* What a request is dispatched to is what it fits.
LEMMA RightRpc ==
    ASSUME NEW verb, NEW url, NEW c \in Dispatch(verb, url)
    PROVE  /\ c.rpc \in Rpcs \ ForServices
           /\ {Routes[i].call.rpc : i \in Matching(verb, url)} = {c.rpc}
  <1>1. PICK i \in Matching(verb, url) : c = Routes[i].call
    BY DEF Dispatch
  <1>2. i \in 1..16 /\ \A j \in Matching(verb, url) : j = i
    BY <1>1, OneRoute, RoutesTable DEF Matching
  <1> QED
    BY <1>1, <1>2, RouteRpc

-----------------------------------------------------------------------------
(* The invariant *)

\* The ids of the accounts were drawn, an address has one account, and a token names an
\* account by its secret.
AccountsInv ==
    /\ IsFiniteSet(issued)
    /\ DOMAIN users \subseteq 1..drawn
    /\ \A i, j \in DOMAIN users : users[i].email = users[j].email => i = j
    /\ \A t \in issued : Exists(t.user) /\ users[t.user].secret = t.secret

\* A Register between its check and its insert has an id that no row and no other has.
Inserting(r) == call[r].pc = "writing" /\ call[r].rpc = "UserService/Register"

InsertInv ==
    /\ \A r \in Callers : Inserting(r) =>
          call[r].id \in 1..drawn /\ call[r].id \notin DOMAIN users /\ call[r].email # ""
    /\ \A r, s \in Callers :
          Inserting(r) /\ Inserting(s) /\ call[r].id = call[s].id => r = s

\* Every request draws an id once at most.
BeforeDraw == {"auth", "resolving", "validating", "handling"}
Undrawn == {r \in Callers : call[r].pc \in BeforeDraw}

DrawnInv == IsFiniteSet(Undrawn) /\ drawn + Cardinality(Undrawn) <= calls

\* An answer of r is true of the table.
AnswerTrue(r) ==
    /\ Answering(r, "UserService/Register", "OK") =>
          call[r].id \in DOMAIN users /\ users[call[r].id].email = call[r].email
    /\ Answering(r, "UserService/Register", "AlreadyExists") =>
          \E id \in DOMAIN users : users[id].email = call[r].email
    /\ Answering(r, "UserService/Register", "Internal") /\ faults = 0 =>
          \E id \in DOMAIN users : id # call[r].id /\ users[id].email = call[r].email
    /\ Answering(r, "UserService/Login", "OK") =>
          /\ call[r].token.user \in DOMAIN users
          /\ users[call[r].token.user].email = call[r].email

\* The token of r is one of the issued when it is looked up, and is refused for a reason.
TokenRight(r) ==
    /\ call[r].pc \in {"resolving", "validating"} => call[r].token \in issued
    /\ call[r].pc = "validating" => call[r].secret = call[r].token.secret
    /\ call[r].rpc # "UserService/Login" /\ call[r].pc = "replying"
             /\ call[r].code = "Unauthenticated" /\ call[r].token \in issued \ expired
          => call[r].hit

\* r is at the RPC its request fits.
Fitted(q) == {Routes[i].call.rpc : i \in Matching(q.verb, q.url)}

RouteRight(r) ==
    call[r].pc # "none" =>
        call[r].rpc \notin ForServices /\ (Awaited(r) => Fitted(http[r]) = {call[r].rpc})

\* Only a failure makes a client leave before its answer.
GoneRight(r) == call[r].pc # "none" /\ ~Awaited(r) => faults > 0

CallRight(r) == AnswerTrue(r) /\ TokenRight(r) /\ RouteRight(r) /\ GoneRight(r)

RequestInv == TypeOK /\ AccountsInv /\ InsertInv /\ DrawnInv /\ \A r \in Callers : CallRight(r)

-----------------------------------------------------------------------------
(* What holds of the accounts goes on to hold *)

\* Rows, tokens, draws and failures are only ever added, and a row keeps its address and
\* its secret.
Grows ==
    /\ issued \subseteq issued' /\ expired \subseteq expired'
    /\ drawn' \in Nat /\ drawn <= drawn'
    /\ faults' \in Nat /\ faults <= faults'
    /\ \A id \in DOMAIN users :
          /\ id \in DOMAIN users'
          /\ users'[id].email = users[id].email /\ users'[id].secret = users[id].secret

LEMMA Numbers ==
    TypeOK => /\ drawn \in Nat /\ calls \in Nat /\ MaxCalls \in Nat
              /\ faults \in Nat /\ MaxFaults \in Nat
  BY RequestsAssumption, FaultsAssumption DEF TypeOK, FaultsType

LEMMA FaultCounted ==
    ASSUME TypeOK, NEW kind, NoFault \/ Fault(kind)
    PROVE  FaultsType' /\ faults' \in Nat /\ faults <= faults'
  BY Numbers DEF TypeOK, FaultsType, NoFault, Fault

LEMMA SameAccounts ==
    ASSUME TypeOK, AccountsInv, UNCHANGED accounts, drawn' \in Nat, drawn <= drawn',
           faults' \in Nat, faults <= faults'
    PROVE  Grows /\ AccountsType' /\ AccountsInv'
  BY Numbers DEF TypeOK, AccountsType, AccountsInv, accounts, Grows, Exists

LEMMA CreateAdds ==
    ASSUME TypeOK, AccountsInv, NEW id \in 1..drawn, id \notin DOMAIN users,
           NEW email \in Emails, Create(id, email), drawn' = drawn,
           faults' \in Nat, faults <= faults'
    PROVE  /\ Grows /\ AccountsType' /\ AccountsInv'
           /\ DOMAIN users' = DOMAIN users \cup {id} /\ users'[id].email = email
  <1>1. /\ DOMAIN users' = DOMAIN users \cup {id}
        /\ users'[id] = [email |-> email, secret |-> id, renamed |-> FALSE]
        /\ \A u \in DOMAIN users : users'[u] = users[u]
        /\ users' = [u \in DOMAIN users' |-> users'[u]]
        /\ issued' = issued /\ expired' = expired
    BY DEF Create
  <1>2. id \in Nat /\ drawn \in Nat
    BY Numbers
  <1>3. AccountsType'
    <2>1. \A u \in DOMAIN users : users'[u] \in Row
      BY <1>1 DEF TypeOK, AccountsType
    <2>2. users'[id] \in Row
      BY <1>1, <1>2 DEF Row
    <2> QED
      BY <1>1, <1>2, <2>1, <2>2 DEF TypeOK, AccountsType
  <1>4. Grows
    BY <1>1, <1>2 DEF Grows
  <1>5. \A u \in DOMAIN users : users[u].email # email
    BY DEF Create, Registered
  <1>6. AccountsInv'
    BY <1>1, <1>2, <1>5 DEF AccountsInv, Exists
  <1> QED
    BY <1>1, <1>3, <1>4, <1>6

LEMMA UpdateKeeps ==
    ASSUME TypeOK, AccountsInv, NEW id, Update(id), drawn' = drawn,
           faults' \in Nat, faults <= faults'
    PROVE  Grows /\ AccountsType' /\ AccountsInv' /\ DOMAIN users' = DOMAIN users
  <1>1. /\ DOMAIN users' = DOMAIN users
        /\ \A u \in DOMAIN users : /\ users'[u] \in Row
                                   /\ users'[u].email = users[u].email
                                   /\ users'[u].secret = users[u].secret
        /\ users' = [u \in DOMAIN users' |-> users'[u]]
        /\ issued' = issued /\ expired' = expired
    BY DEF Update, TypeOK, AccountsType, Row
  <1>2. AccountsType'
    BY <1>1 DEF TypeOK, AccountsType
  <1>3. Grows /\ AccountsInv'
    BY <1>1, Numbers DEF Grows, AccountsInv, Exists
  <1> QED
    BY <1>1, <1>2, <1>3

LEMMA GenerateAdds ==
    ASSUME TypeOK, AccountsInv, NEW id \in DOMAIN users, Generate(id), drawn' = drawn,
           faults' \in Nat, faults <= faults'
    PROVE  /\ Grows /\ AccountsType' /\ AccountsInv' /\ users' = users
           /\ Signed(id) \in issued' /\ Signed(id).user = id
  <1>1. /\ users' = users /\ expired' = expired /\ issued' = issued \cup {Signed(id)}
        /\ Signed(id).user = id /\ Signed(id).secret = users[id].secret
    BY DEF Generate, Signed
  <1>2. IsFiniteSet(issued) /\ IsFiniteSet(issued')
    BY <1>1, FS_AddElement DEF AccountsInv
  <1>3. Cardinality(issued) + 1 \in Nat
    BY <1>2, FS_CardinalityType
  <1>4. Signed(id) \in Token
    BY <1>3 DEF Signed, Token, TypeOK, AccountsType, Row
  <1>5. AccountsType'
    BY <1>1, <1>4 DEF TypeOK, AccountsType
  <1>6. AccountsInv'
    BY <1>1, <1>2 DEF AccountsInv, Exists
  <1>7. Grows
    BY <1>1, Numbers DEF Grows
  <1> QED
    BY <1>1, <1>5, <1>6, <1>7

LEMMA ExpireKeeps ==
    ASSUME TypeOK, AccountsInv, NEW t, Expire(t), drawn' = drawn, faults' = faults
    PROVE  Grows /\ AccountsType' /\ AccountsInv' /\ DOMAIN users' = DOMAIN users
  BY Numbers DEF TypeOK, AccountsType, AccountsInv, Expire, Grows, Exists

\* The row GetByEmail finds is of the address.
LEMMA ByEmailFinds ==
    ASSUME NEW email, Registered(email)
    PROVE  ByEmail(email) \in DOMAIN users /\ users[ByEmail(email)].email = email
  BY DEF Registered, ByEmail

-----------------------------------------------------------------------------
(* What holds of the calls goes on to hold *)

LEMMA CallTypeGrows ==
    ASSUME TypeOK, Grows, NEW c \in CallType
    PROVE  c \in CallType'
  <1>1. 0..drawn \subseteq 0..drawn' /\ issued \subseteq issued'
    BY Numbers DEF Grows
  <1> QED
    BY <1>1 DEF CallType

LEMMA NoCallType ==
    drawn \in Nat => NoCall \in CallType
  BY DEF NoCall, CallType, Pcs, Codes

\* A caller whose call does not move, and who still waits or has left after a failure.
LEMMA CallerStays ==
    ASSUME RequestInv, Grows, AccountsType', NEW s \in Callers, call'[s] = call[s],
           http'[s] = http[s] \/ (http'[s] = NoRequest /\ faults' > 0)
    PROVE  CallRight(s)'
  <1>1. call[s] \in CallType /\ CallRight(s) /\ TypeOK
    BY DEF RequestInv, TypeOK
  <1>2. AnswerTrue(s)'
    <2>1. Answering(s, "UserService/Register", "OK")' => call[s].id \in DOMAIN users
      BY <1>1 DEF CallRight, AnswerTrue, Answering
    <2>2. faults' = 0 => faults = 0
      BY <1>1, Numbers DEF Grows
    <2> QED
      BY <1>1, <2>1, <2>2 DEF CallRight, AnswerTrue, Answering, Grows
  <1>3. TokenRight(s)'
    <2>1. call[s].token \in issued \cup {NoToken, Garbled}
      BY <1>1 DEF CallType
    <2>2. NoToken \notin issued' /\ Garbled \notin issued'
      BY RequestsAssumption DEF AccountsType
    <2> QED
      BY <1>1, <2>1, <2>2 DEF CallRight, TokenRight, Grows
  <1>4. RouteRight(s)'
    BY <1>1 DEF CallRight, RouteRight, Awaited
  <1>5. GoneRight(s)'
    BY <1>1, Numbers DEF CallRight, GoneRight, Awaited, Grows
  <1> QED
    BY <1>2, <1>3, <1>4, <1>5 DEF CallRight

LEMMA InsertKept ==
    ASSUME TypeOK, InsertInv, Grows, NEW r \in Callers, NEW rec,
           call' = [call EXCEPT ![r] = rec],
           ~(rec.pc = "writing" /\ rec.rpc = "UserService/Register"),
           \A id \in DOMAIN users' : id \in DOMAIN users \/ (Inserting(r) /\ id = call[r].id)
    PROVE  InsertInv'
  <1>1. call'[r] = rec /\ \A s \in Callers : s # r => call'[s] = call[s]
    BY DEF TypeOK
  <1>2. ~Inserting(r)' /\ \A s \in Callers : s # r => (Inserting(s)' <=> Inserting(s))
    BY <1>1 DEF Inserting
  <1>3. 1..drawn \subseteq 1..drawn'
    BY Numbers DEF Grows
  <1> QED
    BY <1>1, <1>2, <1>3 DEF InsertInv

LEMMA DrawnKept ==
    ASSUME TypeOK, DrawnInv, drawn' = drawn, calls' = calls, Undrawn' \subseteq Undrawn
    PROVE  DrawnInv'
  <1>1. IsFiniteSet(Undrawn') /\ Cardinality(Undrawn') <= Cardinality(Undrawn)
    BY FS_Subset DEF DrawnInv
  <1>2. Cardinality(Undrawn) \in Nat /\ Cardinality(Undrawn') \in Nat
    BY <1>1, FS_CardinalityType DEF DrawnInv
  <1> QED
    BY <1>1, <1>2, Numbers DEF DrawnInv

LEMMA DrawnBounded ==
    ASSUME DrawnInv, drawn \in Nat, calls \in Nat
    PROVE  drawn \in 0..calls
  <1>1. Cardinality(Undrawn) \in Nat
    BY FS_CardinalityType DEF DrawnInv
  <1> QED
    BY <1>1 DEF DrawnInv

\* One call moves, the others stay: what is left to show of a step of the services.
LEMMA OneMoves ==
    ASSUME RequestInv, Grows, AccountsType', AccountsInv', FaultsType',
           NEW r \in Callers, NEW rec \in CallType', rec.pc # "none" => rec.rpc \in Rpcs,
           call' = [call EXCEPT ![r] = rec], UNCHANGED <<up, http, calls>>,
           InsertInv', DrawnInv', CallRight(r)'
    PROVE  RequestInv'
  <1>1. TypeOK /\ calls' \in Nat
    BY Numbers DEF RequestInv
  <1>2. call'[r] = rec /\ \A s \in Callers : s # r => call'[s] = call[s]
    BY <1>1 DEF TypeOK
  <1>3. drawn' \in 0..calls'
    <2>1. drawn \in Nat /\ calls \in Nat /\ DrawnInv => drawn \in 0..calls
      BY DrawnBounded
    <2>2. (drawn \in Nat /\ calls \in Nat /\ DrawnInv => drawn \in 0..calls)'
      BY DrawnBounded, PTL
    <2> QED
      BY <1>1, <2>2 DEF Grows
  <1>4. \A c \in CallType : c \in CallType'
    BY <1>1, CallTypeGrows
  <1>5. call' \in [Callers -> CallType']
    BY <1>1, <1>4 DEF TypeOK
  <1>6. TypeOK'
    BY <1>1, <1>2, <1>3, <1>5 DEF TypeOK
  <1>7. \A s \in Callers : CallRight(s)'
    BY <1>2, CallerStays
  <1> QED
    BY <1>6, <1>7 DEF RequestInv

\* A step of a call that draws nothing.
LEMMA MovesOn ==
    ASSUME RequestInv, Grows, AccountsType', AccountsInv', FaultsType', drawn' = drawn,
           NEW r \in Callers, call[r].pc # "none", NEW rec \in CallType',
           call' = [call EXCEPT ![r] = rec], UNCHANGED <<up, http, calls>>,
           rec.rpc = call[r].rpc,
           ~(rec.pc = "writing" /\ rec.rpc = "UserService/Register"),
           rec.pc \in BeforeDraw => call[r].pc \in BeforeDraw,
           \A id \in DOMAIN users' : id \in DOMAIN users \/ (Inserting(r) /\ id = call[r].id),
           AnswerTrue(r)', TokenRight(r)'
    PROVE  RequestInv'
  <1>1. TypeOK /\ InsertInv /\ DrawnInv /\ CallRight(r)
    BY DEF RequestInv
  <1>2. call'[r] = rec /\ \A s \in Callers : s # r => call'[s] = call[s]
    BY <1>1 DEF TypeOK
  <1>3. InsertInv'
    BY <1>1, InsertKept
  <1>4. Undrawn' \subseteq Undrawn
    BY <1>2 DEF Undrawn
  <1>5. DrawnInv'
    BY <1>1, <1>4, DrawnKept
  <1>6. RouteRight(r)' /\ GoneRight(r)'
    <2>1. http'[r] = http[r] /\ call'[r].rpc = call[r].rpc
      BY <1>2
    <2> QED
      BY <1>1, <2>1, Numbers DEF CallRight, RouteRight, GoneRight, Awaited, Grows
  <1>7. CallRight(r)' /\ rec.rpc \in Rpcs
    BY <1>1, <1>6 DEF CallRight, TypeOK
  <1> QED
    BY <1>3, <1>5, <1>7, OneMoves

\* The accounts are as they were.
LEMMA Resting ==
    ASSUME RequestInv, UNCHANGED accounts, drawn' = drawn, NEW kind, NoFault \/ Fault(kind)
    PROVE  /\ Grows /\ AccountsType' /\ AccountsInv' /\ FaultsType' /\ DOMAIN users' = DOMAIN users
  <1>1. TypeOK /\ AccountsInv
    BY DEF RequestInv
  <1>2. FaultsType' /\ faults' \in Nat /\ faults <= faults'
    BY <1>1, FaultCounted
  <1>3. Grows /\ AccountsType' /\ AccountsInv'
    BY <1>1, <1>2, SameAccounts, Numbers
  <1> QED
    BY <1>2, <1>3 DEF accounts

\* A call that goes on to the next of its steps.
LEMMA Advance ==
    ASSUME RequestInv, NEW r \in Callers, NEW pc \in Pcs \ {"none", "validating", "replying"},
           Advances(r, pc), NoFault, UNCHANGED accounts, call[r].pc # "none",
           pc \in BeforeDraw => call[r].pc \in BeforeDraw,
           pc = "writing" => call[r].rpc # "UserService/Register",
           pc = "resolving" => call[r].token \in issued
    PROVE  RequestInv'
  <1> DEFINE rec == [call[r] EXCEPT !.pc = pc]
  <1>1. /\ call' = [call EXCEPT ![r] = rec] /\ UNCHANGED <<up, http, calls>> /\ drawn' = drawn
    BY DEF Advances, Goes
  <1>2. TypeOK /\ call[r] \in CallType
    BY DEF RequestInv, TypeOK
  <1>3. /\ Grows /\ AccountsType' /\ AccountsInv' /\ FaultsType' /\ DOMAIN users' = DOMAIN users
    BY <1>1, Resting
  <1>4. rec \in CallType /\ rec.pc = pc /\ rec.rpc = call[r].rpc /\ rec.token = call[r].token
    BY <1>2 DEF CallType
  <1>5. rec \in CallType'
    BY <1>2, <1>3, <1>4, CallTypeGrows
  <1> HIDE DEF rec
  <1>6. call'[r] = rec
    BY <1>1, <1>2 DEF TypeOK
  <1>7. AnswerTrue(r)'
    BY <1>4, <1>6 DEF AnswerTrue, Answering
  <1>8. TokenRight(r)'
    BY <1>3, <1>4, <1>6 DEF TokenRight, Grows
  <1> QED
    BY <1>1, <1>3, <1>4, <1>5, <1>7, <1>8, MovesOn

\* A call that has its answer, by itself or after a failure.
FailsWith(r, code) == Goes(r, [call[r] EXCEPT !.pc = "replying", !.code = code, !.hit = TRUE])

LEMMA Answers ==
    ASSUME RequestInv, Grows, AccountsType', AccountsInv', FaultsType',
           NEW r \in Callers, call[r].pc # "none",
           NEW code \in Codes, Ends(r, code) \/ FailsWith(r, code),
           \A id \in DOMAIN users' : id \in DOMAIN users \/ (Inserting(r) /\ id = call[r].id),
           call[r].rpc = "UserService/Register" /\ code = "OK" =>
               call[r].id \in DOMAIN users' /\ users'[call[r].id].email = call[r].email,
           call[r].rpc = "UserService/Register" /\ code = "AlreadyExists" =>
               \E id \in DOMAIN users' : users'[id].email = call[r].email,
           call[r].rpc = "UserService/Register" /\ code = "Internal" /\ faults' = 0 =>
               \E id \in DOMAIN users' : id # call[r].id /\ users'[id].email = call[r].email,
           call[r].rpc = "UserService/Login" => code # "OK",
           code = "Unauthenticated" /\ call[r].rpc # "UserService/Login" /\ ~FailsWith(r, code) =>
               call[r].token \notin issued' \ expired'
    PROVE  RequestInv'
  <1>1. TypeOK /\ call[r] \in CallType
    BY DEF RequestInv, TypeOK
  <1>2. PICK rec \in CallType :
          /\ call' = [call EXCEPT ![r] = rec] /\ rec.pc = "replying" /\ rec.code = code
          /\ rec.rpc = call[r].rpc /\ rec.email = call[r].email /\ rec.id = call[r].id
          /\ rec.token = call[r].token /\ (FailsWith(r, code) => rec.hit)
    <2>1. CASE FailsWith(r, code)
      <3> DEFINE rec == [call[r] EXCEPT !.pc = "replying", !.code = code, !.hit = TRUE]
      <3>1. rec \in CallType /\ rec.pc = "replying" /\ rec.code = code
            /\ rec.rpc = call[r].rpc /\ rec.email = call[r].email /\ rec.id = call[r].id
            /\ rec.token = call[r].token /\ rec.hit
        BY <1>1 DEF CallType, Pcs
      <3>2. call' = [call EXCEPT ![r] = rec]
        BY <2>1 DEF FailsWith, Goes
      <3> HIDE DEF rec
      <3> QED
        BY <3>1, <3>2
    <2>2. CASE Ends(r, code) /\ ~FailsWith(r, code)
      <3> DEFINE rec == [call[r] EXCEPT !.pc = "replying", !.code = code]
      <3>1. rec \in CallType /\ rec.pc = "replying" /\ rec.code = code
            /\ rec.rpc = call[r].rpc /\ rec.email = call[r].email /\ rec.id = call[r].id
            /\ rec.token = call[r].token
        BY <1>1 DEF CallType, Pcs
      <3>2. call' = [call EXCEPT ![r] = rec]
        BY <2>2 DEF Ends, Goes
      <3> HIDE DEF rec
      <3> QED
        BY <3>1, <3>2, <2>2
    <2> QED
      BY <2>1, <2>2
  <1>3. UNCHANGED <<up, http, calls>> /\ drawn' = drawn
    BY DEF Ends, FailsWith, Goes
  <1>4. call'[r] = rec
    BY <1>1, <1>2 DEF TypeOK
  <1>5. AnswerTrue(r)'
    BY <1>2, <1>4 DEF AnswerTrue, Answering
  <1>6. TokenRight(r)'
    BY <1>2, <1>4 DEF TokenRight
  <1>7. rec \in CallType'
    BY <1>1, <1>2, CallTypeGrows
  <1> QED
    BY <1>2, <1>3, <1>5, <1>6, <1>7, MovesOn DEF BeforeDraw

\* After a failed access the client has left, or the failure counts.
LEMMA FailureCounts ==
    ASSUME RequestInv, NEW r \in Callers, call[r].pc # "none", NEW code, EndsFailed(r, code)
    PROVE  /\ FailsWith(r, code) /\ FaultsType' /\ faults' \in Nat /\ faults <= faults' /\ faults' # 0
           /\ drawn' = drawn
  <1>1. TypeOK /\ GoneRight(r)
    BY DEF RequestInv, CallRight
  <1>2. CASE Awaited(r)
    BY <1>1, <1>2, Numbers DEF EndsFailed, FailsWith, Goes, Fault, TypeOK, FaultsType
  <1>3. CASE ~Awaited(r)
    BY <1>1, <1>3, Numbers DEF EndsFailed, FailsWith, Goes, NoFault, TypeOK, FaultsType, GoneRight
  <1> QED
    BY <1>2, <1>3

-----------------------------------------------------------------------------
(* The steps of a call *)

\* A call ends with an error, the accounts as they were and no failure.
LEMMA EndsResting ==
    ASSUME RequestInv, NEW r \in Callers, call[r].pc # "none", NEW code \in Codes,
           Ends(r, code) \/ FailsWith(r, code), UNCHANGED accounts,
           NEW kind, NoFault \/ Fault(kind), UNCHANGED faults \/ faults' # 0,
           call[r].rpc = "UserService/Register" => code # "OK",
           call[r].rpc = "UserService/Register" /\ code = "AlreadyExists" =>
               \E id \in DOMAIN users : users[id].email = call[r].email,
           call[r].rpc = "UserService/Register" /\ code = "Internal" /\ faults' = 0 =>
               \E id \in DOMAIN users : id # call[r].id /\ users[id].email = call[r].email,
           call[r].rpc = "UserService/Login" => code # "OK",
           code = "Unauthenticated" /\ call[r].rpc # "UserService/Login" /\ ~FailsWith(r, code) =>
               call[r].token \notin issued \ expired
    PROVE  RequestInv'
  <1>1. drawn' = drawn
    BY DEF Ends, FailsWith, Goes
  <1>2. /\ Grows /\ AccountsType' /\ AccountsInv' /\ FaultsType' /\ DOMAIN users' = DOMAIN users
    BY <1>1, Resting
  <1>3. users' = users /\ issued' = issued /\ expired' = expired
    BY DEF accounts
  <1> QED
    BY <1>2, <1>3, Answers

\* A call ends with an error after a failed access.
LEMMA EndsAfterFailure ==
    ASSUME RequestInv, NEW r \in Callers, call[r].pc # "none",
           NEW code \in Codes \ {"OK", "AlreadyExists"}, EndsFailed(r, code), UNCHANGED accounts
    PROVE  RequestInv'
  <1>1. /\ FailsWith(r, code) /\ FaultsType' /\ faults' \in Nat /\ faults <= faults' /\ faults' # 0
        /\ drawn' = drawn
    BY FailureCounts
  <1>2. TypeOK /\ AccountsInv
    BY DEF RequestInv
  <1>3. Grows /\ AccountsType' /\ AccountsInv'
    BY <1>1, <1>2, SameAccounts, Numbers
  <1>4. DOMAIN users' = DOMAIN users
    BY DEF accounts
  <1> QED
    BY <1>1, <1>3, <1>4, Answers

LEMMA AuthenticateKeeps ==
    ASSUME RequestInv, NEW r \in Callers, Authenticate(r)
    PROVE  RequestInv'
  <1>1. call[r].pc = "auth" /\ NoFault /\ UNCHANGED accounts /\ call[r] \in CallType /\ TypeOK
    BY DEF Authenticate, InCall, RequestInv, TypeOK
  <1>2. CASE Advances(r, "handling")
    BY <1>1, <1>2, Advance DEF Pcs, BeforeDraw
  <1>3. CASE Ends(r, "Unauthenticated") /\ call[r].token \in {NoToken, Garbled}
    <2>1. call[r].token \notin issued
      BY <1>1, <1>3, RequestsAssumption DEF TypeOK, AccountsType
    <2> QED
      BY <1>1, <1>3, <2>1, EndsResting DEF Codes, NoFault
  <1>4. CASE Advances(r, "resolving") /\ call[r].token \notin {NoToken, Garbled}
    <2>1. call[r].token \in issued
      BY <1>1, <1>4 DEF CallType
    <2> QED
      BY <1>1, <1>4, <2>1, Advance DEF Pcs, BeforeDraw
  <1> QED
    BY <1>2, <1>3, <1>4 DEF Authenticate

LEMMA GetAuthTokenKeeps ==
    ASSUME RequestInv, NEW r \in Callers, call[r].pc = "resolving", GetAuthToken(r), UNCHANGED accounts
    PROVE  RequestInv'
  <1>1. /\ TypeOK /\ call[r] \in CallType /\ call[r].token \in issued
        /\ Exists(call[r].token.user) /\ users[call[r].token.user].secret = call[r].token.secret
    BY DEF RequestInv, TypeOK, CallRight, TokenRight, AccountsInv
  <1>2. ASSUME Goes(r, [call[r] EXCEPT !.pc = "validating",
                                      !.secret = users[call[r].token.user].secret]), NoFault
        PROVE  RequestInv'
    <2> DEFINE rec == [call[r] EXCEPT !.pc = "validating",
                                      !.secret = users[call[r].token.user].secret]
    <2>1. /\ call' = [call EXCEPT ![r] = rec] /\ UNCHANGED <<up, http, calls>> /\ drawn' = drawn
      BY <1>2 DEF Goes
    <2>2. users[call[r].token.user].secret \in Nat
      BY <1>1 DEF TypeOK, AccountsType, Row, Exists
    <2>3. /\ rec \in CallType /\ rec.pc = "validating" /\ rec.rpc = call[r].rpc
          /\ rec.token = call[r].token /\ rec.secret = call[r].token.secret
      BY <1>1, <2>2 DEF CallType, Pcs
    <2> HIDE DEF rec
    <2>4. /\ Grows /\ AccountsType' /\ AccountsInv' /\ FaultsType' /\ DOMAIN users' = DOMAIN users
      BY <1>2, <2>1, Resting
    <2>5. rec \in CallType'
      BY <1>1, <2>3, <2>4, CallTypeGrows
    <2>6. call'[r] = rec
      BY <1>1, <2>1 DEF TypeOK
    <2>7. AnswerTrue(r)' /\ TokenRight(r)'
      BY <1>1, <2>3, <2>4, <2>6 DEF AnswerTrue, Answering, TokenRight, Grows
    <2> QED
      BY <2>1, <2>3, <2>4, <2>5, <2>7, MovesOn DEF BeforeDraw
  <1>3. ASSUME EndsFailed(r, "Unauthenticated")
        PROVE  RequestInv'
    BY <1>3, EndsAfterFailure DEF Codes
  <1> QED
    BY <1>1, <1>2, <1>3 DEF GetAuthToken

LEMMA ResolveKeeps ==
    ASSUME RequestInv, NEW r \in Callers, Resolve(r)
    PROVE  RequestInv'
  <1>1. call[r].pc = "resolving" /\ UNCHANGED accounts
    BY DEF Resolve, InCall
  <1>2. CASE GetAuthToken(r)
    BY <1>1, <1>2, GetAuthTokenKeeps
  <1>3. CASE FailsWith(r, "Unauthenticated") /\ NoFault
    BY <1>1, <1>3, EndsResting DEF Codes, NoFault
  <1> QED
    BY <1>2, <1>3 DEF Resolve, DBTokenResolver, GRPCTokenResolver, FailsWith

LEMMA ValidateKeeps ==
    ASSUME RequestInv, NEW r \in Callers, Validate(r)
    PROVE  RequestInv'
  <1>1. /\ call[r].pc = "validating" /\ NoFault /\ UNCHANGED accounts
        /\ call[r].secret = call[r].token.secret
    BY DEF Validate, InCall, RequestInv, CallRight, TokenRight
  <1>2. CASE Advances(r, "handling")
    BY <1>1, <1>2, Advance DEF Pcs, BeforeDraw
  <1>3. CASE Ends(r, "Unauthenticated") /\ ~Valid(call[r].token, call[r].secret)
    <2>1. call[r].token \in expired
      BY <1>1, <1>3 DEF Valid
    <2> QED
      BY <1>1, <1>3, <2>1, EndsResting DEF Codes, NoFault
  <1> QED
    BY <1>2, <1>3 DEF Validate

LEMMA PanicKeeps ==
    ASSUME RequestInv, NEW r \in Callers, Panic(r)
    PROVE  RequestInv'
  <1>1. call[r].pc = "handling" /\ Ends(r, "Internal") /\ Fault("panic") /\ UNCHANGED accounts
    BY DEF Panic, InCall
  <1>2. faults' # 0
    BY <1>1, Numbers DEF RequestInv, Fault
  <1> QED
    BY <1>1, <1>2, EndsResting DEF Codes

LEMMA RegisterCheckKeeps ==
    ASSUME RequestInv, NEW r \in Callers, RegisterCheck(r)
    PROVE  RequestInv'
  <1>1. /\ call[r].pc = "handling" /\ call[r].rpc = "UserService/Register" /\ UNCHANGED accounts
        /\ TypeOK /\ call[r] \in CallType /\ InsertInv /\ DrawnInv /\ CallRight(r)
    BY DEF RegisterCheck, Handles, InCall, RequestInv, TypeOK
  <1>2. CASE Ends(r, "InvalidArgument") /\ NoFault
    BY <1>1, <1>2, EndsResting DEF Codes, NoFault
  <1>3. CASE Registered(call[r].email) /\ Ends(r, "AlreadyExists") /\ NoFault
    BY <1>1, <1>3, EndsResting DEF Codes, NoFault, Registered
  <1>4. CASE EndsFailed(r, "Internal")
    BY <1>1, <1>4, EndsAfterFailure DEF Codes
  <1>5. ASSUME call[r].email # "",
               call' = [call EXCEPT ![r] = [@ EXCEPT !.pc = "writing", !.id = drawn + 1]],
               drawn' = drawn + 1, NoFault, UNCHANGED <<up, http, calls>>
        PROVE  RequestInv'
    <2> DEFINE rec == [call[r] EXCEPT !.pc = "writing", !.id = drawn + 1]
    <2>1. call' = [call EXCEPT ![r] = rec] /\ call'[r] = rec
          /\ \A s \in Callers : s # r => call'[s] = call[s]
      BY <1>1, <1>5 DEF TypeOK
    <2>0. drawn' = drawn + 1 /\ NoFault /\ up' = up /\ http' = http /\ calls' = calls
      BY <1>5
    <2>12. call[r].email # ""
      BY <1>5
    <2>2. drawn \in Nat /\ drawn' \in Nat /\ drawn <= drawn' /\ faults' \in Nat /\ faults <= faults'
          /\ FaultsType'
      BY <1>1, <2>0, Numbers DEF NoFault, TypeOK, FaultsType
    <2>3. /\ Grows /\ AccountsType' /\ AccountsInv'
      BY <1>1, <2>2, SameAccounts DEF RequestInv
    <2>4. /\ rec.pc = "writing" /\ rec.rpc = "UserService/Register" /\ rec.id = drawn'
          /\ rec.email = call[r].email /\ rec.token = call[r].token
      <3>1. /\ rec.pc = "writing" /\ rec.rpc = "UserService/Register" /\ rec.id = drawn + 1
            /\ rec.email = call[r].email /\ rec.token = call[r].token
        BY <1>1 DEF CallType
      <3> HIDE DEF rec
      <3> QED
        BY <2>0, <3>1
    <2>5. rec \in CallType'
      <3>1. call[r] \in CallType'
        BY <1>1, <2>3, CallTypeGrows
      <3>2. \A n \in 0..drawn' : [call[r] EXCEPT !.pc = "writing", !.id = n] \in CallType'
        BY <3>1 DEF CallType, Pcs
      <3>3. drawn + 1 \in 0..drawn'
        BY <2>0, <2>2
      <3> QED
        BY <3>2, <3>3
    <2> HIDE DEF rec
    <2>6. \A s \in Callers : s # r => (Inserting(s)' <=> Inserting(s))
      BY <2>1 DEF Inserting
    <2>7. 1..drawn \subseteq 1..drawn' /\ drawn' \in 1..drawn' /\ drawn' \notin 1..drawn
      BY <2>0, <2>2
    <2>8. users' = users /\ DOMAIN users \subseteq 1..drawn
      BY <1>1 DEF accounts, RequestInv, AccountsInv
    <2>9. InsertInv'
      <3>1. ASSUME NEW s \in Callers, Inserting(s)'
            PROVE  call'[s].email # ""
        BY <3>1, <1>1, <2>1, <2>4, <2>6, <2>12, Zenon DEF InsertInv
      <3>2. ASSUME NEW s \in Callers, s # r, Inserting(s)'
            PROVE  call'[s].id \in 1..drawn /\ call'[s].id \notin DOMAIN users
        BY <3>2, <1>1, <2>1, <2>6, Zenon DEF InsertInv
      <3>3. ASSUME NEW s \in Callers, Inserting(s)'
            PROVE  call'[s].id \in 1..drawn' /\ call'[s].id \notin DOMAIN users'
        <4>1. call'[r].id = drawn'
          BY <2>1, <2>4, Zenon
        <4> QED
          BY <3>2, <3>3, <4>1, <2>7, <2>8
      <3>4. ASSUME NEW s \in Callers, NEW t \in Callers,
                   Inserting(s)', Inserting(t)', call'[s].id = call'[t].id
            PROVE  s = t
        <4>1. call'[r].id = drawn'
          BY <2>1, <2>4, Zenon
        <4>2. CASE s = r \/ t = r
          BY <3>2, <3>4, <4>1, <4>2, <2>7
        <4>3. CASE s # r /\ t # r
          BY <3>4, <4>3, <1>1, <2>1, <2>6, Zenon DEF InsertInv
        <4> QED
          BY <4>2, <4>3
      <3> QED
        BY <3>1, <3>3, <3>4, Zenon DEF InsertInv
    <2>10. DrawnInv'
      <3>1. r \in Undrawn /\ Undrawn' = Undrawn \ {r}
        BY <1>1, <2>1, <2>4 DEF Undrawn, BeforeDraw
      <3>2. IsFiniteSet(Undrawn') /\ Cardinality(Undrawn') = Cardinality(Undrawn) - 1
        BY <1>1, <3>1, FS_RemoveElement DEF DrawnInv
      <3>3. Cardinality(Undrawn) \in Nat
        BY <1>1, FS_CardinalityType DEF DrawnInv
      <3> QED
        BY <1>1, <2>0, <2>2, <3>2, <3>3, Numbers DEF DrawnInv
    <2>11. CallRight(r)'
      <3>1. AnswerTrue(r)' /\ TokenRight(r)'
        BY <2>1, <2>4 DEF AnswerTrue, Answering, TokenRight
      <3>2. RouteRight(r)' /\ GoneRight(r)'
        BY <1>1, <2>0, <2>1, <2>3, <2>4, Numbers
           DEF CallRight, RouteRight, GoneRight, Awaited, Grows
      <3> QED
        BY <3>1, <3>2 DEF CallRight
    <2> QED
      BY <1>1, <1>5, <2>1, <2>2, <2>3, <2>4, <2>5, <2>9, <2>10, <2>11, OneMoves
         DEF Rpcs, UserService
  <1> QED
    BY <1>1, <1>2, <1>3, <1>4, <1>5 DEF RegisterCheck

\* The row of a Register that inserts is of an address nobody has.
LEMMA RegisterInsertKeeps ==
    ASSUME RequestInv, NEW r \in Callers, RegisterInsert(r)
    PROVE  RequestInv'
  <1>1. /\ call[r].pc = "writing" /\ call[r].rpc = "UserService/Register" /\ Inserting(r)
        /\ TypeOK /\ AccountsInv /\ call[r].pc # "none"
    BY DEF RegisterInsert, InCall, RequestInv, Inserting
  <1>2. call[r].id \in 1..drawn /\ call[r].id \notin DOMAIN users
    BY <1>1 DEF RequestInv, InsertInv
  <1>3. call[r].email \in Emails
    <2>1. call[r].email \in Emails \cup {""} /\ call[r].email # ""
      BY <1>1 DEF RequestInv, InsertInv, TypeOK, CallType
    <2> QED
      BY <2>1
  <1>4. ASSUME Create(call[r].id, call[r].email), drawn' = drawn,
               faults' \in Nat, faults <= faults'
        PROVE  /\ Grows /\ AccountsType' /\ AccountsInv'
               /\ \A id \in DOMAIN users' :
                     id \in DOMAIN users \/ (Inserting(r) /\ id = call[r].id)
               /\ call[r].id \in DOMAIN users' /\ users'[call[r].id].email = call[r].email
    <2>1. /\ Grows /\ AccountsType' /\ AccountsInv'
          /\ DOMAIN users' = DOMAIN users \cup {call[r].id}
          /\ users'[call[r].id].email = call[r].email
      BY <1>1, <1>2, <1>3, <1>4, CreateAdds
    <2> QED
      BY <1>1, <2>1
  <1>5. CASE Create(call[r].id, call[r].email) /\ Ends(r, "OK") /\ NoFault
    <2>1. drawn' = drawn /\ faults' \in Nat /\ faults <= faults' /\ FaultsType'
      BY <1>1, <1>5, Numbers DEF Ends, Goes, NoFault, TypeOK, FaultsType
    <2> QED
      BY <1>1, <1>4, <1>5, <2>1, Answers DEF Codes
  <1>6. CASE Registered(call[r].email) /\ UNCHANGED accounts /\ Ends(r, "Internal") /\ NoFault
    <2>1. \E id \in DOMAIN users : id # call[r].id /\ users[id].email = call[r].email
      BY <1>2, <1>6 DEF Registered
    <2> QED
      BY <1>1, <1>6, <2>1, EndsResting DEF Codes, NoFault
  <1>7. CASE UNCHANGED accounts /\ EndsFailed(r, "Internal")
    BY <1>1, <1>7, EndsAfterFailure DEF Codes
  <1>8. CASE Create(call[r].id, call[r].email) /\ EndsFailed(r, "Internal")
    <2>1. /\ FailsWith(r, "Internal") /\ FaultsType' /\ faults' \in Nat /\ faults <= faults'
          /\ faults' # 0 /\ drawn' = drawn
      BY <1>1, <1>8, FailureCounts
    <2> QED
      BY <1>1, <1>4, <1>8, <2>1, Answers DEF Codes
  <1> QED
    BY <1>5, <1>6, <1>7, <1>8 DEF RegisterInsert

LEMMA LoginUserKeeps ==
    ASSUME RequestInv, NEW r \in Callers, LoginUser(r)
    PROVE  RequestInv'
  <1>1. /\ call[r].pc = "handling" /\ call[r].rpc = "UserService/Login" /\ call[r].pc # "none"
        /\ TypeOK /\ AccountsInv /\ call[r] \in CallType /\ ~Inserting(r)
    BY DEF LoginUser, Handles, InCall, RequestInv, TypeOK, Inserting
  <1>2. CASE Ends(r, "InvalidArgument") /\ NoFault /\ UNCHANGED accounts
    BY <1>1, <1>2, EndsResting DEF Codes, NoFault
  <1>3. CASE Ends(r, "Unauthenticated") /\ NoFault /\ UNCHANGED accounts
    BY <1>1, <1>3, EndsResting DEF Codes, NoFault
  <1>4. CASE EndsFailed(r, "Internal") /\ UNCHANGED accounts
    BY <1>1, <1>4, EndsAfterFailure DEF Codes
  <1>5. ASSUME Registered(call[r].email), Generate(ByEmail(call[r].email)), NoFault,
               Goes(r, [call[r] EXCEPT !.pc = "replying",
                                       !.token = Signed(ByEmail(call[r].email))])
        PROVE  RequestInv'
    <2> DEFINE user == ByEmail(call[r].email)
               rec == [call[r] EXCEPT !.pc = "replying", !.token = Signed(user)]
    <2>1. call' = [call EXCEPT ![r] = rec] /\ UNCHANGED <<up, http, calls>> /\ drawn' = drawn
      BY <1>5 DEF Goes
    <2>2. user \in DOMAIN users /\ users[user].email = call[r].email
      BY <1>5, ByEmailFinds
    <2>3. Generate(user)
      BY <1>5
    <2>4. /\ rec.pc = "replying" /\ rec.rpc = "UserService/Login"
          /\ rec.email = call[r].email /\ rec.token = Signed(user)
      BY <1>1 DEF CallType
    <2>5. \A t \in issued' : call[r] \in CallType' => [call[r] EXCEPT !.pc = "replying", !.token = t] \in CallType'
      BY DEF CallType, Pcs
    <2>6. Signed(user) \in issued' /\ call[r] \in CallType' => rec \in CallType'
      BY <2>5
    <2> HIDE DEF user, rec
    <2>7. faults' \in Nat /\ faults <= faults' /\ FaultsType'
      BY <1>1, <1>5, Numbers DEF NoFault, TypeOK, FaultsType
    <2>8. /\ Grows /\ AccountsType' /\ AccountsInv' /\ users' = users
          /\ Signed(user) \in issued' /\ Signed(user).user = user
      BY <1>1, <2>1, <2>2, <2>3, <2>7, GenerateAdds
    <2>9. rec \in CallType'
      BY <1>1, <2>6, <2>8, CallTypeGrows
    <2>10. call'[r] = rec
      BY <1>1, <2>1 DEF TypeOK
    <2>11. AnswerTrue(r)'
      BY <2>2, <2>4, <2>8, <2>10 DEF AnswerTrue, Answering
    <2>12. TokenRight(r)'
      BY <2>4, <2>10 DEF TokenRight
    <2> QED
      BY <1>1, <2>1, <2>4, <2>7, <2>8, <2>9, <2>11, <2>12, MovesOn DEF BeforeDraw
  <1> QED
    BY <1>2, <1>3, <1>4, <1>5 DEF LoginUser

LEMMA ReadUserKeeps ==
    ASSUME RequestInv, NEW r \in Callers, ReadUser(r)
    PROVE  RequestInv'
  <1>1. call[r].pc = "handling" /\ call[r].rpc = "UserService/GetUser" /\ UNCHANGED accounts
    BY DEF ReadUser, Handles, InCall
  <1>2. ASSUME NEW code \in {"OK", "NotFound"}, Ends(r, code), NoFault
        PROVE  RequestInv'
    BY <1>1, <1>2, EndsResting DEF Codes, NoFault
  <1>3. CASE EndsFailed(r, "Internal")
    BY <1>1, <1>3, EndsAfterFailure DEF Codes
  <1> QED
    BY <1>2, <1>3 DEF ReadUser

LEMMA UpdateReadKeeps ==
    ASSUME RequestInv, NEW r \in Callers, UpdateRead(r)
    PROVE  RequestInv'
  <1>1. call[r].pc = "handling" /\ call[r].rpc = "UserService/UpdateUser" /\ UNCHANGED accounts
    BY DEF UpdateRead, Handles, InCall
  <1>2. CASE Advances(r, "writing") /\ NoFault
    BY <1>1, <1>2, Advance DEF Pcs, BeforeDraw
  <1>3. CASE Ends(r, "NotFound") /\ NoFault
    BY <1>1, <1>3, EndsResting DEF Codes, NoFault
  <1>4. CASE EndsFailed(r, "Internal")
    BY <1>1, <1>4, EndsAfterFailure DEF Codes
  <1> QED
    BY <1>1, <1>2, <1>3, <1>4 DEF UpdateRead

LEMMA UpdateWriteKeeps ==
    ASSUME RequestInv, NEW r \in Callers, UpdateWrite(r)
    PROVE  RequestInv'
  <1>1. /\ call[r].pc = "writing" /\ call[r].rpc = "UserService/UpdateUser" /\ call[r].pc # "none"
        /\ TypeOK /\ AccountsInv
    BY DEF UpdateWrite, InCall, RequestInv
  <1>2. CASE Update(call[r].id) /\ Ends(r, "OK") /\ NoFault
    <2>1. drawn' = drawn /\ faults' \in Nat /\ faults <= faults' /\ FaultsType'
      BY <1>1, <1>2, Numbers DEF Ends, Goes, NoFault, TypeOK, FaultsType
    <2>2. Grows /\ AccountsType' /\ AccountsInv' /\ DOMAIN users' = DOMAIN users
      BY <1>1, <1>2, <2>1, UpdateKeeps
    <2> QED
      BY <1>1, <1>2, <2>1, <2>2, Answers DEF Codes
  <1>3. CASE UNCHANGED accounts /\ EndsFailed(r, "Internal")
    BY <1>1, <1>3, EndsAfterFailure DEF Codes
  <1>4. CASE Update(call[r].id) /\ EndsFailed(r, "Internal")
    <2>1. /\ FailsWith(r, "Internal") /\ FaultsType' /\ faults' \in Nat /\ faults <= faults'
          /\ faults' # 0 /\ drawn' = drawn
      BY <1>1, <1>4, FailureCounts
    <2>2. Grows /\ AccountsType' /\ AccountsInv' /\ DOMAIN users' = DOMAIN users
      BY <1>1, <1>4, <2>1, UpdateKeeps
    <2> QED
      BY <1>1, <2>1, <2>2, Answers DEF Codes
  <1> QED
    BY <1>2, <1>3, <1>4 DEF UpdateWrite

LEMMA OtherHandlerKeeps ==
    ASSUME RequestInv, NEW r \in Callers, OtherHandler(r)
    PROVE  RequestInv'
  <1>1. /\ call[r].pc = "handling" /\ NoFault /\ UNCHANGED accounts
        /\ call[r].rpc # "UserService/Register" /\ call[r].rpc # "UserService/Login"
    BY DEF OtherHandler, InCall, UserService
  <1>2. PICK code \in {"OK", "Internal"} : Ends(r, code)
    BY DEF OtherHandler
  <1> QED
    BY <1>1, <1>2, EndsResting DEF Codes, NoFault

-----------------------------------------------------------------------------
(* Calls that begin and calls that go *)

\* Some of the calls are over and their clients answered, the accounts as they were.
LEMMA SomeEnd ==
    ASSUME RequestInv, UNCHANGED accounts, UNCHANGED <<calls, drawn>>, up' \subseteq Services,
           NEW kind, NoFault \/ Fault(kind),
           call' \in [Callers -> {NoCall} \cup CallType], http' \in [Callers -> Requests \cup {NoRequest}],
           \A s \in Callers :
              \/ call'[s] = NoCall
              \/ /\ call'[s] = call[s]
                 /\ http'[s] = http[s] \/ (http'[s] = NoRequest /\ faults' > 0)
    PROVE  RequestInv'
  <1>1. TypeOK /\ InsertInv /\ DrawnInv
    BY DEF RequestInv
  <1>2. /\ Grows /\ AccountsType' /\ AccountsInv' /\ FaultsType' /\ DOMAIN users' = DOMAIN users
    BY Resting
  <1>3. NoCall \in CallType' /\ \A c \in CallType : c \in CallType'
    <2>1. (drawn \in Nat => NoCall \in CallType)'
      BY NoCallType, PTL
    <2> QED
      BY <1>1, <1>2, <2>1, CallTypeGrows DEF Grows
  <1>4. NoCall.pc = "none"
    BY DEF NoCall
  <1>5. TypeOK'
    <2>1. call' \in [Callers -> CallType']
      BY <1>3
    <2>2. \A s \in Callers : call'[s].pc # "none" => call'[s].rpc \in Rpcs
      BY <1>1, <1>4 DEF TypeOK
    <2> QED
      BY <1>1, <1>2, <2>1, <2>2 DEF TypeOK
  <1>6. InsertInv'
    <2>1. \A s \in Callers : Inserting(s)' => Inserting(s) /\ call'[s] = call[s]
      BY <1>4 DEF Inserting
    <2> QED
      BY <1>1, <1>2, <2>1 DEF InsertInv
  <1>7. Undrawn' \subseteq Undrawn
    BY <1>4 DEF Undrawn, BeforeDraw
  <1>8. DrawnInv'
    BY <1>1, <1>7, DrawnKept
  <1>9. ASSUME NEW s \in Callers
        PROVE  CallRight(s)'
    <2>1. CASE call'[s] = NoCall
      BY <1>4, <2>1 DEF CallRight, AnswerTrue, Answering, TokenRight, RouteRight, GoneRight
    <2>2. CASE call'[s] = call[s] /\ (http'[s] = http[s] \/ (http'[s] = NoRequest /\ faults' > 0))
      BY <1>2, <2>2, CallerStays
    <2> QED
      BY <2>1, <2>2
  <1> QED
    BY <1>2, <1>5, <1>6, <1>8, <1>9 DEF RequestInv

LEMMA ReplyKeeps ==
    ASSUME RequestInv, NEW r \in Callers, Reply(r)
    PROVE  RequestInv'
  <1>1. TypeOK
    BY DEF RequestInv
  <1> QED
    BY <1>1, SomeEnd DEF Reply, TypeOK, accounts

LEMMA ClientGoneKeeps ==
    ASSUME RequestInv, NEW r \in Callers, ClientGone(r)
    PROVE  RequestInv'
  <1>1. TypeOK
    BY DEF RequestInv
  <1>2. faults' > 0
    BY <1>1, Numbers DEF ClientGone, Fault
  <1> QED
    BY <1>1, <1>2, SomeEnd DEF ClientGone, TypeOK, accounts

LEMMA CrashKeeps ==
    ASSUME RequestInv, NEW s \in Services, Crash(s)
    PROVE  RequestInv'
  <1>1. TypeOK
    BY DEF RequestInv
  <1> QED
    BY <1>1, SomeEnd DEF Crash, TypeOK, accounts

LEMMA RestartKeeps ==
    ASSUME RequestInv, NEW s \in Services, Restart(s)
    PROVE  RequestInv'
  <1>1. TypeOK
    BY DEF RequestInv
  <1> QED
    BY <1>1, SomeEnd DEF Restart, TypeOK, accounts

LEMMA TokenExpiresKeeps ==
    ASSUME RequestInv, NEW t \in issued, TokenExpires(t)
    PROVE  RequestInv'
  <1>1. /\ TypeOK /\ AccountsInv /\ InsertInv /\ DrawnInv /\ Expire(t)
        /\ faults' = faults /\ UNCHANGED <<up, http, call, calls, drawn>>
    BY DEF RequestInv, TokenExpires, NoFault
  <1>2. Grows /\ AccountsType' /\ AccountsInv' /\ DOMAIN users' = DOMAIN users
    BY <1>1, ExpireKeeps
  <1>3. call' \in [Callers -> CallType'] /\ FaultsType'
    BY <1>1, <1>2, CallTypeGrows DEF TypeOK, FaultsType
  <1>4. TypeOK'
    BY <1>1, <1>2, <1>3 DEF TypeOK
  <1>5. InsertInv'
    BY <1>1, <1>2 DEF InsertInv, Inserting
  <1>6. DrawnInv'
    BY <1>1, DrawnKept DEF Undrawn
  <1>7. \A s \in Callers : CallRight(s)'
    BY <1>1, <1>2, CallerStays
  <1> QED
    BY <1>2, <1>4, <1>5, <1>6, <1>7 DEF RequestInv

\* A request the gateway answers itself is only counted.
LEMMA AnsweredByGatewayKeeps ==
    ASSUME RequestInv, NEW r \in Callers, NEW q \in Requests, AnsweredByGateway(r, q)
    PROVE  RequestInv'
  <1>1. /\ TypeOK /\ InsertInv /\ DrawnInv /\ NoFault /\ UNCHANGED accounts
        /\ UNCHANGED <<up, http, call, drawn>> /\ calls < MaxCalls /\ calls' = calls + 1
    BY DEF RequestInv, AnsweredByGateway, Asks, accounts
  <1>2. /\ Grows /\ AccountsType' /\ AccountsInv' /\ FaultsType' /\ DOMAIN users' = DOMAIN users
    BY <1>1, Resting
  <1>3. calls' \in 0..MaxCalls /\ drawn' \in 0..calls'
    BY <1>1, Numbers DEF TypeOK
  <1>4. call' \in [Callers -> CallType']
    BY <1>1, <1>2, CallTypeGrows DEF TypeOK
  <1>5. TypeOK'
    BY <1>1, <1>2, <1>3, <1>4 DEF TypeOK
  <1>6. InsertInv'
    BY <1>1, <1>2 DEF InsertInv, Inserting
  <1>7. DrawnInv'
    <2>1. Undrawn' = Undrawn
      BY <1>1 DEF Undrawn
    <2>2. Cardinality(Undrawn) \in Nat
      BY <1>1, FS_CardinalityType DEF DrawnInv
    <2> QED
      BY <1>1, <2>1, <2>2, Numbers DEF DrawnInv
  <1>8. \A s \in Callers : CallRight(s)'
    BY <1>1, <1>2, CallerStays
  <1> QED
    BY <1>2, <1>5, <1>6, <1>7, <1>8 DEF RequestInv

\* The call a request becomes is at the RPC the request fits.
LEMMA ForwardedKeeps ==
    ASSUME RequestInv, NEW r \in Callers, NEW q \in Requests, Forwarded(r, q)
    PROVE  RequestInv'
  <1>1. /\ TypeOK /\ InsertInv /\ DrawnInv /\ NoFault /\ UNCHANGED accounts
        /\ UNCHANGED <<up, drawn>> /\ calls < MaxCalls /\ calls' = calls + 1
        /\ call[r].pc = "none"
    BY DEF RequestInv, Forwarded, Asks, Free, accounts
  <1>2. PICK c \in Dispatch(q.verb, q.url) : Invoke(r, q, c.rpc)
    BY DEF Forwarded
  <1>3. c.rpc \in Rpcs \ ForServices /\ Fitted(q) = {c.rpc}
    BY RightRpc DEF Fitted
  <1>4. /\ Grows /\ AccountsType' /\ AccountsInv' /\ FaultsType' /\ DOMAIN users' = DOMAIN users
    BY <1>1, Resting
  <1>5. calls' \in 0..MaxCalls /\ drawn' \in 0..calls' /\ drawn \in Nat
    BY <1>1, Numbers DEF TypeOK
  <1>6. PICK rec \in CallType :
          call' = [call EXCEPT ![r] = rec] /\ rec.pc = "auth" /\ rec.rpc = c.rpc
    <2>0. 0 \in 0..drawn
      BY <1>5
    <2> DEFINE tokens == (IF c.rpc \in PublicMethods THEN {} ELSE issued \cup {Garbled}) \cup {NoToken}
               emails == (IF c.rpc \in {"UserService/Register", "UserService/Login"} THEN Emails
                          ELSE {}) \cup {""}
               rights == IF c.rpc = "UserService/Login" THEN BOOLEAN ELSE {FALSE}
               ids == IF c.rpc \in {"UserService/GetUser", "UserService/UpdateUser"} THEN 0..drawn
                      ELSE {0}
    <2>1. PICK token \in tokens, email \in emails, right \in rights, id \in ids :
             call' = [call EXCEPT ![r] =
                        [NoCall EXCEPT !.pc = "auth", !.rpc = c.rpc, !.email = email,
                                       !.right = right, !.id = id, !.token = token]]
      BY <1>2, Zenon DEF Invoke
    <2>4. token \in issued \cup {NoToken, Garbled} /\ email \in Emails \cup {""}
      OBVIOUS
    <2>5. right \in BOOLEAN /\ id \in 0..drawn
      <3>1. right \in BOOLEAN
        BY Zenon
      <3>2. id \in 0..drawn
        <4>1. ids \subseteq 0..drawn
          BY <2>0, Zenon
        <4> HIDE DEF ids
        <4> QED
          BY <4>1, Zenon
      <3> QED
        BY <3>1, <3>2
    <2> HIDE DEF tokens, emails, rights, ids
    <2> DEFINE rec == [NoCall EXCEPT !.pc = "auth", !.rpc = c.rpc, !.email = email,
                                     !.right = right, !.id = id, !.token = token]
    <2>2. NoCall \in CallType
      BY <1>5, NoCallType
    <2>3. rec \in CallType /\ rec.pc = "auth" /\ rec.rpc = c.rpc
      BY <1>3, <2>2, <2>4, <2>5 DEF CallType, Pcs
    <2>6. call' = [call EXCEPT ![r] = rec]
      BY <2>1
    <2> HIDE DEF rec
    <2> QED
      BY <2>3, <2>6
  <1>7. /\ http' = [http EXCEPT ![r] = q]
        /\ call'[r] = rec /\ http'[r] = q
        /\ \A s \in Callers : s # r => call'[s] = call[s] /\ http'[s] = http[s]
    BY <1>1, <1>2, <1>6 DEF TypeOK, Invoke
  <1>8. TypeOK'
    <2>1. call' \in [Callers -> CallType']
      BY <1>1, <1>4, <1>6, CallTypeGrows DEF TypeOK
    <2>2. http' \in [Callers -> Requests \cup {NoRequest}]
      BY <1>1, <1>7 DEF TypeOK
    <2>3. \A s \in Callers : call'[s].pc # "none" => call'[s].rpc \in Rpcs
      BY <1>1, <1>3, <1>6, <1>7 DEF TypeOK
    <2> QED
      BY <1>1, <1>4, <1>5, <2>1, <2>2, <2>3 DEF TypeOK
  <1>9. InsertInv'
    BY <1>1, <1>4, <1>6, <1>7, InsertKept
  <1>10. DrawnInv'
    <2>1. Undrawn' = Undrawn \cup {r} /\ r \notin Undrawn
      BY <1>1, <1>6, <1>7 DEF Undrawn, BeforeDraw
    <2>2. IsFiniteSet(Undrawn') /\ Cardinality(Undrawn') = Cardinality(Undrawn) + 1
      BY <1>1, <2>1, FS_AddElement DEF DrawnInv
    <2>3. Cardinality(Undrawn) \in Nat
      BY <1>1, FS_CardinalityType DEF DrawnInv
    <2> QED
      BY <1>1, <2>2, <2>3, Numbers DEF DrawnInv
  <1>11. CallRight(r)'
    <2>1. AnswerTrue(r)' /\ TokenRight(r)'
      BY <1>6, <1>7 DEF AnswerTrue, Answering, TokenRight
    <2>2. RouteRight(r)'
      BY <1>3, <1>6, <1>7 DEF RouteRight
    <2>3. GoneRight(r)'
      BY <1>7, RequestsAssumption DEF GoneRight, Awaited
    <2> QED
      BY <2>1, <2>2, <2>3 DEF CallRight
  <1>12. \A s \in Callers : CallRight(s)'
    BY <1>4, <1>7, <1>11, CallerStays
  <1> QED
    BY <1>4, <1>8, <1>9, <1>10, <1>12 DEF RequestInv

-----------------------------------------------------------------------------
(* The theorems *)

LEMMA InitRequest ==
    Init => RequestInv
  <1> SUFFICES ASSUME Init PROVE RequestInv
    OBVIOUS
  <1>1. 0 \in 0..MaxFaults /\ 0 \in 0..MaxCalls /\ 0 \in 0..0 /\ drawn \in Nat
    BY RequestsAssumption, FaultsAssumption DEF Init
  <1>2. users = [id \in {} |-> [email |-> "", secret |-> 0, renamed |-> FALSE]]
        /\ issued = {} /\ expired = {}
    BY DEF Init, AccountsInit
  <1>3. AccountsType
    BY <1>2 DEF AccountsType
  <1>4. TypeOK
    <2>1. NoCall \in CallType
      BY <1>1, NoCallType
    <2> QED
      BY <1>1, <1>3, <2>1 DEF Init, TypeOK, FaultsInit, FaultsType, NoCall
  <1>5. \A r \in Callers : call[r].pc = "none"
    BY DEF Init, NoCall
  <1>6. AccountsInv
    BY <1>2, FS_EmptySet DEF AccountsInv
  <1>7. InsertInv
    BY <1>5 DEF InsertInv, Inserting
  <1>8. DrawnInv
    <2>1. Undrawn = {}
      BY <1>5 DEF Undrawn, BeforeDraw
    <2> QED
      BY <2>1, FS_EmptySet DEF DrawnInv, Init
  <1>9. \A r \in Callers : CallRight(r)
    BY <1>5 DEF CallRight, AnswerTrue, Answering, TokenRight, RouteRight, GoneRight
  <1> QED
    BY <1>4, <1>6, <1>7, <1>8, <1>9 DEF RequestInv

LEMMA RestKeeps ==
    ASSUME RequestInv, UNCHANGED vars
    PROVE  RequestInv'
  <1>1. TypeOK
    BY DEF RequestInv
  <1> QED
    BY <1>1, SomeEnd DEF vars, TypeOK, accounts, NoFault

LEMMA StepRequest ==
    RequestInv /\ [Next]_vars => RequestInv'
  <1> SUFFICES ASSUME RequestInv, [Next]_vars PROVE RequestInv'
    OBVIOUS
  <1>1. ASSUME NEW r \in Callers, NEW q \in Requests, AnsweredByGateway(r, q) \/ Forwarded(r, q)
        PROVE  RequestInv'
    BY <1>1, AnsweredByGatewayKeeps, ForwardedKeeps
  <1>2. ASSUME NEW r \in Callers, ServiceStep(r)
        PROVE  RequestInv'
    BY <1>2, AuthenticateKeeps, ResolveKeeps, ValidateKeeps, RegisterCheckKeeps,
       RegisterInsertKeeps, LoginUserKeeps, ReadUserKeeps, UpdateReadKeeps, UpdateWriteKeeps,
       OtherHandlerKeeps, ReplyKeeps DEF ServiceStep
  <1>3. ASSUME NEW r \in Callers, Panic(r) \/ ClientGone(r)
        PROVE  RequestInv'
    BY <1>3, PanicKeeps, ClientGoneKeeps
  <1>4. ASSUME NEW s \in Services, Crash(s) \/ Restart(s)
        PROVE  RequestInv'
    BY <1>4, CrashKeeps, RestartKeeps
  <1>5. ASSUME NEW t \in issued, TokenExpires(t)
        PROVE  RequestInv'
    BY <1>5, TokenExpiresKeeps
  <1>6. CASE AtRest \/ UNCHANGED vars
    BY <1>6, RestKeeps DEF AtRest
  <1> QED
    BY <1>1, <1>2, <1>3, <1>4, <1>5, <1>6 DEF Next

LEMMA RequestInvariant ==
    Spec => []RequestInv
  BY InitRequest, StepRequest, PTL DEF Spec

\* The types of the accounts, the calls and the counters; a request draws one id at most.
THEOREM RequestTypes ==
    Spec => []TypeOK
  <1>1. RequestInv => TypeOK
    BY DEF RequestInv
  <1> QED
    BY <1>1, RequestInvariant, PTL

\* RegisterUser, LoginUser (internal/user/service.go): what a caller is answered is true of
\* the table, though the look for the address and the insert are two statements, and any
\* other call, failure or crash may come between them.
THEOREM AnswersAgree ==
    Spec => []AnswersTrue
  <1>1. RequestInv => AnswersTrue
    BY DEF RequestInv, AccountsInv, CallRight, AnswerTrue, AnswersTrue, Exists, Registered
  <1> QED
    BY <1>1, RequestInvariant, PTL

\* ResolveAuthToken and Validate (pkg/auth): no sequence of registrations, updates, crashes and
\* failures takes an account or its secret from a token that Login has answered with.
THEOREM TokensHold ==
    Spec => []TokensStayGood
  <1>1. RequestInv => TokensStayGood
    BY DEF RequestInv, AccountsInv, CallRight, TokenRight, TokensStayGood
  <1> QED
    BY <1>1, RequestInvariant, PTL

\* The generated handlers of the gateway: of the sixteen patterns no two take the same
\* request, so the order they are tried in is of no account, and none leads to an RPC that
\* is meant for services.
THEOREM RequestsAreRoutedRight ==
    Spec => []RoutedRight
  <1>1. RequestInv => RoutedRight
    BY DEF RequestInv, CallRight, RouteRight, RoutedRight, Fitted
  <1> QED
    BY <1>1, RequestInvariant, PTL

=============================================================================

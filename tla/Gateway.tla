------------------------------- MODULE Gateway -------------------------------
(***************************************************************************)
(* The routing table of the gateway (internal/gateway/server.go and the    *)
(* generated gen/go/*/v1/*.pb.gw.go): which RPC of which service a verb    *)
(* and a path of HTTP stand for, and what of the request the RPC takes.    *)
(* The services' RPCs are those of gen/go/*/v1/*_grpc.pb.go.               *)
(*                                                                         *)
(* A path is the sequence of its segments; a segment that is one of        *)
(* PathParams is a parameter and matches any segment.                      *)
(***************************************************************************)
EXTENDS Integers, Sequences, FiniteSets

PathParams == {"{user_id}", "{product_id}", "{order_id}", "{payment_id}"}

\* The RPCs each server registers.
UserService ==
    {"UserService/Register", "UserService/Login", "UserService/GetUser",
     "UserService/UpdateUser", "UserService/GetAuthToken"}
ProductService ==
    {"ProductService/CreateProduct", "ProductService/GetProduct", "ProductService/ListProducts",
     "ProductService/UpdateProduct", "ProductService/UpdateInventory",
     "ProductService/ReserveStock", "ProductService/ReleaseStock"}
OrderCommandService == {"OrderCommandService/PlaceOrder", "OrderCommandService/CancelOrder"}
OrderQueryService == {"OrderQueryService/GetOrder", "OrderQueryService/ListOrdersByUser"}
PaymentService ==
    {"PaymentService/GetPayment", "PaymentService/ListPaymentsByOrder",
     "PaymentService/RefundPayment"}

Rpcs == UserService \cup ProductService \cup OrderCommandService \cup OrderQueryService
            \cup PaymentService
Services == {"user-service", "product-service", "order-service", "payment-service"}

\* The process that serves an RPC.
ServedBy(rpc) ==
    CASE rpc \in UserService -> "user-service"
      [] rpc \in ProductService -> "product-service"
      [] rpc \in OrderCommandService \cup OrderQueryService -> "order-service"
      [] rpc \in PaymentService -> "payment-service"

-----------------------------------------------------------------------------
(* The handlers of the routes: the RPC, and whether the body is decoded *)

Calls(rpc) == [rpc |-> rpc, body |-> FALSE]
CallsWithBody(rpc) == [rpc |-> rpc, body |-> TRUE]

Register == CallsWithBody("UserService/Register")
Login == CallsWithBody("UserService/Login")
GetUser == Calls("UserService/GetUser")
UpdateUser == CallsWithBody("UserService/UpdateUser")
CreateProduct == CallsWithBody("ProductService/CreateProduct")
GetProduct == Calls("ProductService/GetProduct")
ListProducts == Calls("ProductService/ListProducts")
UpdateProduct == CallsWithBody("ProductService/UpdateProduct")
UpdateInventory == CallsWithBody("ProductService/UpdateInventory")
PlaceOrder == CallsWithBody("OrderCommandService/PlaceOrder")
CancelOrder == CallsWithBody("OrderCommandService/CancelOrder")
GetOrder == Calls("OrderQueryService/GetOrder")
ListOrdersByUser == Calls("OrderQueryService/ListOrdersByUser")
GetPayment == Calls("PaymentService/GetPayment")
ListPaymentsByOrder == Calls("PaymentService/ListPaymentsByOrder")
RefundPayment == CallsWithBody("PaymentService/RefundPayment")

-----------------------------------------------------------------------------
(* The routes, in the order of their registration *)

On(verb, path, call) == [verb |-> verb, path |-> <<"api", "v1">> \o path, call |-> call]

UserRoutes ==
    << On("POST", <<"users", "register">>, Register),
       On("POST", <<"users", "login">>, Login),
       On("GET", <<"users", "{user_id}">>, GetUser),
       On("PUT", <<"users", "{user_id}">>, UpdateUser) >>

ProductRoutes ==
    << On("POST", <<"products">>, CreateProduct),
       On("GET", <<"products", "{product_id}">>, GetProduct),
       On("GET", <<"products">>, ListProducts),
       On("PUT", <<"products", "{product_id}">>, UpdateProduct),
       On("PUT", <<"products", "{product_id}", "inventory">>, UpdateInventory) >>

OrderCommandRoutes ==
    << On("POST", <<"orders">>, PlaceOrder),
       On("POST", <<"orders", "{order_id}", "cancel">>, CancelOrder) >>

OrderQueryRoutes ==
    << On("GET", <<"orders", "{order_id}">>, GetOrder),
       On("GET", <<"users", "{user_id}", "orders">>, ListOrdersByUser) >>

PaymentRoutes ==
    << On("GET", <<"payments", "{payment_id}">>, GetPayment),
       On("GET", <<"orders", "{order_id}", "payments">>, ListPaymentsByOrder),
       On("POST", <<"payments", "{payment_id}", "refund">>, RefundPayment) >>

Routes ==
    UserRoutes \o ProductRoutes \o OrderCommandRoutes \o OrderQueryRoutes \o PaymentRoutes

\* Mutant of Matches: a pattern matches every path it is a prefix of.
MatchesPrefix(route, verb, url) ==
    /\ verb = route.verb
    /\ Len(url) >= Len(route.path)
    /\ \A i \in 1..Len(route.path) : route.path[i] \in PathParams \/ url[i] = route.path[i]

Matches(route, verb, url) ==
    /\ verb = route.verb
    /\ Len(url) = Len(route.path)
    /\ \A i \in 1..Len(url) : route.path[i] \in PathParams \/ url[i] = route.path[i]

Matching(verb, url) == {i \in 1..Len(Routes) : Matches(Routes[i], verb, url)}

\* The mux tries the handlers of a verb from the last registered to the first: the
\* handler it takes, if there is one.
Dispatch(verb, url) ==
    LET fits == Matching(verb, url)
    IN  {Routes[i].call : i \in {i \in fits : \A j \in fits : j <= i}}

=============================================================================

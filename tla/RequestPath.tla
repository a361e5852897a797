----------------------------- MODULE RequestPath -----------------------------
(***************************************************************************)
(* A request's way through the system: the gateway dispatches it and calls *)
(* the service, whose interceptors recover from panics, log and check the  *)
(* token (pkg/interceptors, pkg/auth) before the handler runs.  The        *)
(* handlers of the user-service (internal/user) are here statement by      *)
(* statement; of the other services this module knows the answer only.     *)
(*                                                                         *)
(* One action is one access to the users table, one call of the            *)
(* user-service by another, or one message between gateway and service.    *)
(***************************************************************************)
EXTENDS UserAccounts, Gateway, Faults

CONSTANTS
    Callers,    \* HTTP clients; each has one request open at a time.
    Requests,   \* The [verb, url] they send,
    MaxCalls,   \* (bound) and how many in all.
    Crashing,   \* The services that may die.
    NoToken,    \* No Authorization header,
    Garbled,    \* or one that is no token.
    NoRequest   \* What a client waits for that waits for nothing.

ASSUME RequestsAssumption ==
    /\ MaxCalls \in Nat
    /\ \A q \in Requests : DOMAIN q = {"verb", "url"}
    /\ {NoToken, Garbled} \cap Token = {} /\ NoRequest \notin Requests

\* The RPCs the interceptor lets pass (the health check apart); the last three are meant for services only.
ForServices ==
    {"ProductService/ReserveStock", "ProductService/ReleaseStock", "UserService/GetAuthToken"}
PublicMethods ==
    {"UserService/Register", "UserService/Login",
     "ProductService/GetProduct", "ProductService/ListProducts",
     "OrderQueryService/GetOrder", "OrderQueryService/ListOrdersByUser",
     "PaymentService/GetPayment", "PaymentService/ListPaymentsByOrder"} \cup ForServices

\* Every name of the list is the name of a method: a misspelt one would be protected.
ASSUME PublicAssumption == PublicMethods \subseteq Rpcs

VARIABLES
    up,      \* The services that are running.
    http,    \* http[r]: the request the gateway has not yet answered r.
    call,    \* call[r]: the RPC that serves it, in its service.
    calls,   \* How many requests there were.
    drawn    \* How many times Register has drawn an id and a secret.

vars == <<users, issued, expired, faults, up, http, call, calls, drawn>>

Codes == {"OK", "InvalidArgument", "NotFound", "AlreadyExists", "Unauthenticated", "Internal"}
Pcs == {"none", "auth", "resolving", "validating", "handling", "writing", "replying"}

NoCall == [pc |-> "none", rpc |-> "", email |-> "", right |-> FALSE, id |-> 0,
           token |-> NoToken, secret |-> 0, hit |-> FALSE, code |-> "OK"]

CallType ==
    [pc : Pcs, rpc : Rpcs \cup {""}, email : Emails \cup {""}, right : BOOLEAN, id : 0..drawn,
     token : issued \cup {NoToken, Garbled}, secret : Nat, hit : BOOLEAN, code : Codes]

\* Register draws at most one id for a request.
TypeOK ==
    /\ AccountsType /\ FaultsType
    /\ up \subseteq Services
    /\ http \in [Callers -> Requests \cup {NoRequest}]
    /\ call \in [Callers -> CallType]
    /\ \A r \in Callers : call[r].pc # "none" => call[r].rpc \in Rpcs
    /\ calls \in 0..MaxCalls /\ drawn \in 0..calls

Init ==
    /\ AccountsInit /\ FaultsInit
    /\ up = Services
    /\ http = [r \in Callers |-> NoRequest]
    /\ call = [r \in Callers |-> NoCall]
    /\ calls = 0 /\ drawn = 0

-----------------------------------------------------------------------------
(* The gateway *)

Awaited(r) == http[r] # NoRequest
Free(r) == ~Awaited(r) /\ call[r].pc = "none"

Asks(r) ==
    /\ Free(r)
    /\ calls < MaxCalls /\ calls' = calls + 1
    /\ NoFault
    /\ UNCHANGED <<users, issued, expired, up, drawn>>

\* The gateway answers itself: no pattern matches, the body is not the JSON of the
\* RPC's message, or the service does not run, whose connection fails at once.
AnsweredByGateway(r, q) ==
    /\ Asks(r)
    /\ \/ Dispatch(q.verb, q.url) = {}
       \/ \E c \in Dispatch(q.verb, q.url) : c.body \/ ServedBy(c.rpc) \notin up
    /\ UNCHANGED <<http, call>>

\* The client stub calls the RPC with the Authorization header as metadata.  Only what
\* the RPC looks at is chosen.
Invoke(r, q, rpc) ==
    \E token \in (IF rpc \in PublicMethods THEN {} ELSE issued \cup {Garbled}) \cup {NoToken},
       email \in (IF rpc \in {"UserService/Register", "UserService/Login"} THEN Emails ELSE {})
                     \cup {""},
       right \in (IF rpc = "UserService/Login" THEN BOOLEAN ELSE {FALSE}),
       id \in (IF rpc \in {"UserService/GetUser", "UserService/UpdateUser"} THEN 0..drawn ELSE {0}) :
        /\ http' = [http EXCEPT ![r] = q]
        /\ call' = [call EXCEPT ![r] =
              [NoCall EXCEPT !.pc = "auth", !.rpc = rpc, !.email = email, !.right = right,
                             !.id = id, !.token = token]]

Forwarded(r, q) ==
    /\ Asks(r)
    /\ \E c \in Dispatch(q.verb, q.url) : ServedBy(c.rpc) \in up /\ Invoke(r, q, c.rpc)

-----------------------------------------------------------------------------
(* The interceptors *)

InCall(r, pc) == call[r].pc = pc /\ ServedBy(call[r].rpc) \in up

Goes(r, rec) ==
    /\ call' = [call EXCEPT ![r] = rec]
    /\ UNCHANGED <<up, http, calls, drawn>>
Advances(r, pc) == Goes(r, [call[r] EXCEPT !.pc = pc])
Ends(r, code) == Goes(r, [call[r] EXCEPT !.pc = "replying", !.code = code])
\* After a failed access, which the call's own cancellation explains or a fault.
EndsFailed(r, code) ==
    /\ Goes(r, [call[r] EXCEPT !.pc = "replying", !.code = code, !.hit = TRUE])
    /\ IF Awaited(r) THEN Fault("db_error") ELSE NoFault

\* The auth interceptor: public methods pass, the others need a token.
Authenticate(r) ==
    /\ InCall(r, "auth")
    /\ IF call[r].rpc \in PublicMethods THEN Advances(r, "handling")
       ELSE IF call[r].token \in {NoToken, Garbled} THEN Ends(r, "Unauthenticated")
       ELSE Advances(r, "resolving")
    /\ NoFault
    /\ UNCHANGED accounts

\* The row's secret is read, by the user-service for itself or by its GetAuthToken.
GetAuthToken(r) ==
    LET user == call[r].token.user IN
    \/ /\ Exists(user)
       /\ Goes(r, [call[r] EXCEPT !.pc = "validating", !.secret = users[user].secret])
       /\ NoFault
    \/ ~Exists(user) /\ Ends(r, "Unauthenticated") /\ NoFault
    \/ EndsFailed(r, "Unauthenticated")

DBTokenResolver(r) == call[r].rpc \in UserService /\ GetAuthToken(r)

\* Mutant of GRPCTokenResolver: the call waits until the user-service runs.
GRPCTokenResolverWaiting(r) ==
    call[r].rpc \notin UserService /\ "user-service" \in up /\ GetAuthToken(r)

\* The call fails at once when the user-service does not run.
GRPCTokenResolver(r) ==
    /\ call[r].rpc \notin UserService
    /\ IF "user-service" \in up THEN GetAuthToken(r)
       ELSE /\ Goes(r, [call[r] EXCEPT !.pc = "replying", !.code = "Unauthenticated",
                                       !.hit = TRUE])
            /\ NoFault

\* ResolveAuthToken, for the user the token names.
Resolve(r) ==
    /\ InCall(r, "resolving")
    /\ DBTokenResolver(r) \/ GRPCTokenResolver(r)
    /\ UNCHANGED accounts

\* Validate, and the handler with the claims in its context.
Validate(r) ==
    /\ InCall(r, "validating")
    /\ IF Valid(call[r].token, call[r].secret) THEN Advances(r, "handling")
       ELSE Ends(r, "Unauthenticated")
    /\ NoFault
    /\ UNCHANGED accounts

\* A handler panics, and RecoveryInterceptor answers for it.
Panic(r) ==
    /\ InCall(r, "handling")
    /\ Ends(r, "Internal")
    /\ Fault("panic")
    /\ UNCHANGED accounts

\* The answer, logged, goes to the gateway and to the client if it still waits.
Reply(r) ==
    /\ InCall(r, "replying")
    /\ call' = [call EXCEPT ![r] = NoCall]
    /\ http' = [http EXCEPT ![r] = NoRequest]
    /\ NoFault
    /\ UNCHANGED <<users, issued, expired, up, calls, drawn>>

-----------------------------------------------------------------------------
(* The handlers of the user-service *)

Handles(r, rpc) == InCall(r, "handling") /\ call[r].rpc = rpc

\* Register looks for the address and draws the id and the secret ...
RegisterCheck(r) ==
    /\ Handles(r, "UserService/Register")
    /\ UNCHANGED accounts
    /\ \/ call[r].email = "" /\ Ends(r, "InvalidArgument") /\ NoFault
       \/ call[r].email # "" /\ Registered(call[r].email) /\ Ends(r, "AlreadyExists") /\ NoFault
       \/ /\ call[r].email # "" /\ ~Registered(call[r].email)
          /\ call' = [call EXCEPT ![r] = [@ EXCEPT !.pc = "writing", !.id = drawn + 1]]
          /\ drawn' = drawn + 1
          /\ NoFault /\ UNCHANGED <<up, http, calls>>
       \/ call[r].email # "" /\ EndsFailed(r, "Internal")

\* Mutant of RegisterInsert: the error of the insert is not looked at.
RegisterUnchecked(r) ==
    /\ InCall(r, "writing") /\ call[r].rpc = "UserService/Register"
    /\ IF Registered(call[r].email) THEN UNCHANGED accounts ELSE Create(call[r].id, call[r].email)
    /\ Ends(r, "OK") /\ NoFault

\* Mutant of RegisterInsert: a row that was refused is tried again with another id.
RegisterRetried(r) ==
    /\ InCall(r, "writing") /\ call[r].rpc = "UserService/Register"
    /\ \/ Create(call[r].id, call[r].email) /\ Ends(r, "OK") /\ NoFault
       \/ /\ Registered(call[r].email) /\ UNCHANGED accounts
          /\ call' = [call EXCEPT ![r].id = drawn + 1]
          /\ drawn' = drawn + 1
          /\ NoFault /\ UNCHANGED <<up, http, calls>>

\* ... and inserts the row, which another Register may have done by now.
RegisterInsert(r) ==
    /\ InCall(r, "writing") /\ call[r].rpc = "UserService/Register"
    /\ \/ Create(call[r].id, call[r].email) /\ Ends(r, "OK") /\ NoFault
       \/ Registered(call[r].email) /\ UNCHANGED accounts /\ Ends(r, "Internal") /\ NoFault
       \/ UNCHANGED accounts /\ EndsFailed(r, "Internal")
       \/ Create(call[r].id, call[r].email) /\ EndsFailed(r, "Internal")

\* Login reads the row, compares the password and signs a token.
LoginUser(r) ==
    LET email == call[r].email IN
    /\ Handles(r, "UserService/Login")
    /\ \/ email = "" /\ Ends(r, "InvalidArgument") /\ NoFault /\ UNCHANGED accounts
       \/ /\ email # "" /\ ~(Registered(email) /\ call[r].right)
          /\ Ends(r, "Unauthenticated") /\ NoFault /\ UNCHANGED accounts
       \/ /\ email # "" /\ Registered(email) /\ call[r].right
          /\ Generate(ByEmail(email))
          /\ Goes(r, [call[r] EXCEPT !.pc = "replying", !.token = Signed(ByEmail(email))])
          /\ NoFault
       \/ email # "" /\ EndsFailed(r, "Internal") /\ UNCHANGED accounts

ReadUser(r) ==
    /\ Handles(r, "UserService/GetUser")
    /\ \/ Ends(r, IF Exists(call[r].id) THEN "OK" ELSE "NotFound") /\ NoFault
       \/ EndsFailed(r, "Internal")
    /\ UNCHANGED accounts

\* UpdateUser reads the row ...
UpdateRead(r) ==
    /\ Handles(r, "UserService/UpdateUser")
    /\ \/ Exists(call[r].id) /\ Advances(r, "writing") /\ NoFault
       \/ ~Exists(call[r].id) /\ Ends(r, "NotFound") /\ NoFault
       \/ EndsFailed(r, "Internal")
    /\ UNCHANGED accounts

\* ... and writes its names.
UpdateWrite(r) ==
    /\ InCall(r, "writing") /\ call[r].rpc = "UserService/UpdateUser"
    /\ \/ Update(call[r].id) /\ Ends(r, "OK") /\ NoFault
       \/ UNCHANGED accounts /\ EndsFailed(r, "Internal")
       \/ Update(call[r].id) /\ EndsFailed(r, "Internal")

\* The handlers of the other services answer with some code of theirs.
OtherHandler(r) ==
    /\ InCall(r, "handling") /\ call[r].rpc \notin UserService
    /\ \E code \in {"OK", "Internal"} : Ends(r, code)
    /\ NoFault
    /\ UNCHANGED accounts

-----------------------------------------------------------------------------
(* The environment *)

\* The client of r goes away: the gateway cancels the RPC, whose handler may go on.
ClientGone(r) ==
    /\ Awaited(r)
    /\ http' = [http EXCEPT ![r] = NoRequest]
    /\ Fault("client_gone")
    /\ UNCHANGED <<users, issued, expired, up, call, calls, drawn>>

\* A service dies, and the gateway answers Unavailable for the calls it had.
Crash(s) ==
    /\ s \in up \cap Crashing
    /\ Fault("crash")
    /\ up' = up \ {s}
    /\ LET dead == {r \in Callers : call[r].pc # "none" /\ ServedBy(call[r].rpc) = s}
       IN  /\ call' = [r \in Callers |-> IF r \in dead THEN NoCall ELSE call[r]]
           /\ http' = [r \in Callers |-> IF r \in dead THEN NoRequest ELSE http[r]]
    /\ UNCHANGED <<users, issued, expired, calls, drawn>>

Restart(s) ==
    /\ s \notin up
    /\ up' = up \cup {s}
    /\ NoFault
    /\ UNCHANGED <<users, issued, expired, http, call, calls, drawn>>

TokenExpires(t) ==
    /\ Expire(t)
    /\ NoFault
    /\ UNCHANGED <<up, http, call, calls, drawn>>

AtRest == calls = MaxCalls /\ (\A r \in Callers : Free(r)) /\ UNCHANGED vars

-----------------------------------------------------------------------------

ServiceStep(r) ==
    \/ Authenticate(r) \/ Resolve(r) \/ Validate(r)
    \/ RegisterCheck(r) \/ RegisterInsert(r) \/ LoginUser(r) \/ ReadUser(r)
    \/ UpdateRead(r) \/ UpdateWrite(r) \/ OtherHandler(r)
    \/ Reply(r)

Next ==
    \/ \E r \in Callers, q \in Requests :
          AnsweredByGateway(r, q) \/ Forwarded(r, q)
    \/ \E r \in Callers : ServiceStep(r) \/ Panic(r) \/ ClientGone(r)
    \/ \E s \in Services : Crash(s) \/ Restart(s)
    \/ \E t \in issued : TokenExpires(t)
    \/ AtRest

Spec == Init /\ [][Next]_vars

\* A goroutine goes on until its call ends.
FairSpec == Spec /\ \A r \in Callers : WF_vars(ServiceStep(r))

-----------------------------------------------------------------------------
(* What a client may rely on *)

Answering(r, rpc, code) ==
    call[r].pc = "replying" /\ call[r].rpc = rpc /\ call[r].code = code

\* The answers agree with the table: a Register that is answered OK is the account of
\* its address, one answered AlreadyExists, or Internal without a failure, has lost to
\* another, and the token of a Login is of the account of its address.
AnswersTrue ==
    \A r \in Callers :
        LET email == call[r].email
            Account(id) == Exists(id) /\ users[id].email = email
        IN  /\ Answering(r, "UserService/Register", "OK") =>
                  /\ Account(call[r].id)
                  /\ \A id \in DOMAIN users : users[id].email = email => id = call[r].id
            /\ Answering(r, "UserService/Register", "AlreadyExists") => Registered(email)
            /\ Answering(r, "UserService/Register", "Internal") /\ faults = 0 =>
                  \E id \in DOMAIN users : id # call[r].id /\ users[id].email = email
            /\ Answering(r, "UserService/Login", "OK") => Account(call[r].token.user)

\* The token of a Login is good for every RPC until it expires, whatever is registered
\* or updated meanwhile: a call is refused with it only if a lookup has failed.
TokensStayGood ==
    /\ \A t \in issued : Exists(t.user) /\ users[t.user].secret = t.secret
    /\ \A r \in Callers :
          call[r].rpc # "UserService/Login" /\ call[r].pc = "replying"
             /\ call[r].code = "Unauthenticated" /\ call[r].token \in issued \ expired
          => call[r].hit

\* A request reaches the one RPC whose pattern it fits, and never one that is meant
\* for services.
RoutedRight ==
    \A r \in Callers : call[r].pc # "none" =>
        /\ call[r].rpc \notin ForServices
        /\ Awaited(r) => {Routes[i].call.rpc : i \in Matching(http[r].verb, http[r].url)} = {call[r].rpc}

\* Every request is answered, through panics, crashes and refusals.
EveryRequestAnswered == \A r \in Callers : Awaited(r) ~> ~Awaited(r)

=============================================================================

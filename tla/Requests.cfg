SPECIFICATION FairSpec
CONSTANTS
    Callers = {r1, r2}
    Emails = {"a"}
    Requests <- MCRequests
    MaxCalls = 4
    Crashing = {"user-service", "order-service"}
    NoToken = NoToken
    Garbled = Garbled
    NoRequest = NoRequest
    FaultKinds = {"db_error", "panic", "client_gone", "crash"}
    MaxFaults = 1
INVARIANTS
    TypeOK
    AnswersTrue
    TokensStayGood
    RoutedRight
PROPERTIES
    EveryRequestAnswered

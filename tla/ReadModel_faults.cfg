SPECIFICATION Spec
CONSTANTS
    o1 = o1  o2 = o2  u1 = u1  q1 = q1  pay1 = pay1
    NoOrder = NoOrder
    NoPayment = NoPayment
    NoUser = NoUser
    NoView = NoView
    Orders <- MCOrders
    Users = {u1}
    UserOf <- MCUserOf
    Recency <- MCRecency
    Queries = {q1}
    Payments = {pay1}
    StreamOf <- MCStreamOf
    FaultKinds = {"redis_error", "publish_error", "ack_lost", "crash", "shutdown",
                  "expiry", "set_refused"}
    MaxFaults = 2
INVARIANTS
    TypeOK
    ViewsTrue
    ProjInv
    IndexedHasView
    ListComplete
PROPERTIES
    OutcomeStays

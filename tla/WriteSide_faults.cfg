SPECIFICATION Spec
CONSTANTS
    o1 = o1  o2 = o2  p1 = p1  p2 = p2  c1 = c1  c2 = c2  pay1 = pay1  pay2 = pay2
    NoOrder = NoOrder
    NoPayment = NoPayment
    Orders <- MCOrders
    Products <- MCProducts
    Cart <- MCSmallCart
    InitialStock <- MCInitialStock
    StreamOf <- MCStreamOf
    Cancels = {c1}
    Payments = {pay1, pay2}
    PaymentOutcomes = {"payments.completed", "payments.failed"}
    FaultKinds = {"rpc_error", "reply_lost", "release_lost", "append_error", "commit_unknown",
                  "publish_error", "partial_load", "ack_lost", "crash", "shutdown"}
    MaxFaults = 2
INVARIANTS
    TypeOK
    HistoryWellFormed
    HandlersInv
    PaidByItsPayment
PROPERTIES
    ImplementsLifecycle

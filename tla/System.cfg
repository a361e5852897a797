SPECIFICATION FairSpec
CONSTANTS
    o1 = o1  p1 = p1  u1 = u1  c1 = c1  pay1 = pay1  pay2 = pay2  r1 = r1
    NoOrder = NoOrder
    NoPayment = NoPayment
    NoRow = NoRow
    NoUser = NoUser
    NoView = NoView
    Orders <- MCOrders
    Products <- MCProducts
    InitialStock <- MCInitialStock
    Cart <- MCCart
    Cancels = {c1}
    Payments = {pay1, pay2}
    PaymentOutcomes = {"payments.completed"}
    Refunds = {r1}
    Readers = {}
    Users = {u1}
    UserOf <- MCUserOf
    Recency <- MCRecency
    Queries = {}
    StreamOf <- MCStreamOf
    FaultKinds = {"ack_lost", "crash", "expiry", "shutdown"}
    MaxFaults = 1
INVARIANTS
    OutcomesAgree
PROPERTIES
    EnvironmentsHold
    OrderSettles

SPECIFICATION FairSpec
CONSTANTS
    o1 = o1  o2 = o2  p1 = p1  p2 = p2  c1 = c1  c2 = c2  pay1 = pay1  pay2 = pay2
    NoOrder = NoOrder
    NoPayment = NoPayment
    Orders <- MCOrders
    Products <- MCProducts
    Cart <- MCCart
    InitialStock <- MCInitialStock
    StreamOf <- MCStreamOf
    Cancels = {c1}
    Payments = {pay1, pay2}
    PaymentOutcomes = {"payments.completed", "payments.failed"}
    FaultKinds = {"crash", "ack_lost"}
    MaxFaults = 1
INVARIANTS
    CreatedFirst
PROPERTIES
    PaymentSettlesOrder
    EveryEventAnnounced

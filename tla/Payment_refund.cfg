SPECIFICATION Spec
CONSTANTS
    o1 = o1  o2 = o2  pay1 = pay1  pay2 = pay2  pay3 = pay3
    r1 = r1  r2 = r2  q1 = q1
    NoPayment = NoPayment
    NoRow = NoRow
    Orders = {o1}
    Payments = {pay1}
    Refunds = {r1, r2}
    Readers = {}
    StreamOf <- MCStreamOf
    FaultKinds = {}
    MaxFaults = 0
PROPERTIES
    RefundsOnlyCompleted

SPECIFICATION Spec
CONSTANTS
    o1 = o1  o2 = o2  pay1 = pay1  pay2 = pay2  pay3 = pay3
    r1 = r1  r2 = r2  q1 = q1
    NoPayment = NoPayment
    NoRow = NoRow
    Orders = {o1, o2}
    Payments = {pay1, pay2}
    Refunds = {r1, r2}
    Readers = {q1}
    StreamOf <- MCStreamOf
    FaultKinds = {"db_error", "commit_unknown", "partial_read", "publish_error", "ack_lost",
                  "crash", "shutdown"}
    MaxFaults = 1
SYMMETRY MCSymmetry
INVARIANTS
    TypeOK
    ServiceInv
    ChargesJustified
    AnnouncedOnce
    AnswersStand
    ChargedOnce
PROPERTIES
    ImplementsLedger

------------------------- MODULE OrderWriteSideStock -------------------------
(***************************************************************************)
(* The books of the stock: what the product service counts against what    *)
(* the event store says was sold.  The two live in different databases     *)
(* and nothing but the handlers' order of calls keeps them together.       *)
(***************************************************************************)
EXTENDS OrderWriteSide, Functions

\* A service is sent finitely many requests: only then do the sums below exist.
FiniteRequests == IsFiniteSet(Orders) /\ IsFiniteSet(Cancels)

\* Units of product p in each line of the cart of o, and in the lines from..to.
LineUnits(o, p) ==
    [n \in 1..Len(Cart[o]) |-> IF Cart[o][n].product = p THEN Cart[o][n].quantity ELSE 0]
Units(o, p, from, to) == SumFunctionOnSet(LineUnits(o, p), from..to)
AllUnits(o, p) == Units(o, p, 1, Len(Cart[o]))

\* Units of orders that are placed and not cancelled.
SoldOf(p) == [o \in Orders |-> IF StatusOf(o) \in {"pending", "paid"} THEN AllUnits(o, p) ELSE 0]
Sold(p) == SumFunctionOnSet(SoldOf(p), Orders)

\* Units reserved by calls that have not stored their order yet or are giving
\* them back.  The units of an order that exists are sold, whatever its call does.
HeldForPlacing(p) ==
    [o \in Orders |-> IF place[o].pc \in {"reserving", "rollback"} /\ ~Created(o)
                      THEN Units(o, p, place[o].released + 1, place[o].reserved) ELSE 0]
HeldByPlacing(p) == SumFunctionOnSet(HeldForPlacing(p), Orders)

\* Units of cancelled orders whose CancelOrder call is still releasing them.
HeldForCancelling(p) ==
    [c \in Cancels |-> IF cancel[c].pc = "releasing"
                       THEN Units(cancel[c].order, p, cancel[c].released + 1,
                                  Len(Cart[cancel[c].order])) ELSE 0]
HeldByCancelling(p) == SumFunctionOnSet(HeldForCancelling(p), Cancels)

Accounted(p) == stock[p] + Sold(p) + HeldByPlacing(p) + HeldByCancelling(p)

\* Units PlaceOrder gave back although its order exists: the error of Append was
\* not the truth about the transaction.
GivenAwayOf(p) ==
    [o \in Orders |-> IF Created(o) THEN Units(o, p, 1, place[o].released) ELSE 0]
GivenAway(p) == SumFunctionOnSet(GivenAwayOf(p), Orders)

\* As long as nothing fails, no unit is created or lost by any interleaving of
\* placing, cancelling and paying: it is in stock, sold, or in the hands of a
\* call that will either sell it or give it back.
StockConserved == faults = 0 => \A p \in Products : Accounted(p) = InitialStock[p]

\* No unit is promised twice, even when calls fail, answers get lost and the
\* process crashes: units may leak, but none is in stock and sold, save those
\* PlaceOrder gives back after an Append that failed and committed all the same.
NoOversell == \A p \in Products : Accounted(p) <= InitialStock[p] + GivenAway(p)

\* What makes the bound hold again and again: the call of an order that exists
\* gives lines back only after an answer of Append that was not true.
GivenBackUnknowing ==
    \A o \in Orders : Created(o) =>
        \/ place[o].pc # "rollback" /\ place[o].released = 0
        \/ faults # 0 /\ "commit_unknown" \in FaultKinds

\* With nothing in progress, the units of an order that was not placed, or was
\* cancelled, are back in stock: what the documentation says of both.
UnitsComeBack ==
    Quiescent => \A p \in Products : stock[p] + Sold(p) = InitialStock[p]

=============================================================================

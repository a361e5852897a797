-------------------------- MODULE MCOrderWriteSide --------------------------
(***************************************************************************)
(* Two orders that compete for the same two products, taken in opposite    *)
(* order, with one unit too few for both; two cancellations; two payments. *)
(***************************************************************************)
EXTENDS OrderWriteSideStock, TLC

CONSTANTS o1, o2, p1, p2, c1, c2, pay1, pay2

MCOrders == {o1, o2}
MCProducts == {p1, p2}
MCCart == (o1 :> <<[product |-> p1, quantity |-> 1], [product |-> p2, quantity |-> 2]>>)
          @@ (o2 :> <<[product |-> p2, quantity |-> 1], [product |-> p1, quantity |-> 1]>>)
MCSmallCart == (o1 :> <<[product |-> p1, quantity |-> 1]>>)
               @@ (o2 :> <<[product |-> p1, quantity |-> 2]>>)
MCInitialStock == (p1 :> 2) @@ (p2 :> 2)
MCStreamOf == PaymentHandler :> "PAYMENTS"
=============================================================================

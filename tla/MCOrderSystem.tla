--------------------------- MODULE MCOrderSystem ---------------------------
(***************************************************************************)
(* One order of two units, one cancellation, two payments: one more than   *)
(* the order needs, for the delivery that a failure repeats.               *)
(***************************************************************************)
EXTENDS OrderSystem, TLC

CONSTANTS o1, p1, u1, c1, pay1, pay2, r1

MCOrders == {o1}
MCProducts == {p1}
MCCart == o1 :> <<[product |-> p1, quantity |-> 2]>>
MCInitialStock == p1 :> 2
MCUserOf == o1 :> u1
MCRecency == o1 :> 1
MCStreamOf == ("order-payment-handler" :> "PAYMENTS") @@ ("payment-processor" :> "ORDERS")
              @@ ("order-projector" :> "ORDERS")
=============================================================================

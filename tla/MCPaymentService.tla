-------------------------- MODULE MCPaymentService --------------------------
(***************************************************************************)
(* Up to two orders and three payments: one payment more than an order     *)
(* needs per redelivery of its message.                                    *)
(***************************************************************************)
EXTENDS PaymentService, TLC

CONSTANTS o1, o2, pay1, pay2, pay3, r1, r2, q1

MCStreamOf == PaymentProcessor :> "ORDERS"
MCSymmetry == Permutations({r1, r2}) \cup Permutations(Payments)
=============================================================================

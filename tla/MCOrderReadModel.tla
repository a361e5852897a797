-------------------------- MODULE MCOrderReadModel --------------------------
(***************************************************************************)
(* Two orders of one user, one query, one payment.                         *)
(***************************************************************************)
EXTENDS OrderReadModel, TLC

CONSTANTS o1, o2, u1, q1, pay1

MCOrders == {o1, o2}
MCUserOf == [o \in MCOrders |-> u1]
MCRecency == (o1 :> 1) @@ (o2 :> 2)
MCStreamOf == Projector :> "ORDERS"
=============================================================================

--------------------------- MODULE MCNotification ---------------------------
(***************************************************************************)
(* One event of an order and one of a payment, which the two consumers of  *)
(* the bridge forward side by side.                                        *)
(***************************************************************************)
EXTENDS Notification, TLC

CONSTANTS e1, e2

MCEvents == {e1, e2}
MCStreamFor == (e1 :> "ORDERS") @@ (e2 :> "PAYMENTS")
MCStreamOf == ("rabbitmq-bridge-orders" :> "ORDERS") @@ ("rabbitmq-bridge-payments" :> "PAYMENTS")
=============================================================================

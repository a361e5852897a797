---------------------------- MODULE PaymentLedger ----------------------------
(***************************************************************************)
(* What the payment service promises of a payment, whatever goes on        *)
(* inside: it is opened for one order, charged, and at most then refunded, *)
(* never back; and the world hears of it, under its order, only once it is *)
(* charged.                                                                *)
(***************************************************************************)
CONSTANTS Payments, Orders, NoRow

VARIABLES
    ledger,      \* ledger[p]: the order and the status of payment p, or NoRow.
    announced    \* The payments and their orders the world has heard of.

vars == <<ledger, announced>>

Init == ledger = [p \in Payments |-> NoRow] /\ announced = {}

Open(p, o) ==
    /\ ledger[p] = NoRow
    /\ ledger' = [ledger EXCEPT ![p] = [order |-> o, status |-> "pending"]]
    /\ UNCHANGED announced

Moves(p, old, new) ==
    /\ ledger[p] # NoRow /\ ledger[p].status = old
    /\ ledger' = [ledger EXCEPT ![p].status = new]
    /\ UNCHANGED announced

Charge(p) == Moves(p, "pending", "completed")
Refund(p) == Moves(p, "completed", "refunded")

Announce(p) ==
    /\ ledger[p] # NoRow /\ ledger[p].status \in {"completed", "refunded"}
    /\ announced' = announced \cup {[payment |-> p, order |-> ledger[p].order]}
    /\ UNCHANGED ledger

Next ==
    \E p \in Payments :
        (\E o \in Orders : Open(p, o)) \/ Charge(p) \/ Refund(p) \/ Announce(p)

Spec == Init /\ [][Next]_vars

=============================================================================

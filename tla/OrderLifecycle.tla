--------------------------- MODULE OrderLifecycle ---------------------------
(***************************************************************************)
(* What the order service promises of an order, whatever goes on inside:   *)
(* it is placed, and then paid or cancelled, once and for all; and the     *)
(* feed other services read (the stream ORDERS) holds each of these facts  *)
(* at most once and only after it became true.                             *)
(***************************************************************************)
EXTENDS Naturals, Sequences

CONSTANT Orders

VARIABLES
    status,   \* status[o] of each order; "none" before it is placed.
    feed      \* The facts announced so far.

vars == <<status, feed>>

Init == status = [o \in Orders |-> "none"] /\ feed = << >>

Becomes(o, old, new) ==
    /\ status[o] = old
    /\ status' = [status EXCEPT ![o] = new]
    /\ UNCHANGED feed

Place(o)  == Becomes(o, "none", "pending")
Pay(o)    == Becomes(o, "pending", "paid")
Cancel(o) == Becomes(o, "pending", "cancelled")

\* A fact about o that holds now, or held: a paid or cancelled order was pending.
Happened(o, s) == status[o] # "none" /\ s \in {"pending", status[o]}

Announced(o, s) == \E i \in 1..Len(feed) : feed[i] = [order |-> o, status |-> s]

Announce(o, s) ==
    /\ Happened(o, s)
    /\ ~Announced(o, s)
    /\ feed' = Append(feed, [order |-> o, status |-> s])
    /\ UNCHANGED status

Next ==
    \E o \in Orders :
        \/ Place(o) \/ Pay(o) \/ Cancel(o)
        \/ \E s \in {"pending", "paid", "cancelled"} : Announce(o, s)

Spec == Init /\ [][Next]_vars

=============================================================================

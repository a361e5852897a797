---------------------------- MODULE ProductStock ----------------------------
(***************************************************************************)
(* The stock column of the product service's table                        *)
(* (internal/product/repository/postgres.go, reached by the order service  *)
(* through the RPCs ReserveStock and ReleaseStock).  Each operation is one *)
(* conditional UPDATE, atomic in PostgreSQL.                               *)
(***************************************************************************)
EXTENDS Integers

CONSTANTS
    Products,      \* Product ids.
    InitialStock   \* The units of each product before any order.

ASSUME StockAssumption == InitialStock \in [Products -> Nat]

VARIABLE stock     \* stock[p] is stock_quantity of p.

StockType == stock \in [Products -> Nat]

StockInit == stock = InitialStock

\* Mutant of Available: an UPDATE without the condition.
AvailableAlways(p, quantity) == TRUE

\* The condition of the UPDATE; without a match the RPC answers Success: false.
Available(p, quantity) == stock[p] >= quantity

ReserveStock(p, quantity) ==
    Available(p, quantity) /\ stock' = [stock EXCEPT ![p] = @ - quantity]

ReleaseStock(p, quantity) == stock' = [stock EXCEPT ![p] = @ + quantity]

=============================================================================

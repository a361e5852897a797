-------------------------- MODULE MCProductCatalog --------------------------
(***************************************************************************)
(* One seed and two more products, two callers, and an int32 of four bits: *)
(* both page sizes of the code are 3, and page 4 of that size has an       *)
(* OFFSET that overflows.  Pages of one row make walks of several pages,   *)
(* with a product created between two of them.                             *)
(***************************************************************************)
EXTENDS ProductCatalog, TLC

CONSTANTS p1, p2, p3, s1, s2, s3, a1, a2

MCSeedSku == (p1 :> s1)
MCSeedStock == (p1 :> 7)
MCPages == {0, 2, 4}
MCSizes == {1, 4}
MCQuantities == {0, 7}
MCSymmetry == Permutations({a1, a2}) \cup Permutations({p2, p3}) \cup Permutations({s2, s3})
=============================================================================

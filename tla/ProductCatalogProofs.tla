------------------------ MODULE ProductCatalogProofs ------------------------
(***************************************************************************)
(* Proofs about ProductCatalog, for every set of products, every width of  *)
(* the integers, and every kind and number of failures.                    *)
(***************************************************************************)
EXTENDS ProductCatalog, FiniteSetTheorems, TLAPS

CallType == [pc : CallPcs, id : Ids \cup {NoProduct}, read : Product \cup {NoProduct},
             page : Int32, size : Int32, total : Nat, rows : SUBSET Ids]
WalkType == [pages : Nat, size : Int32, start : SUBSET Ids, seen : SUBSET Ids]

\* What is not in the types: a product is never deleted, so that the seeds are there,
\* under their skus, at every later start, and so are the row an update is about to
\* write, what a list counted, and what was there when somebody began to read pages.
RowsStay ==
    /\ \A p \in Seeds : products[p] # NoProduct /\ products[p].sku = SeedSku[p]
    /\ \A c \in Callers : call[c].pc = "updating" =>
          call[c].id \in Ids /\ products[call[c].id] # NoProduct

CatalogInv ==
    TypeOK /\ NoLostStock /\ RowsStay /\ IsFiniteSet(Listed)

\* A step takes no row away and moves none to another instant.
Grows ==
    Listed \subseteq Listed' /\ \A p \in Listed : products'[p].created = products[p].created

\* A step counts at most one failure, within the bound.
LEMMA FaultCounted ==
    ASSUME FaultsType, NEW kind, NoFault \/ Fault(kind)
    PROVE  FaultsType'
  BY FaultsAssumption DEF FaultsType, NoFault, Fault

-----------------------------------------------------------------------------
(* Integers *)

LEMMA Int32Type ==
    /\ Int32 \subseteq Int /\ 0 \in Int32 /\ 1 \in Int32 /\ 0..IntMax \subseteq Int32
    /\ \A n \in Int32 : -IntMax - 1 <= n /\ n <= IntMax
  BY CatalogAssumption DEF Int32

LEMMA AskedType ==
    ASSUME NEW page \in PageNumbers, NEW size \in PageSizes
    PROVE  PageAsked(page) \in Int32 /\ SizeAsked(size) \in Int32
  <1>1. DefaultPageSize \in 0..IntMax
    BY CatalogAssumption
  <1> QED
    BY <1>1, Int32Type, CatalogAssumption DEF PageAsked, SizeAsked

-----------------------------------------------------------------------------
(* One row changes *)

\* The call c ends, or goes on, and leaves the calls typed.
LEMMA EndsType ==
    ASSUME TypeOK, NEW c \in Callers, NEW pc \in CallPcs \ {"updating", "listing"}, Ends(c, pc)
    PROVE  /\ call' \in [Callers -> CallType]
           /\ \A d \in Callers : call'[d].pc = "updating" => call'[d] = call[d]
  <1>1. CallRest \in CallType
    BY Int32Type DEF CallRest, CallType, CallPcs
  <1>2. [CallRest EXCEPT !.pc = pc] \in CallType /\ [CallRest EXCEPT !.pc = pc].pc = pc
    BY <1>1 DEF CallType
  <1>3. call' = [call EXCEPT ![c] = [CallRest EXCEPT !.pc = pc]]
    BY DEF Ends
  <1> QED
    BY <1>2, <1>3 DEF TypeOK, CallType

\* A step that changes at most the stock and the details of a row, the stock and the
\* account alike.
RowChanges(p, row, units) ==
    /\ products[p] # NoProduct /\ row \in Product
    /\ row.sku = products[p].sku /\ row.created = products[p].created
    /\ row.stock = units
    /\ products' = [products EXCEPT ![p] = row]
    /\ account' = [account EXCEPT ![p] = units]

LEMMA RowChanged ==
    ASSUME CatalogInv, NEW p \in Ids, NEW row, NEW units, RowChanges(p, row, units),
           UNCHANGED <<clock, walk>>, FaultsType', call' \in [Callers -> CallType],
           \A c \in Callers : call'[c].pc = "updating" => call'[c] = call[c]
    PROVE  CatalogInv' /\ Grows
  <1> USE DEF CatalogInv, RowChanges
  <1>1. row \in Product /\ row # NoProduct /\ units \in Int32
    BY CatalogAssumption DEF Product
  <1>2. products' = [products EXCEPT ![p] = row] /\ account' = [account EXCEPT ![p] = units]
        /\ products \in [Ids -> Product \cup {NoProduct}] /\ account \in [Ids -> Int32]
    BY DEF TypeOK
  <1>3. TypeOK'
    BY <1>1, <1>2 DEF TypeOK, CallType
  <1>4. \A q \in Ids : products'[q] # NoProduct <=> products[q] # NoProduct
    BY <1>1, <1>2
  <1>5. Listed' = Listed
    BY <1>4 DEF Listed
  <1>6. \A q \in Listed : products'[q].sku = products[q].sku
    BY <1>2 DEF Listed
  <1>7. Grows
    BY <1>2, <1>5 DEF Grows, Listed
  <1>8. \A q \in Listed : products'[q].stock = account'[q]
    BY <1>1, <1>2 DEF NoLostStock, Listed
  <1>9. NoLostStock'
    BY <1>5, <1>8 DEF NoLostStock
  <1>10. Seeds \subseteq Ids
    BY CatalogAssumption
  <1>11. RowsStay'
    BY <1>4, <1>6, <1>10 DEF RowsStay, Listed
  <1> QED
    BY <1>3, <1>5, <1>7, <1>9, <1>11

LEMMA TableKept ==
    ASSUME CatalogInv, UNCHANGED <<products, clock, account>>, FaultsType',
           UNCHANGED walk \/ walk' \in [Callers -> WalkType],
           call' \in [Callers -> CallType],
           \A c \in Callers : call'[c].pc = "updating" =>
               call'[c].id \in Ids /\ products[call'[c].id] # NoProduct
    PROVE  CatalogInv' /\ Grows
  BY DEF CatalogInv, TypeOK, CallType, WalkType, NoLostStock, RowsStay, Listed, Grows

\* The update of one column.
LEMMA StockColumn ==
    ASSUME TypeOK, NEW p \in Ids, products[p] # NoProduct, NEW units \in Int32,
           products' = [products EXCEPT ![p].stock = units],
           account' = [account EXCEPT ![p] = units]
    PROVE  \E row : RowChanges(p, row, units)
  <1> DEFINE row == [products[p] EXCEPT !.stock = units]
  <1>1. products[p] \in Product
    BY DEF TypeOK
  <1>2. row \in Product /\ row.sku = products[p].sku
        /\ row.created = products[p].created /\ row.stock = units
    BY <1>1 DEF Product
  <1>3. products' = [products EXCEPT ![p] = row]
    OBVIOUS
  <1> QED
    BY <1>2, <1>3 DEF RowChanges

LEMMA DetailsColumn ==
    ASSUME TypeOK, NoLostStock, NEW p \in Ids, products[p] # NoProduct, NEW details \in Details,
           products' = [products EXCEPT ![p].details = details], UNCHANGED account
    PROVE  \E row : RowChanges(p, row, account[p])
  <1> DEFINE row == [products[p] EXCEPT !.details = details]
  <1>1. products[p] \in Product
    BY DEF TypeOK
  <1>2. row \in Product /\ row.sku = products[p].sku
        /\ row.created = products[p].created /\ row.stock = products[p].stock
    BY <1>1 DEF Product
  <1>3. products' = [products EXCEPT ![p] = row]
    OBVIOUS
  <1>4. products[p].stock = account[p] /\ account' = [account EXCEPT ![p] = account[p]]
    BY DEF NoLostStock, Listed, TypeOK
  <1> QED
    BY <1>2, <1>3, <1>4 DEF RowChanges

-----------------------------------------------------------------------------
(* Every step keeps the invariant *)

LEMMA CreateStep ==
    ASSUME CatalogInv, NEW c \in Callers, NEW p \in Ids, NEW sku \in Skus, NEW details \in Details,
           NEW quantity \in Quantities, CreateProduct(c, p, sku, details, quantity)
    PROVE  CatalogInv' /\ Grows
  <1> USE DEF CatalogInv
  <1>1. FaultsType'
    BY FaultCounted DEF TypeOK, CreateProduct
  <1>0. UNCHANGED walk
    BY DEF CreateProduct
  <1>2. PICK pc \in {"answered", "failed"} : Ends(c, pc)
    BY DEF CreateProduct
  <1>3. /\ call' \in [Callers -> CallType]
        /\ \A d \in Callers : call'[d].pc = "updating" => call'[d] = call[d]
    BY <1>2, EndsType DEF CallPcs
  <1>4. CASE UNCHANGED <<products, clock, account>>
    <2>1. \A d \in Callers : call'[d].pc = "updating" =>
              call'[d].id \in Ids /\ products[call'[d].id] # NoProduct
      BY <1>3 DEF RowsStay
    <2> QED
      BY <1>0, <1>1, <1>3, <1>4, <2>1, TableKept
  <1>5. ASSUME NEW began \in 1..clock,
               products' = [products EXCEPT ![p] =
                  [sku |-> sku, details |-> details, stock |-> quantity, created |-> began]],
               account' = [account EXCEPT ![p] = quantity], clock' = clock + 1
        PROVE  CatalogInv' /\ Grows
    <2> DEFINE row == [sku |-> sku, details |-> details, stock |-> quantity, created |-> began]
    <2>1. quantity \in Int32 /\ row \in Product
      <3>1. began \in Nat
        BY DEF TypeOK
      <3> QED
        BY <3>1, CatalogAssumption DEF Product
    <2>2. row # NoProduct /\ products[p] = NoProduct
      BY <2>1, CatalogAssumption DEF CreateProduct
    <2>3. row.sku = sku /\ row.stock = quantity
      OBVIOUS
    <2>4. products' = [products EXCEPT ![p] = row]
      BY <1>5
    <2> HIDE DEF row
    <2>5. \A q \in Ids : products'[q] = IF q = p THEN row ELSE products[q]
      BY <2>4 DEF TypeOK
    <2>6. TypeOK'
      BY <1>0, <1>1, <1>3, <1>5, <2>1, <2>4 DEF TypeOK, CallType
    <2>7. Listed' = Listed \cup {p} /\ p \notin Listed
      BY <2>2, <2>5 DEF Listed
    <2>8. Grows
      BY <2>5, <2>7 DEF Grows, Listed
    <2>9. NoLostStock'
      <3>1. \A q \in Ids : account'[q] = IF q = p THEN quantity ELSE account[q]
        BY <1>5 DEF TypeOK
      <3>2. \A q \in Listed \cup {p} : products'[q].stock = account'[q]
        BY <2>3, <2>5, <3>1 DEF NoLostStock, Listed
      <3> QED
        BY <2>7, <3>2 DEF NoLostStock
    <2>10. RowsStay'
      <3>1. \A q \in Ids : products[q] # NoProduct => products'[q] = products[q]
        BY <2>2, <2>5
      <3> QED
        BY <1>3, <3>1, CatalogAssumption DEF RowsStay
    <2>11. IsFiniteSet(Listed')
      BY <2>7, FS_AddElement
    <2> QED
      BY <2>6, <2>8, <2>9, <2>10, <2>11
  <1> QED
    BY <1>4, <1>5 DEF CreateProduct

\* Calls that change nothing but what they will answer.
LEMMA ReadStep ==
    ASSUME CatalogInv, NEW c \in Callers,
           \/ \E p \in Ids : GetProduct(c, p) \/ UpdateRead(c, p)
           \/ \E page \in PageNumbers, size \in PageSizes : ListCount(c, page, size)
    PROVE  CatalogInv' /\ Grows /\ Grows
  <1> USE DEF CatalogInv
  <1>1. UNCHANGED <<products, clock, walk, account>> /\ FaultsType'
    <2>1. FaultsType /\ (NoFault \/ Fault("db_error"))
      BY DEF GetProduct, UpdateRead, ListCount, TypeOK
    <2> QED
      BY <2>1, FaultCounted DEF GetProduct, UpdateRead, ListCount
  <1>2. ASSUME NEW pc \in CallPcs \ {"updating", "listing"}, Ends(c, pc)
        PROVE  CatalogInv' /\ Grows /\ Grows
    <2>1. \A d \in Callers : call'[d].pc = "updating" =>
              call'[d].id \in Ids /\ products[call'[d].id] # NoProduct
      BY <1>2, EndsType DEF RowsStay
    <2> QED
      BY <1>1, <1>2, <2>1, EndsType, TableKept
  <1>3. ASSUME NEW rec \in CallType, call' = [call EXCEPT ![c] = rec],
               rec.pc = "updating" => rec.id \in Ids /\ products[rec.id] # NoProduct
        PROVE  CatalogInv' /\ Grows /\ Grows
    <2>1. call' \in [Callers -> CallType]
      BY <1>3 DEF TypeOK, CallType
    <2>2. \A d \in Callers : call'[d].pc = "updating" =>
              call'[d].id \in Ids /\ products[call'[d].id] # NoProduct
      BY <1>3 DEF RowsStay, TypeOK
    <2> QED
      BY <1>1, <2>1, <2>2, TableKept
  <1>4. CallRest \in CallType
    BY Int32Type DEF CallRest, CallType, CallPcs
  <1>5. ASSUME NEW p \in Ids, GetProduct(c, p)
        PROVE  CatalogInv' /\ Grows /\ Grows
    BY <1>2, <1>5 DEF GetProduct, CallPcs
  <1>6. ASSUME NEW p \in Ids, UpdateRead(c, p)
        PROVE  CatalogInv' /\ Grows /\ Grows
    <2> DEFINE rec == [CallRest EXCEPT !.pc = "updating", !.id = p, !.read = products[p]]
    <2>1. rec \in CallType /\ rec.pc = "updating" /\ rec.id = p
      BY <1>4 DEF TypeOK, CallType, CallPcs
    <2>2. CASE products[p] # NoProduct /\ call' = [call EXCEPT ![c] = rec]
      <3> HIDE DEF rec
      <3> QED
        BY <1>3, <2>1, <2>2
    <2> QED
      BY <1>2, <1>6, <2>2 DEF UpdateRead, CallPcs
  <1>7. ASSUME NEW page \in PageNumbers, NEW size \in PageSizes, ListCount(c, page, size)
        PROVE  CatalogInv' /\ Grows /\ Grows
    <2> DEFINE rec == [CallRest EXCEPT !.pc = "listing", !.page = PageAsked(page),
                                       !.size = SizeAsked(size), !.total = Cardinality(Listed)]
    <2>1. Cardinality(Listed) \in Nat
      BY FS_CardinalityType
    <2>2. rec \in CallType /\ rec.pc = "listing"
      BY <1>4, <2>1, AskedType DEF CallType, CallPcs
    <2>3. CASE call' = [call EXCEPT ![c] = rec]
      <3> HIDE DEF rec
      <3> QED
        BY <1>3, <2>2, <2>3
    <2> QED
      BY <1>2, <1>7, <2>3 DEF ListCount, CallPcs
  <1> QED
    BY <1>5, <1>6, <1>7

LEMMA WalkOnType ==
    ASSUME NEW w \in WalkType, NEW page \in Int32, NEW size \in Int32, NEW rows \in SUBSET Ids
    PROVE  WalkOn(w, page, size, rows) \in WalkType
  <1>1. Listed \in SUBSET Ids /\ 0 \in Int32
    BY Int32Type DEF Listed
  <1>2. WalkRest \in WalkType
    BY <1>1 DEF WalkRest, WalkType
  <1>3. [pages |-> 1, size |-> size, start |-> Listed, seen |-> rows] \in WalkType
    BY <1>1 DEF WalkType
  <1>4. ASSUME page = w.pages + 1
        PROVE  [w EXCEPT !.pages = page, !.seen = @ \cup rows] \in WalkType
    <2>1. ASSUME NEW n \in Nat, NEW x \in SUBSET Ids
          PROVE  [w EXCEPT !.pages = n, !.seen = x] \in WalkType
      BY DEF WalkType
    <2>2. page \in Nat /\ w.seen \cup rows \in SUBSET Ids
      BY <1>4 DEF WalkType
    <2> QED
      BY <2>1, <2>2
  <1> QED
    BY <1>2, <1>3, <1>4 DEF WalkOn

\* A page, whole, cut or refused, changes nothing but the answer and the walk.
LEMMA PageStep ==
    ASSUME CatalogInv, NEW c \in Callers, ListPage(c)
    PROVE  CatalogInv' /\ Grows
  <1> USE DEF CatalogInv
  <1>1. UNCHANGED <<products, clock, account>> /\ FaultsType'
    <2>1. FaultsType /\ (NoFault \/ Fault("db_error") \/ Fault("partial_read"))
      BY DEF ListPage, TypeOK
    <2> QED
      BY <2>1, FaultCounted DEF ListPage
  <1>2. CallRest \in CallType
    BY Int32Type DEF CallRest, CallType, CallPcs
  <1>3. call \in [Callers -> CallType] /\ walk \in [Callers -> WalkType]
    BY DEF TypeOK, CallType, WalkType
  <1>4. ASSUME NEW rows \in SUBSET Ids, AnswersPage(c, rows)
        PROVE  /\ call' \in [Callers -> CallType]
               /\ \A d \in Callers : call'[d].pc = "updating" => call'[d] = call[d]
    <2> DEFINE rec == [CallRest EXCEPT !.pc = "answered", !.total = call[c].total, !.rows = rows]
    <2>1. rec \in CallType /\ rec.pc = "answered"
      BY <1>2, <1>3 DEF CallType, CallPcs
    <2>2. call' = [call EXCEPT ![c] = rec]
      BY <1>4 DEF AnswersPage
    <2> HIDE DEF rec
    <2> QED
      BY <1>3, <2>1, <2>2
  <1>5. \A rank, offset, n : Window(rank, offset, n) \in SUBSET Ids
    BY DEF Window, Listed
  <1>6. {} \in SUBSET Ids /\ WalkRest \in WalkType
    BY Int32Type DEF WalkRest, WalkType
  <1>7. \/ Ends(c, "failed")
        \/ \E rows \in SUBSET Ids : AnswersPage(c, rows)
    BY <1>5, <1>6 DEF ListPage
  <1>8. /\ call' \in [Callers -> CallType]
        /\ \A d \in Callers : call'[d].pc = "updating" => call'[d] = call[d]
    BY <1>4, <1>7, EndsType DEF CallPcs
  <1>9. UNCHANGED walk \/ walk' \in [Callers -> WalkType]
    <2>1. ASSUME NEW rows \in SUBSET Ids,
                 walk' = [walk EXCEPT ![c] = WalkOn(@, call[c].page, call[c].size, rows)]
          PROVE  walk' \in [Callers -> WalkType]
      <3>1. WalkOn(walk[c], call[c].page, call[c].size, rows) \in WalkType
        BY <1>3, WalkOnType DEF CallType
      <3> QED
        BY <1>3, <2>1, <3>1
    <2>2. ASSUME walk' = [walk EXCEPT ![c] = WalkRest]
          PROVE  walk' \in [Callers -> WalkType]
      BY <1>3, <1>6, <2>2
    <2> QED
      BY <1>5, <2>1, <2>2 DEF ListPage
  <1>10. \A d \in Callers : call'[d].pc = "updating" =>
            call'[d].id \in Ids /\ products[call'[d].id] # NoProduct
    BY <1>8 DEF RowsStay
  <1> QED
    BY <1>1, <1>8, <1>9, <1>10, TableKept

\* Steps that change the stock or the details of one row.
LEMMA InventoryStep ==
    ASSUME CatalogInv, NEW c \in Callers, NEW p \in Ids, NEW quantity \in Quantities,
           UpdateInventory(c, p, quantity)
    PROVE  CatalogInv' /\ Grows
  <1> USE DEF CatalogInv
  <1>1. FaultsType' /\ UNCHANGED <<clock, walk>>
    BY FaultCounted DEF TypeOK, UpdateInventory
  <1>2. PICK pc \in {"answered", "not_found", "failed"} : Ends(c, pc)
    BY DEF UpdateInventory
  <1>3. /\ call' \in [Callers -> CallType]
        /\ \A d \in Callers : call'[d].pc = "updating" => call'[d] = call[d]
    BY <1>2, EndsType DEF CallPcs
  <1>4. CASE UNCHANGED <<products, account>>
    <2>1. \A d \in Callers : call'[d].pc = "updating" =>
              call'[d].id \in Ids /\ products[call'[d].id] # NoProduct
      BY <1>3 DEF RowsStay
    <2> QED
      BY <1>1, <1>3, <1>4, <2>1, TableKept
  <1>5. CASE /\ products[p] # NoProduct
             /\ products' = [products EXCEPT ![p].stock = quantity]
             /\ account' = [account EXCEPT ![p] = quantity]
    <2>1. quantity \in Int32
      BY CatalogAssumption
    <2>2. PICK row : RowChanges(p, row, quantity)
      BY <1>5, <2>1, StockColumn
    <2> QED
      BY <1>1, <1>3, <2>2, RowChanged
  <1> QED
    BY <1>4, <1>5 DEF UpdateInventory

LEMMA StockStep ==
    ASSUME CatalogInv, NEW p \in Ids, NEW quantity \in Quantities,
           ReserveStock(p, quantity) \/ ReleaseStock(p, quantity)
    PROVE  CatalogInv' /\ Grows
  <1> USE DEF CatalogInv
  <1>1. UNCHANGED <<clock, call, walk>> /\ FaultsType' /\ products[p] # NoProduct
    BY DEF ReserveStock, ReleaseStock, NoFault, TypeOK, FaultsType
  <1>2. quantity \in Int /\ quantity > 0 /\ quantity <= IntMax
    BY Int32Type, CatalogAssumption DEF ReserveStock, ReleaseStock
  <1>3. products[p].stock \in Int32 /\ products[p].stock = account[p]
    BY <1>1 DEF TypeOK, Product, NoLostStock, Listed
  <1>4. PICK units \in Int32 :
           /\ products' = [products EXCEPT ![p].stock = units]
           /\ account' = [account EXCEPT ![p] = units]
    <2>1. IntMax \in Nat
      BY CatalogAssumption
    <2>2. CASE ReserveStock(p, quantity)
      <3>1. account[p] - quantity \in Int32
        BY <1>2, <1>3, <2>1, <2>2 DEF ReserveStock, Int32
      <3> QED
        BY <1>3, <2>2, <3>1 DEF ReserveStock
    <2>3. CASE ReleaseStock(p, quantity)
      <3>1. account[p] + quantity \in Int32
        BY <1>2, <1>3, <2>1, <2>3 DEF ReleaseStock, Int32
      <3> QED
        BY <1>3, <2>3, <3>1 DEF ReleaseStock
    <2> QED
      BY <2>2, <2>3
  <1>5. PICK row : RowChanges(p, row, units)
    BY <1>1, <1>4, StockColumn
  <1>6. call' \in [Callers -> CallType]
    BY <1>1 DEF TypeOK, CallType
  <1> QED
    BY <1>1, <1>5, <1>6, RowChanged

LEMMA WriteStep ==
    ASSUME CatalogInv, NEW c \in Callers, NEW details \in Details, UpdateWrite(c, details)
    PROVE  CatalogInv' /\ Grows
  <1> USE DEF CatalogInv
  <1>1. FaultsType' /\ UNCHANGED <<clock, walk, account>>
    BY FaultCounted DEF TypeOK, UpdateWrite
  <1>2. PICK pc \in {"answered", "failed"} : Ends(c, pc)
    BY DEF UpdateWrite
  <1>3. /\ call' \in [Callers -> CallType]
        /\ \A d \in Callers : call'[d].pc = "updating" => call'[d] = call[d]
    BY <1>2, EndsType DEF CallPcs
  <1>4. CASE UNCHANGED products
    <2>1. \A d \in Callers : call'[d].pc = "updating" =>
              call'[d].id \in Ids /\ products[call'[d].id] # NoProduct
      BY <1>3 DEF RowsStay
    <2> QED
      BY <1>1, <1>3, <1>4, <2>1, TableKept
  <1>5. CASE products' = [products EXCEPT ![call[c].id].details = details]
    <2>1. call[c].id \in Ids /\ products[call[c].id] # NoProduct
      BY DEF UpdateWrite, RowsStay
    <2>2. PICK row : RowChanges(call[c].id, row, account[call[c].id])
      BY <1>1, <1>5, <2>1, DetailsColumn
    <2> QED
      BY <1>1, <1>3, <2>1, <2>2, RowChanged
  <1> QED
    BY <1>4, <1>5 DEF UpdateWrite

\* At a later start every seed is there already.
LEMMA RestartStep ==
    ASSUME CatalogInv, Restart
    PROVE  CatalogInv' /\ Grows
  <1> USE DEF CatalogInv
  <1>1. FaultsType' /\ UNCHANGED <<clock, walk, account>>
    BY FaultCounted DEF TypeOK, Restart
  <1>2. \A p \in Seeds : SkuTaken(SeedSku[p])
    BY CatalogAssumption DEF RowsStay, SkuTaken, Listed
  <1>3. products' = products
    BY <1>2 DEF Restart, TypeOK
  <1>4. CallRest \in CallType
    BY Int32Type DEF CallRest, CallType, CallPcs
  <1>5. [CallRest EXCEPT !.pc = "failed"] \in CallType
        /\ [CallRest EXCEPT !.pc = "failed"].pc = "failed"
    BY <1>4 DEF CallType, CallPcs
  <1>6. call' = [c \in Callers |-> IF Free(c) THEN call[c] ELSE [CallRest EXCEPT !.pc = "failed"]]
    BY DEF Restart, CallsDropped
  <1>7. call' \in [Callers -> CallType]
    BY <1>5, <1>6 DEF TypeOK, CallType
  <1>8. \A c \in Callers : call'[c].pc = "updating" =>
            call'[c].id \in Ids /\ products[call'[c].id] # NoProduct
    BY <1>5, <1>6 DEF RowsStay
  <1> QED
    BY <1>1, <1>3, <1>7, <1>8, TableKept

LEMMA InitCatalog == Init => CatalogInv
  <1> SUFFICES ASSUME Init PROVE CatalogInv
    OBVIOUS
  <1>1. FaultsType
    BY FaultsAssumption DEF Init, FaultsInit, FaultsType
  <1>2. CallRest \in CallType
    BY Int32Type DEF CallRest, CallType, CallPcs
  <1>3. \A p \in Seeds : Seed(p) \in Product /\ Seed(p) # NoProduct
                         /\ Seed(p).sku = SeedSku[p] /\ Seed(p).stock = SeedStock[p]
    BY CatalogAssumption DEF Seed, Product
  <1>4. \A p \in Ids : products[p] = IF p \in Seeds THEN Seed(p) ELSE NoProduct
    BY DEF Init
  <1>5. Listed = Seeds
    BY <1>3, <1>4, CatalogAssumption DEF Listed
  <1>6. TypeOK
    <2>1. walk \in [Callers -> WalkType]
      BY Int32Type DEF Init, WalkRest, WalkType
    <2> QED
      BY <1>1, <1>2, <1>3, <2>1, Int32Type, CatalogAssumption DEF Init, TypeOK, CallType, WalkType
  <1>8. NoLostStock
    BY <1>3, <1>4, <1>5, CatalogAssumption DEF Init, NoLostStock
  <1>9. RowsStay
    BY <1>3, <1>4, CatalogAssumption DEF Init, CallRest, RowsStay
  <1> QED
    BY <1>5, <1>6, <1>8, <1>9, CatalogAssumption DEF CatalogInv

LEMMA StepCatalog == CatalogInv /\ [Next]_vars => CatalogInv' /\ Grows
  <1> SUFFICES ASSUME CatalogInv, [Next]_vars PROVE CatalogInv' /\ Grows
    OBVIOUS
  <1>1. CASE UNCHANGED vars
    BY <1>1, TableKept DEF vars, CatalogInv, TypeOK, CallType, WalkType, RowsStay, FaultsType
  <1> QED
    BY <1>1, CreateStep, ReadStep, PageStep, InventoryStep, StockStep, WriteStep, RestartStep DEF Next

-----------------------------------------------------------------------------

\* Every state the catalogue reaches is of its types: no stock, page or size leaves
\* the int32 of its column.
THEOREM TypeCorrect == Spec => []TypeOK
  <1>1. CatalogInv => TypeOK
    BY DEF CatalogInv
  <1> QED
    BY <1>1, InitCatalog, StepCatalog, PTL DEF Spec

\* No reservation, release or inventory is lost (repository/postgres.go).
THEOREM StockIsNotLost == Spec => []NoLostStock
  <1>1. CatalogInv => NoLostStock
    BY DEF CatalogInv
  <1> QED
    BY <1>1, InitCatalog, StepCatalog, PTL DEF Spec

-----------------------------------------------------------------------------
(* To the order service the table is the stock *)

SeedStocks == [p \in Seeds |-> StockOf(p)]

LEMMA StepStock ==
    ASSUME CatalogInv, [Next]_vars
    PROVE  \/ \A p \in Seeds : StockOf(p)' = StockOf(p)
           \/ \E c \in Callers, p \in Seeds, quantity \in Quantities :
                 UpdateInventory(c, p, quantity)
           \/ \E p \in Seeds, quantity \in Quantities :
                 Stock!ReserveStock(p, quantity) \/ Stock!ReleaseStock(p, quantity)
  <1> USE DEF CatalogInv
  <1>1. \A p \in Seeds : p \in Ids /\ products[p] # NoProduct /\ products[p] \in Product
    BY CatalogAssumption DEF RowsStay, TypeOK
  <1>2. products \in [Ids -> Product \cup {NoProduct}]
    BY DEF TypeOK
  <1>3. ASSUME UNCHANGED products
        PROVE  \A q \in Seeds : StockOf(q)' = StockOf(q)
    BY <1>3 DEF StockOf
  <1>4. ASSUME NEW p \in Ids, products[p] = NoProduct, NEW row, products' = [products EXCEPT ![p] = row]
        PROVE  \A q \in Seeds : StockOf(q)' = StockOf(q)
    BY <1>1, <1>2, <1>4 DEF StockOf
  <1>5. ASSUME NEW c \in Callers, NEW p \in Ids, NEW sku \in Skus, NEW details \in Details,
               NEW quantity \in Quantities, CreateProduct(c, p, sku, details, quantity)
        PROVE  \A q \in Seeds : StockOf(q)' = StockOf(q)
    BY <1>3, <1>4, <1>5 DEF CreateProduct
  <1>6. ASSUME NEW c \in Callers, NEW p \in Ids, NEW quantity \in Quantities,
               UpdateInventory(c, p, quantity), p \notin Seeds
        PROVE  \A q \in Seeds : StockOf(q)' = StockOf(q)
    BY <1>1, <1>2, <1>6 DEF UpdateInventory, StockOf
  <1>7. ASSUME NEW c \in Callers, NEW details \in Details, UpdateWrite(c, details)
        PROVE  \A q \in Seeds : StockOf(q)' = StockOf(q)
    <2> DEFINE p == call[c].id
    <2>1. CASE products' = [products EXCEPT ![p].details = details]
      <3>1. p \in Ids /\ products[p] \in Product
        BY <1>2, <1>7 DEF UpdateWrite, RowsStay
      <3>2. [products[p] EXCEPT !.details = details].stock = products[p].stock
        BY <3>1 DEF Product
      <3>3. products'[p] = [products[p] EXCEPT !.details = details]
            /\ \A q \in Ids \ {p} : products'[q] = products[q]
        BY <1>2, <2>1, <3>1
      <3>4. \A q \in Ids : products'[q].stock = products[q].stock
        BY <3>2, <3>3
      <3> QED
        BY <1>1, <3>4 DEF StockOf
    <2> QED
      BY <1>3, <1>7, <2>1 DEF UpdateWrite
  <1>8. ASSUME NEW p \in Ids, NEW units, products[p] \in Product,
               products' = [products EXCEPT ![p].stock = units]
        PROVE  IF p \in Seeds THEN SeedStocks' = [SeedStocks EXCEPT ![p] = units]
                              ELSE \A q \in Seeds : StockOf(q)' = StockOf(q)
    <2>1. products'[p].stock = units /\ \A q \in Ids \ {p} : products'[q] = products[q]
      BY <1>2, <1>8 DEF Product
    <2>2. SeedStocks = [q \in Seeds |-> products[q].stock]
          /\ SeedStocks' = [q \in Seeds |-> products'[q].stock]
      BY DEF SeedStocks, StockOf
    <2>3. CASE p \in Seeds
      BY <1>1, <2>1, <2>2, <2>3
    <2>4. CASE p \notin Seeds
      BY <1>1, <2>1, <2>4 DEF StockOf
    <2> QED
      BY <2>3, <2>4
  <1>9. ASSUME NEW p \in Ids, NEW quantity \in Quantities, ReserveStock(p, quantity)
        PROVE  \/ \A q \in Seeds : StockOf(q)' = StockOf(q)
               \/ p \in Seeds /\ Stock!ReserveStock(p, quantity)
    <2>1. products[p] \in Product /\ products[p].stock >= quantity
          /\ products' = [products EXCEPT ![p].stock = products[p].stock - quantity]
      BY <1>2, <1>9 DEF ReserveStock
    <2>2. CASE p \in Seeds
      <3>1. SeedStocks' = [SeedStocks EXCEPT ![p] = products[p].stock - quantity]
            /\ SeedStocks[p] = products[p].stock
        BY <1>8, <2>1, <2>2 DEF SeedStocks, StockOf
      <3>2. Stock!ReserveStock(p, quantity)
        BY <2>1, <2>2, <3>1 DEF Stock!ReserveStock, Stock!Available, SeedStocks
      <3> QED
        BY <2>2, <3>2
    <2> QED
      BY <1>8, <2>1, <2>2
  <1>10. ASSUME NEW p \in Ids, NEW quantity \in Quantities, ReleaseStock(p, quantity)
         PROVE  \/ \A q \in Seeds : StockOf(q)' = StockOf(q)
                \/ p \in Seeds /\ Stock!ReleaseStock(p, quantity)
    <2>1. products[p] \in Product
          /\ products' = [products EXCEPT ![p].stock = products[p].stock + quantity]
      BY <1>2, <1>10 DEF ReleaseStock
    <2>2. CASE p \in Seeds
      <3>1. SeedStocks' = [SeedStocks EXCEPT ![p] = products[p].stock + quantity]
            /\ SeedStocks[p] = products[p].stock
        BY <1>8, <2>1, <2>2 DEF SeedStocks, StockOf
      <3>2. Stock!ReleaseStock(p, quantity)
        BY <2>1, <2>2, <3>1 DEF Stock!ReleaseStock, SeedStocks
      <3> QED
        BY <2>2, <3>2
    <2> QED
      BY <1>8, <2>1, <2>2
  <1>11. CASE Restart
    <2>1. \A p \in Seeds : SkuTaken(SeedSku[p])
      BY <1>1 DEF RowsStay, SkuTaken, Listed
    <2> QED
      BY <1>1, <1>11, <2>1 DEF Restart, StockOf
  <1>12. CASE Next
    <2>1. CASE \E p \in Ids, quantity \in Quantities : ReserveStock(p, quantity)
      BY <1>9, <2>1 DEF Stock!ReserveStock
    <2>2. CASE \E p \in Ids, quantity \in Quantities : ReleaseStock(p, quantity)
      BY <1>10, <2>2 DEF Stock!ReleaseStock
    <2> QED
      BY <1>3, <1>5, <1>6, <1>7, <1>11, <1>12, <2>1, <2>2
         DEF Next, GetProduct, UpdateRead, ListCount, ListPage
  <1> QED
    BY <1>3, <1>12 DEF vars

\* Unless an administrator sets it, a stock changes by a reservation that it covers
\* or by a release: the table is the ProductStock that the order service relies on.
THEOREM StockImplemented == Spec => ImplementsStock
  <1>1. CatalogInv /\ [Next]_vars =>
            [\/ \A p \in Seeds : StockOf(p)' = StockOf(p)
             \/ \E c \in Callers, p \in Seeds, quantity \in Quantities :
                   UpdateInventory(c, p, quantity)
             \/ \E p \in Seeds, quantity \in Quantities :
                   Stock!ReserveStock(p, quantity) \/ Stock!ReleaseStock(p, quantity)]_vars
    BY StepStock
  <1> QED
    BY <1>1, InitCatalog, StepCatalog, PTL DEF Spec, ImplementsStock

-----------------------------------------------------------------------------
(* Pages *)

\* A call that is to read a page has a page number and a size from which a window
\* can be made, and counted no more products than there are.
PageInv == \A c \in Callers : call[c].pc = "listing" =>
              /\ call[c].page \in 1..IntMax /\ call[c].size \in 1..IntMax
              /\ call[c].total <= Cardinality(Listed)

\* No wrap where none is needed.
LEMMA OffsetOfPage ==
    ASSUME NEW page \in 1..IntMax, NEW size \in 1..IntMax, Fits(page, size)
    PROVE  /\ Limit(size) = size
           /\ Offset(page, size) = (page - 1) * size
           /\ (page - 1) * size \in Nat
  <1>1. /\ IntMax \in Nat \ {0} /\ MaxPageSize \in Nat /\ page - 1 \in Nat /\ size \in Nat
        /\ size <= MaxPageSize /\ (page - 1) * size <= IntMax
    BY CatalogAssumption DEF Fits
  <1>2. Limit(size) = size
    BY <1>1 DEF Limit
  <1>3. ASSUME NEW a \in Nat, NEW b \in Nat
        PROVE  a * b \in Nat
    BY <1>3
  <1>4. (page - 1) * size \in Nat
    BY <1>1, <1>3
  <1>5. ASSUME NEW n \in Nat, n <= IntMax
        PROVE  Wrap(n) = n
    <2>1. n + IntMax + 1 \in 0..(2 * (IntMax + 1) - 1)
      BY <1>1, <1>5
    <2>2. ASSUME NEW m \in Nat \ {0}, NEW k \in 0..(m - 1)
          PROVE  k % m = k
      BY <2>2, SMT
    <2>3. (n + IntMax + 1) % (2 * (IntMax + 1)) = n + IntMax + 1
      <3>1. 2 * (IntMax + 1) \in Nat \ {0}
        BY <1>1
      <3> QED
        BY <2>1, <2>2, <3>1
    <2> QED
      BY <1>1, <2>3 DEF Wrap
  <1>6. Wrap((page - 1) * size) = (page - 1) * size
    BY <1>1, <1>4, <1>5
  <1> QED
    BY <1>2, <1>4, <1>6 DEF Offset

\* The rank of a row lies between the numbers of rows that are newer and as new.
LEMMA RankOfRow ==
    ASSUME TypeOK, IsFiniteSet(Listed), NEW rank \in Rankings, NEW p \in Listed
    PROVE  /\ rank[p] \in 1..Cardinality(Listed)
           /\ Cardinality(Newer(p)) \in Nat /\ Cardinality(AsNew(p)) \in Nat
           /\ Cardinality(Newer(p)) < rank[p]
           /\ rank[p] <= Cardinality(AsNew(p))
  <1> DEFINE n == Cardinality(Listed)
             r == rank[p]
             front == {q \in Listed : rank[q] <= r}
  <1>1. n \in Nat
    BY FS_CardinalityType
  <1>2. /\ rank \in [Listed -> 1..n]
        /\ \A q, t \in Listed : q # t =>
              rank[q] # rank[t] /\ (products[q].created > products[t].created => rank[q] < rank[t])
    BY DEF Rankings
  <1>3. \A q \in Listed : products[q].created \in Nat
    BY DEF TypeOK, Listed, Product
  <1>4. r \in 1..n /\ r \in Nat
    BY <1>1, <1>2
  <1>5. /\ Newer(p) \in SUBSET Listed /\ AsNew(p) \in SUBSET Listed
        /\ front \in SUBSET Listed
    BY DEF Newer, AsNew
  <1>6. /\ IsFiniteSet(Newer(p)) /\ IsFiniteSet(AsNew(p)) /\ IsFiniteSet(front)
        /\ Cardinality(Newer(p)) \in Nat /\ Cardinality(AsNew(p)) \in Nat
        /\ Cardinality(front) \in Nat
    BY <1>5, FS_Subset, FS_CardinalityType
  <1>7. Cardinality(Newer(p)) < r
    <2> DEFINE f == [q \in Newer(p) |-> rank[q]]
    <2>1. \A q \in Newer(p) : q \in Listed /\ rank[q] \in 1..(r - 1)
      BY <1>1, <1>2, <1>3, <1>4 DEF Newer
    <2>2. f \in Injection(Newer(p), 1..(r - 1))
      BY <1>2, <2>1 DEF Injection, IsInjective
    <2>3. IsFiniteSet(1..(r - 1)) /\ Cardinality(1..(r - 1)) = r - 1
      <3>1. r - 1 \in Nat
        BY <1>1, <1>4
      <3>2. ASSUME NEW k \in Nat PROVE IsFiniteSet(1..k) /\ Cardinality(1..k) = k
        BY FS_Interval
      <3> QED
        BY <3>1, <3>2
    <2>4. Cardinality(Newer(p)) <= r - 1
      BY <2>2, <2>3, FS_Injection
    <2> QED
      BY <1>4, <1>6, <2>4
  <1>8. r <= Cardinality(front)
    <2> DEFINE f == [q \in front |-> rank[q]]
    <2>1. rank \in Injection(Listed, 1..n)
      BY <1>2 DEF Injection, IsInjective
    <2>2. IsFiniteSet(1..n) /\ Cardinality(1..n) = n
      BY <1>1, FS_Interval
    <2>3. rank \in Surjection(Listed, 1..n)
      BY <2>1, <2>2, FS_Injection
    <2>4. f \in Surjection(front, 1..r)
      <3>1. \A k \in 1..r : k \in 1..n
        BY <1>1, <1>4
      <3>2. \A k \in 1..r : \E q \in Listed : rank[q] = k
        BY <2>3, <3>1 DEF Surjection
      <3>3. \A k \in 1..r : \E q \in front : f[q] = k
        BY <3>2
      <3>4. \A q \in front : f[q] \in 1..r
        BY <1>1, <1>2, <1>4
      <3> HIDE DEF front
      <3> QED
        BY <3>3, <3>4 DEF Surjection
    <2>5. IsFiniteSet(1..r) /\ Cardinality(1..r) = r
      BY <1>4, FS_Interval
    <2> HIDE DEF front
    <2> QED
      BY <1>6, <2>4, <2>5, FS_Surjection
  <1>9. front \subseteq AsNew(p)
    BY <1>1, <1>2, <1>3, <1>4 DEF AsNew
  <1>10. Cardinality(front) <= Cardinality(AsNew(p))
    BY <1>6, <1>9, FS_Subset
  <1> QED
    BY <1>4, <1>6, <1>7, <1>8, <1>10

\* Of rows that share no instant, one more is as new as it is newer.
LEMMA AloneInItsInstant ==
    ASSUME TypeOK, IsFiniteSet(Listed), NEW p \in Listed,
           Alone(p)
    PROVE  Cardinality(AsNew(p)) = Cardinality(Newer(p)) + 1
  <1>1. \A q \in Listed : products[q].created \in Nat
    BY DEF TypeOK, Listed, Product
  <1>2. AsNew(p) = Newer(p) \cup {p} /\ p \notin Newer(p)
    BY <1>1 DEF AsNew, Newer, Alone
  <1>3. IsFiniteSet(Newer(p))
    BY FS_Subset DEF Newer
  <1> QED
    BY <1>2, <1>3, FS_AddElement

\* The first rows of a ranking from a place on are those the property names.
LEMMA WindowOfRanking ==
    ASSUME TypeOK, IsFiniteSet(Listed), NEW rank \in Rankings, NEW before \in Nat, NEW n \in Nat
    PROVE  /\ \A p \in Window(rank, before, n) :
                 Cardinality(Newer(p)) < before + n /\ Cardinality(AsNew(p)) > before
           /\ \A p \in Window(rank, before, n), q \in Listed \ Window(rank, before, n) :
                 q \in Newer(p) => Cardinality(Newer(q)) < before
           /\ \A p \in Listed \ Window(rank, before, n) :
                 \/ Cardinality(Newer(p)) >= before + n
                 \/ Cardinality(AsNew(p)) <= before
                 \/ ~Alone(p)
           /\ IsFiniteSet(Window(rank, before, n)) /\ Cardinality(Window(rank, before, n)) <= n
           /\ \/ Cardinality(Window(rank, before, n)) = n
              \/ before + Cardinality(Window(rank, before, n)) >= Cardinality(Listed)
  <1> DEFINE rows == Window(rank, before, n)
             all == Cardinality(Listed)
  <1>1. all \in Nat
    BY FS_CardinalityType
  <1>2. /\ rank \in [Listed -> 1..all]
        /\ \A q, t \in Listed : q # t =>
              rank[q] # rank[t] /\ (products[q].created > products[t].created => rank[q] < rank[t])
    BY DEF Rankings
  <1>3. \A p \in Listed : p \in rows <=> rank[p] - before \in 1..n
    BY DEF Window
  <1>4. rows \in SUBSET Listed /\ IsFiniteSet(rows) /\ Cardinality(rows) \in Nat
    <2>1. rows \in SUBSET Listed
      BY DEF Window
    <2> QED
      BY <2>1, FS_Subset, FS_CardinalityType
  <1> HIDE DEF rows, all
  <1>5. ASSUME NEW p \in rows
        PROVE  Cardinality(Newer(p)) < before + n /\ Cardinality(AsNew(p)) > before
    BY <1>1, <1>3, <1>4, <1>5, RankOfRow DEF all
  <1>6. ASSUME NEW p \in rows, NEW q \in Listed \ rows, q \in Newer(p)
        PROVE  Cardinality(Newer(q)) < before
    <2>1. p \in Listed /\ p # q /\ rank[q] < rank[p]
      <3>1. products[q].created > products[p].created
        BY <1>6 DEF Newer
      <3>2. products[p].created \in Nat
        BY <1>4 DEF TypeOK, Listed, Product
      <3> QED
        BY <1>2, <1>4, <3>1, <3>2
    <2>2. rank[p] \in 1..all /\ rank[q] \in 1..all
      BY <1>2, <2>1
    <2>3. rank[q] <= before
      BY <1>1, <1>3, <2>1, <2>2
    <2>4. Cardinality(Newer(q)) \in Nat /\ Cardinality(Newer(q)) < rank[q]
      BY RankOfRow
    <2> QED
      BY <1>1, <2>2, <2>3, <2>4
  <1>7. ASSUME NEW p \in Listed \ rows, Alone(p)
        PROVE  Cardinality(Newer(p)) >= before + n \/ Cardinality(AsNew(p)) <= before
    BY <1>1, <1>3, <1>7, RankOfRow, AloneInItsInstant DEF all
  <1>8. Cardinality(rows) <= n
    <2> DEFINE f == [p \in rows |-> rank[p] - before]
    <2>1. f \in Injection(rows, 1..n)
      BY <1>1, <1>2, <1>3, <1>4 DEF Injection, IsInjective
    <2>2. IsFiniteSet(1..n) /\ Cardinality(1..n) = n
      BY FS_Interval
    <2> QED
      BY <2>1, <2>2, FS_Injection
  <1>9. ASSUME NEW m \in Nat, m <= n, before + m <= all
        PROVE  m <= Cardinality(rows)
    <2> DEFINE front == {p \in rows : rank[p] - before \in 1..m}
               f == [p \in front |-> rank[p] - before]
    <2>1. IsFiniteSet(front) /\ Cardinality(front) <= Cardinality(rows)
          /\ Cardinality(front) \in Nat
      <3>1. front \in SUBSET rows
        OBVIOUS
      <3> QED
        BY <1>4, <3>1, FS_Subset, FS_CardinalityType
    <2>2. IsFiniteSet(1..all) /\ Cardinality(1..all) = all
      BY <1>1, FS_Interval
    <2>3. rank \in Surjection(Listed, 1..all)
      <3>1. rank \in Injection(Listed, 1..all)
        BY <1>2 DEF Injection, IsInjective
      <3> QED
        BY <2>2, <3>1, FS_Injection DEF all
    <2>4. \A k \in 1..m : \E p \in front : rank[p] - before = k
      <3> SUFFICES ASSUME NEW k \in 1..m PROVE \E p \in front : rank[p] - before = k
        OBVIOUS
      <3>1. before + k \in 1..all /\ k \in 1..n
        BY <1>1, <1>9
      <3>2. PICK p \in Listed : rank[p] = before + k
        BY <2>3, <3>1 DEF Surjection
      <3>3. rank[p] - before = k
        BY <3>2
      <3> QED
        BY <1>3, <3>1, <3>3
    <2>5. f \in Surjection(front, 1..m)
      <3>1. \A p \in front : f[p] \in 1..m
        OBVIOUS
      <3>2. \A k \in 1..m : \E p \in front : f[p] = k
        BY <2>4
      <3> HIDE DEF front
      <3> QED
        BY <3>1, <3>2 DEF Surjection
    <2>6. IsFiniteSet(1..m) /\ Cardinality(1..m) = m
      BY FS_Interval
    <2> HIDE DEF front, f
    <2>7. m <= Cardinality(front)
      BY <2>1, <2>5, <2>6, FS_Surjection
    <2> QED
      BY <1>4, <2>1, <2>7
  <1>10. Cardinality(rows) = n \/ before + Cardinality(rows) >= all
    <2>1. CASE before + n <= all
      BY <1>4, <1>8, <1>9, <2>1
    <2>2. CASE before <= all /\ before + n > all
      <3>1. all - before \in Nat /\ all - before <= n
        BY <1>1, <2>2
      <3>2. all - before <= Cardinality(rows)
        BY <1>1, <1>9, <3>1
      <3> QED
        BY <1>1, <1>4, <3>2
    <2> QED
      BY <1>1, <1>4, <2>1, <2>2
  <1> QED
    BY <1>4, <1>5, <1>6, <1>7, <1>8, <1>10 DEF rows, all

\* Only ListPage answers a call that is to read a page.
LEMMA OnlyListPage ==
    ASSUME TypeOK, [Next]_vars, NEW c \in Callers, call[c].pc = "listing"
    PROVE  call'[c] = call[c] \/ ListPage(c) \/ call'[c] = [CallRest EXCEPT !.pc = "failed"]
  <1>1. ~Free(c) /\ call[c].pc # "updating" /\ call \in [Callers -> CallType]
    BY DEF Free, TypeOK, CallType
  <1>2. CASE UNCHANGED call
    BY <1>2
  <1>3. ASSUME NEW d \in Callers, d # c, NEW rec, call' = [call EXCEPT ![d] = rec]
        PROVE  call'[c] = call[c]
    BY <1>1, <1>3
  <1>4. CASE Restart
    BY <1>1, <1>4 DEF Restart, CallsDropped
  <1>5. ASSUME NEW d \in Callers, d # c, NEW pc, Ends(d, pc)
        PROVE  call'[c] = call[c]
    BY <1>3, <1>5 DEF Ends
  <1>6. ASSUME NEW d \in Callers,
               \/ \E p \in Ids :
                     \/ \E sku \in Skus, details \in Details, quantity \in Quantities :
                           CreateProduct(d, p, sku, details, quantity)
                     \/ GetProduct(d, p)
                     \/ \E quantity \in Quantities : UpdateInventory(d, p, quantity)
                     \/ UpdateRead(d, p)
               \/ \E details \in Details : UpdateWrite(d, details)
               \/ \E page \in PageNumbers, size \in PageSizes : ListCount(d, page, size)
        PROVE  d # c /\ \E rec : call' = [call EXCEPT ![d] = rec]
    <2>1. d # c
      BY <1>1, <1>6 DEF CreateProduct, GetProduct, UpdateInventory, UpdateRead, UpdateWrite, ListCount
    <2>2. ASSUME NEW pc, Ends(d, pc)
          PROVE  \E rec : call' = [call EXCEPT ![d] = rec]
      BY <2>2 DEF Ends
    <2> QED
      BY <1>6, <2>1, <2>2 DEF CreateProduct, GetProduct, UpdateInventory, UpdateRead, UpdateWrite,
                              ListCount
  <1>7. ASSUME NEW d \in Callers, d # c, ListPage(d)
        PROVE  call'[c] = call[c]
    BY <1>3, <1>5, <1>7 DEF ListPage, AnswersPage
  <1>8. ASSUME NEW p \in Ids, NEW quantity \in Quantities,
               ReserveStock(p, quantity) \/ ReleaseStock(p, quantity)
        PROVE  UNCHANGED call
    BY <1>8 DEF ReserveStock, ReleaseStock
  <1> QED
    BY <1>2, <1>3, <1>4, <1>6, <1>7, <1>8 DEF Next, vars

\* What ListPage answers, and what the caller has then read, where the offset fits.
LEMMA PageAnswered ==
    ASSUME TypeOK, PageInv, NEW c \in Callers, ListPage(c)
    PROVE  \/ /\ call'[c].pc = "failed"
              /\ UNCHANGED walk
           \/ /\ call'[c].pc = "answered" /\ call'[c].total = call[c].total
              /\ Fits(call[c].page, call[c].size) =>
                    \E rank \in Rankings, n \in 0..call[c].size :
                       /\ call'[c].rows =
                             Window(rank, (call[c].page - 1) * call[c].size, n)
                       /\ n = call[c].size \/ faults' # faults
              /\ \A d \in Callers \ {c} : walk'[d] = walk[d]
              /\ \/ walk'[c] = WalkRest
                 \/ /\ Fits(call[c].page, call[c].size)
                    /\ \E rank \in Rankings :
                          walk'[c] = WalkOn(walk[c], call[c].page, call[c].size,
                             Window(rank, (call[c].page - 1) * call[c].size, call[c].size))
  <1> DEFINE page == call[c].page
             size == call[c].size
             offset == Offset(page, size)
  <1>1. call \in [Callers -> CallType] /\ walk \in [Callers -> WalkType]
    BY DEF TypeOK, CallType, WalkType
  <1>2. CASE Ends(c, "failed") /\ UNCHANGED walk
    BY <1>1, <1>2 DEF Ends, CallRest
  <1>3. ASSUME NEW rows, AnswersPage(c, rows)
        PROVE  call'[c].pc = "answered" /\ call'[c].total = call[c].total /\ call'[c].rows = rows
    BY <1>1, <1>3 DEF AnswersPage, CallRest
  <1>4. Fits(page, size) => Limit(size) = size /\ offset = (page - 1) * size
                            /\ offset >= 0 /\ size \in 0..size
    <2>1. ASSUME Fits(page, size)
          PROVE  Limit(size) = size /\ offset = (page - 1) * size /\ offset >= 0 /\ size \in 0..size
      <3>1. page \in 1..IntMax /\ size \in 1..IntMax /\ IntMax \in Nat
        BY CatalogAssumption DEF PageInv, ListPage
      <3>2. Limit(size) = size /\ Offset(page, size) = (page - 1) * size
            /\ (page - 1) * size \in Nat
        BY <2>1, <3>1, OffsetOfPage
      <3> QED
        BY <3>1, <3>2
    <2> QED
      BY <2>1
  <1>5. ASSUME NEW rank \in Rankings, AnswersPage(c, Window(rank, offset, Limit(size))),
               walk' = [walk EXCEPT ![c] = WalkOn(@, page, size, Window(rank, offset, Limit(size)))]
        PROVE  /\ call'[c].pc = "answered" /\ call'[c].total = call[c].total
               /\ Fits(page, size) =>
                     call'[c].rows = Window(rank, (page - 1) * size, size) /\ size \in 0..size
               /\ \A d \in Callers \ {c} : walk'[d] = walk[d]
               /\ \/ walk'[c] = WalkRest
                  \/ /\ Fits(page, size)
                     /\ walk'[c] = WalkOn(walk[c], page, size, Window(rank, (page - 1) * size, size))
    <2>1. walk'[c] = WalkOn(walk[c], page, size, Window(rank, offset, Limit(size)))
          /\ \A d \in Callers \ {c} : walk'[d] = walk[d]
      BY <1>1, <1>5
    <2>2. ~Fits(page, size) => walk'[c] = WalkRest
      BY <2>1 DEF WalkOn
    <2> HIDE DEF page, size, offset
    <2> QED
      BY <1>3, <1>4, <1>5, <2>1, <2>2
  <1>6. ASSUME NEW rank \in Rankings, NEW n \in 0..(Limit(size) - 1),
               AnswersPage(c, Window(rank, offset, n)),
               walk' = [walk EXCEPT ![c] = WalkRest], Fault("partial_read")
        PROVE  /\ call'[c].pc = "answered" /\ call'[c].total = call[c].total
               /\ Fits(page, size) =>
                     call'[c].rows = Window(rank, (page - 1) * size, n) /\ n \in 0..size
               /\ faults' # faults
               /\ walk'[c] = WalkRest /\ \A d \in Callers \ {c} : walk'[d] = walk[d]
    <2>1. walk'[c] = WalkRest /\ \A d \in Callers \ {c} : walk'[d] = walk[d]
      BY <1>1, <1>6
    <2>2. faults' # faults
      BY <1>6, FaultsAssumption DEF Fault, TypeOK, FaultsType
    <2>3. Fits(page, size) => n \in 0..size
      <3>1. size \in Int
        BY <1>1, Int32Type DEF CallType
      <3> HIDE DEF page, size, offset
      <3> QED
        BY <1>4, <1>6, <3>1
    <2> HIDE DEF page, size, offset
    <2> QED
      BY <1>3, <1>4, <1>6, <2>1, <2>2, <2>3
  <1>7. CASE offset < 0 /\ AnswersPage(c, {}) /\ walk' = [walk EXCEPT ![c] = WalkRest]
    <2>1. walk'[c] = WalkRest /\ \A d \in Callers \ {c} : walk'[d] = walk[d]
      BY <1>1, <1>7
    <2>2. ~Fits(page, size)
      <3>1. Fits(page, size) => (page - 1) * size \in Nat
        BY CatalogAssumption, OffsetOfPage DEF PageInv, ListPage
      <3> HIDE DEF page, size
      <3> QED
        BY <1>4, <1>7, <3>1
    <2> QED
      BY <1>3, <1>7, <2>1, <2>2
  <1>8. \/ Ends(c, "failed") /\ UNCHANGED walk
        \/ \E rank \in Rankings :
              /\ AnswersPage(c, Window(rank, offset, Limit(size)))
              /\ walk' = [walk EXCEPT ![c] = WalkOn(@, page, size, Window(rank, offset, Limit(size)))]
        \/ \E rank \in Rankings, n \in 0..(Limit(size) - 1) :
              /\ AnswersPage(c, Window(rank, offset, n))
              /\ walk' = [walk EXCEPT ![c] = WalkRest]
              /\ Fault("partial_read")
        \/ offset < 0 /\ AnswersPage(c, {}) /\ walk' = [walk EXCEPT ![c] = WalkRest]
    BY DEF ListPage
  <1>9. CASE \E rank \in Rankings :
                /\ AnswersPage(c, Window(rank, offset, Limit(size)))
                /\ walk' = [walk EXCEPT ![c] = WalkOn(@, page, size, Window(rank, offset, Limit(size)))]
    <2>1. PICK rank \in Rankings :
                /\ AnswersPage(c, Window(rank, offset, Limit(size)))
                /\ walk' = [walk EXCEPT ![c] = WalkOn(@, page, size, Window(rank, offset, Limit(size)))]
      BY <1>9
    <2> HIDE DEF offset
    <2> QED
      BY <1>5, <2>1
  <1>10. CASE \E rank \in Rankings, n \in 0..(Limit(size) - 1) :
                /\ AnswersPage(c, Window(rank, offset, n))
                /\ walk' = [walk EXCEPT ![c] = WalkRest]
                /\ Fault("partial_read")
    <2>1. PICK rank \in Rankings, n \in 0..(Limit(size) - 1) :
                /\ AnswersPage(c, Window(rank, offset, n))
                /\ walk' = [walk EXCEPT ![c] = WalkRest]
                /\ Fault("partial_read")
      BY <1>10
    <2> HIDE DEF offset
    <2> QED
      BY <1>6, <2>1
  <1> QED
    BY <1>2, <1>7, <1>8, <1>9, <1>10

LEMMA PageKept ==
    ASSUME TypeOK, IsFiniteSet(Listed), PageInv, [Next]_vars, Grows, IsFiniteSet(Listed')
    PROVE  PageInv'
  <1> SUFFICES ASSUME NEW c \in Callers, call'[c].pc = "listing"
               PROVE  /\ call'[c].page \in 1..IntMax /\ call'[c].size \in 1..IntMax
                      /\ call'[c].total <= Cardinality(Listed')
    BY DEF PageInv
  <1>1. call \in [Callers -> CallType]
    BY DEF TypeOK, CallType
  <1>0. /\ Cardinality(Listed) \in Nat /\ Cardinality(Listed') \in Nat
        /\ Cardinality(Listed) <= Cardinality(Listed')
    BY FS_Subset, FS_CardinalityType DEF Grows
  <1>2. CASE call[c].pc = "listing"
    <2>1. ~ListPage(c)
      BY PageAnswered
    <2>2. [CallRest EXCEPT !.pc = "failed"].pc = "failed"
      BY DEF CallRest
    <2>3. call'[c] = call[c]
      BY <1>2, <2>1, <2>2, OnlyListPage
    <2>4. /\ call[c].page \in 1..IntMax /\ call[c].size \in 1..IntMax
          /\ call[c].total <= Cardinality(Listed) /\ call[c].total \in Nat
      BY <1>1, <1>2 DEF PageInv, CallType
    <2>5. call[c].total <= Cardinality(Listed')
      BY <1>0, <2>4
    <2> QED
      BY <2>3, <2>4, <2>5
  <1>3. CASE call[c].pc # "listing"
    <2>1. ASSUME NEW d \in Callers, NEW pc, pc # "listing", Ends(d, pc)
          PROVE  FALSE
      <3>1. [CallRest EXCEPT !.pc = pc].pc # "listing"
        BY <2>1 DEF CallRest
      <3> QED
        BY <1>1, <1>3, <2>1, <3>1 DEF Ends
    <2>2. call' # call
      BY <1>3
    <2>3. ~Restart
      BY <1>1, <1>3 DEF Restart, CallsDropped, CallRest
    <2>4. ASSUME NEW d \in Callers, NEW p \in Ids, UpdateRead(d, p)
          PROVE  FALSE
      <3>1. [CallRest EXCEPT !.pc = "updating", !.id = p, !.read = products[p]].pc # "listing"
        BY DEF CallRest
      <3> QED
        BY <1>1, <1>3, <2>1, <2>4, <3>1 DEF UpdateRead
    <2>5. ASSUME NEW d \in Callers, ListPage(d)
          PROVE  FALSE
      <3>1. d # c => call'[c] = call[c]
        BY <1>1, <2>5 DEF ListPage, AnswersPage, Ends
      <3> QED
        BY <1>3, <2>5, <3>1 DEF ListPage
    <2>6. ASSUME NEW d \in Callers, NEW page \in PageNumbers, NEW size \in PageSizes,
                 ListCount(d, page, size)
          PROVE  /\ call'[c].page \in 1..IntMax /\ call'[c].size \in 1..IntMax
                 /\ call'[c].total <= Cardinality(Listed')
      <3> DEFINE rec == [CallRest EXCEPT !.pc = "listing", !.page = PageAsked(page),
                                         !.size = SizeAsked(size), !.total = Cardinality(Listed)]
      <3>1. call' = [call EXCEPT ![d] = rec]
        BY <2>1, <2>6 DEF ListCount
      <3>2. rec.page = PageAsked(page) /\ rec.size = SizeAsked(size) /\ rec.total = Cardinality(Listed)
        BY DEF CallRest
      <3>3. PageAsked(page) \in 1..IntMax /\ SizeAsked(size) \in 1..IntMax
        BY CatalogAssumption DEF PageAsked, SizeAsked, Int32
      <3>4. call'[c] = rec
        BY <1>1, <1>3, <3>1
      <3> HIDE DEF rec
      <3> QED
        BY <1>0, <3>2, <3>3, <3>4
    <2>7. ASSUME NEW d \in Callers, NEW p \in Ids,
                 \/ \E sku \in Skus, details \in Details, quantity \in Quantities :
                       CreateProduct(d, p, sku, details, quantity)
                 \/ GetProduct(d, p)
                 \/ \E quantity \in Quantities : UpdateInventory(d, p, quantity)
          PROVE  FALSE
      BY <2>1, <2>7 DEF CreateProduct, GetProduct, UpdateInventory
    <2>8. ASSUME NEW d \in Callers, NEW details \in Details, UpdateWrite(d, details)
          PROVE  FALSE
      BY <2>1, <2>8 DEF UpdateWrite
    <2> QED
      BY <2>2, <2>3, <2>4, <2>5, <2>6, <2>7, <2>8 DEF Next, vars, ReserveStock, ReleaseStock
  <1> QED
    BY <1>2, <1>3

\* Whole pages, one after the other: what a walk has not seen stands behind them, and
\* it began with products that are still there.
WalkInv ==
    WalkMissesNone /\ \A c \in Callers : walk[c].start \subseteq Listed

\* Products that are created push a row further back, never forward.
LEMMA PushedBack ==
    ASSUME IsFiniteSet(Listed), IsFiniteSet(Listed'), Grows, NEW p \in Listed
    PROVE  /\ Alone(p)' => Alone(p)
           /\ Cardinality(Newer(p)) \in Nat /\ Cardinality(Newer(p)') \in Nat
           /\ Cardinality(Newer(p)) <= Cardinality(Newer(p)')
  <1>1. Newer(p) \in SUBSET Listed /\ Newer(p)' \in SUBSET Listed' /\ Newer(p) \subseteq Newer(p)'
    BY DEF Newer, Grows
  <1>2. Alone(p)' => Alone(p)
    BY DEF Alone, Grows
  <1> QED
    BY <1>1, <1>2, FS_Subset, FS_CardinalityType

\* What the walk of a call has not seen with one more page of the size n.
LEMMA OnePageMore ==
    ASSUME TypeOK, IsFiniteSet(Listed), WalkInv, NEW c \in Callers, NEW page \in 1..IntMax,
           NEW size \in 1..IntMax, NEW rank \in Rankings, (page - 1) * size \in Nat
    PROVE  LET w == WalkOn(walk[c], page, size, Window(rank, (page - 1) * size, size))
           IN  /\ w.start \subseteq Listed
               /\ \A p \in w.start \ w.seen :
                     Alone(p) => Cardinality(Newer(p)) >= w.pages * w.size
  <1> DEFINE before == (page - 1) * size
             rows == Window(rank, before, size)
             w == WalkOn(walk[c], page, size, rows)
  <1>1. walk[c] \in WalkType /\ page \in Nat /\ size \in Nat /\ before \in Nat
    BY CatalogAssumption DEF TypeOK, WalkType
  <1>2. ASSUME NEW p \in Listed \ rows, Alone(p), Cardinality(Newer(p)) >= before
        PROVE  Cardinality(Newer(p)) >= before + size
    <2>1. Cardinality(Newer(p)) \in Nat /\ Cardinality(AsNew(p)) = Cardinality(Newer(p)) + 1
      BY <1>2, RankOfRow, AloneInItsInstant
    <2>2. Cardinality(Newer(p)) >= before + size \/ Cardinality(AsNew(p)) <= before
      BY <1>1, <1>2, WindowOfRanking
    <2> HIDE DEF before, rows
    <2> QED
      BY <1>1, <1>2, <2>1, <2>2
  <1>6. \/ w = WalkRest
        \/ page = 1 /\ w = [pages |-> 1, size |-> size, start |-> Listed, seen |-> rows]
        \/ /\ page = walk[c].pages + 1 /\ size = walk[c].size
           /\ w = [walk[c] EXCEPT !.pages = page, !.seen = @ \cup rows]
    BY DEF WalkOn
  <1> HIDE DEF w
  <1> SUFFICES /\ w.start \subseteq Listed
               /\ \A p \in w.start \ w.seen : Alone(p) => Cardinality(Newer(p)) >= w.pages * w.size
    BY DEF w
  <1>3. CASE w = WalkRest
    BY <1>3 DEF WalkRest
  <1>4. CASE page = 1 /\ w = [pages |-> 1, size |-> size, start |-> Listed, seen |-> rows]
    <2>1. before = 0
      BY <1>1, <1>4
    <2>2. ASSUME NEW p \in Listed \ rows, Alone(p)
          PROVE  Cardinality(Newer(p)) >= 1 * size
      <3>1. Cardinality(Newer(p)) \in Nat
        BY RankOfRow
      <3> HIDE DEF before, rows
      <3> QED
        BY <1>1, <1>2, <2>1, <2>2, <3>1
    <2>3. w.start = Listed /\ w.seen = rows /\ w.pages = 1 /\ w.size = size
      BY <1>4
    <2> HIDE DEF before, rows
    <2> QED
      BY <2>2, <2>3
  <1>5. CASE /\ page = walk[c].pages + 1 /\ size = walk[c].size
             /\ w = [walk[c] EXCEPT !.pages = page, !.seen = @ \cup rows]
    <2>1. w.start = walk[c].start /\ w.seen = walk[c].seen \cup rows /\ w.pages = page
          /\ w.size = size
      BY <1>1, <1>5 DEF WalkType
    <2>2. page * size = before + size /\ before = walk[c].pages * walk[c].size
      <3>1. ASSUME NEW a \in Nat, NEW b \in Nat PROVE (a + 1) * b = a * b + b
        OBVIOUS
      <3>2. walk[c].pages \in Nat /\ page - 1 = walk[c].pages
        BY <1>1, <1>5 DEF WalkType
      <3> QED
        BY <1>1, <1>5, <3>1, <3>2
    <2>3. ASSUME NEW p \in walk[c].start \ (walk[c].seen \cup rows), Alone(p)
          PROVE  Cardinality(Newer(p)) >= page * size
      <3>1. p \in Listed \ rows
        BY <2>3 DEF WalkInv
      <3>2. Cardinality(Newer(p)) >= before
        BY <2>2, <2>3 DEF WalkInv, WalkMissesNone
      <3> HIDE DEF before, rows
      <3> QED
        BY <1>2, <2>2, <2>3, <3>1, <3>2
    <2>4. walk[c].start \subseteq Listed
      BY DEF WalkInv
    <2> HIDE DEF rows, before
    <2> QED
      BY <2>1, <2>3, <2>4
  <1> QED
    BY <1>3, <1>4, <1>5, <1>6

LEMMA WalkKept ==
    ASSUME CatalogInv, PageInv, WalkInv, [Next]_vars, CatalogInv', Grows
    PROVE  WalkInv'
  <1>1. TypeOK /\ IsFiniteSet(Listed) /\ IsFiniteSet(Listed')
    BY DEF CatalogInv
  <1> SUFFICES ASSUME NEW c \in Callers
               PROVE  /\ walk'[c].start \subseteq Listed'
                      /\ \A p \in walk'[c].start \ walk'[c].seen :
                            Alone(p)' => Cardinality(Newer(p)') >= walk'[c].pages * walk'[c].size
    BY DEF WalkInv, WalkMissesNone
  <1>2. CASE walk'[c] = walk[c]
    <2>1. walk[c].start \subseteq Listed /\ Listed \subseteq Listed'
      BY DEF WalkInv, Grows
    <2>2. ASSUME NEW p \in walk[c].start \ walk[c].seen, Alone(p)'
          PROVE  Cardinality(Newer(p)') >= walk[c].pages * walk[c].size
      <3> DEFINE least == walk[c].pages * walk[c].size
      <3>1. p \in Listed
        BY <2>1, <2>2
      <3>2. Alone(p) /\ Cardinality(Newer(p)) \in Nat /\ Cardinality(Newer(p)') \in Nat
            /\ Cardinality(Newer(p)) <= Cardinality(Newer(p)')
        BY <1>1, <2>2, <3>1, PushedBack
      <3>3. Cardinality(Newer(p)) >= least
        BY <2>2, <3>2 DEF WalkInv, WalkMissesNone
      <3>4. least \in Int
        <4>1. ASSUME NEW a \in Nat, NEW b \in Int PROVE a * b \in Int
          OBVIOUS
        <4> QED
          BY <1>1, <4>1, Int32Type DEF TypeOK
      <3> HIDE DEF least
      <3>5. Cardinality(Newer(p)') >= least
        BY <3>2, <3>3, <3>4
      <3> QED
        BY <3>5 DEF least
    <2> QED
      BY <1>2, <2>1, <2>2
  <1>3. CASE walk'[c] = WalkRest
    BY <1>3 DEF WalkRest
  <1>4. ASSUME ListPage(c), walk'[c] # walk[c], walk'[c] # WalkRest
        PROVE  /\ walk'[c].start \subseteq Listed'
               /\ \A p \in walk'[c].start \ walk'[c].seen :
                     Alone(p)' => Cardinality(Newer(p)') >= walk'[c].pages * walk'[c].size
    <2>1. /\ Fits(call[c].page, call[c].size)
          /\ \E rank \in Rankings :
                walk'[c] = WalkOn(walk[c], call[c].page, call[c].size,
                   Window(rank, (call[c].page - 1) * call[c].size, call[c].size))
      BY <1>1, <1>4, PageAnswered
    <2>2. call[c].page \in 1..IntMax /\ call[c].size \in 1..IntMax
      BY <1>4 DEF PageInv, ListPage
    <2>3. (call[c].page - 1) * call[c].size \in Nat
      BY <2>1, <2>2, OffsetOfPage
    <2>4. /\ walk'[c].start \subseteq Listed
          /\ \A p \in walk'[c].start \ walk'[c].seen :
                Alone(p) => Cardinality(Newer(p)) >= walk'[c].pages * walk'[c].size
      BY <1>1, <2>1, <2>2, <2>3, OnePageMore
    <2>5. products' = products
      BY <1>4 DEF ListPage
    <2>6. Listed' = Listed
      BY <2>5 DEF Listed
    <2>7. \A p \in Listed : (Alone(p)' <=> Alone(p)) /\ Newer(p)' = Newer(p)
      BY <2>5, <2>6 DEF Alone, Newer
    <2> QED
      BY <2>4, <2>6, <2>7
  <1>5. ASSUME NEW d \in Callers \ {c}, ListPage(d)
        PROVE  walk'[c] = walk[c]
    BY <1>1, <1>5, PageAnswered
  <1>6. walk' = walk \/ \E d \in Callers : ListPage(d)
    BY DEF Next, vars, CreateProduct, GetProduct, UpdateInventory, UpdateRead, UpdateWrite, ListCount,
           ReserveStock, ReleaseStock, Restart
  <1> QED
    BY <1>2, <1>3, <1>4, <1>5, <1>6

-----------------------------------------------------------------------------

\* The invariant of the catalogue with what lists rest on.
ListsInv == CatalogInv /\ PageInv /\ WalkInv

LEMMA InitLists == Init => ListsInv
  <1> SUFFICES ASSUME Init PROVE ListsInv
    OBVIOUS
  <1>1. PageInv
    BY DEF Init, PageInv, CallRest
  <1>2. WalkInv
    BY DEF Init, WalkInv, WalkMissesNone, WalkRest
  <1> QED
    BY <1>1, <1>2, InitCatalog DEF ListsInv

LEMMA StepLists == ListsInv /\ [Next]_vars => ListsInv'
  <1> SUFFICES ASSUME ListsInv, [Next]_vars PROVE ListsInv'
    OBVIOUS
  <1>1. CatalogInv' /\ Grows
    BY StepCatalog DEF ListsInv
  <1>2. PageInv'
    BY <1>1, PageKept DEF ListsInv, CatalogInv
  <1>3. WalkInv'
    BY <1>1, WalkKept DEF ListsInv
  <1> QED
    BY <1>1, <1>2, <1>3 DEF ListsInv

\* Who reads page after page while products are created misses none that was there at
\* the start and shares its instant with no other (repository/postgres.go, List): the
\* pages of that walk may repeat rows, but what they have not shown is still behind
\* them.
THEOREM PageWalksMissNone == Spec => []WalkMissesNone
  <1>1. ListsInv => WalkMissesNone
    BY DEF ListsInv, WalkInv
  <1> QED
    BY <1>1, InitLists, StepLists, PTL DEF Spec

\* The page of an answered list is the window its number and size name or, if the
\* connection was lost, the beginning of it (repository/postgres.go, server.go), for
\* any table and any width of the integers, wherever the size is accepted and the
\* offset fits.
THEOREM PagesAreWindows == Spec => PageIsWindow
  <1> DEFINE Answer ==
        \A c \in Callers : call[c].pc = "listing" /\ call'[c].pc = "answered"
                           /\ Fits(call[c].page, call[c].size) =>
          LET size == call[c].size
              before == (call[c].page - 1) * size
              rows == call'[c].rows
          IN  /\ \A p \in rows : Cardinality(Newer(p)) < before + size
                               /\ Cardinality(AsNew(p)) > before
              /\ \A p \in rows, q \in Listed \ rows : q \in Newer(p) => Cardinality(Newer(q)) < before
              /\ Cardinality(rows) <= size /\ call'[c].total <= Cardinality(Listed)
              /\ faults' = faults =>
                    /\ \A p \in Listed \ rows : Cardinality(Newer(p)) >= before + size
                                               \/ Cardinality(AsNew(p)) <= before
                                               \/ ~Alone(p)
                    /\ Cardinality(rows) = size \/ before + Cardinality(rows) >= Cardinality(Listed)
  <1>1. ListsInv /\ [Next]_vars => Answer
    <2> SUFFICES ASSUME ListsInv, [Next]_vars, NEW c \in Callers,
                        call[c].pc = "listing", call'[c].pc = "answered",
                        Fits(call[c].page, call[c].size)
                 PROVE  LET size == call[c].size
                            before == (call[c].page - 1) * size
                            rows == call'[c].rows
                        IN  /\ \A p \in rows : Cardinality(Newer(p)) < before + size
                                             /\ Cardinality(AsNew(p)) > before
                            /\ \A p \in rows, q \in Listed \ rows :
                                  q \in Newer(p) => Cardinality(Newer(q)) < before
                            /\ Cardinality(rows) <= size /\ call'[c].total <= Cardinality(Listed)
                            /\ faults' = faults =>
                                  /\ \A p \in Listed \ rows :
                                        \/ Cardinality(Newer(p)) >= before + size
                                        \/ Cardinality(AsNew(p)) <= before
                                        \/ ~Alone(p)
                                  /\ \/ Cardinality(rows) = size
                                     \/ before + Cardinality(rows) >= Cardinality(Listed)
      BY Zenon
    <2> DEFINE size == call[c].size
               before == (call[c].page - 1) * size
               rows == call'[c].rows
    <2>1. TypeOK /\ IsFiniteSet(Listed) /\ PageInv
      BY DEF ListsInv, CatalogInv
    <2>2. size \in Nat /\ before \in Nat /\ call[c].total <= Cardinality(Listed)
      BY <2>1, OffsetOfPage, CatalogAssumption DEF PageInv
    <2>3. ListPage(c)
      <3>1. [CallRest EXCEPT !.pc = "failed"].pc = "failed"
        BY DEF CallRest
      <3> QED
        BY <2>1, <3>1, OnlyListPage
    <2>4. /\ call'[c].total = call[c].total
          /\ \E rank \in Rankings, n \in 0..size :
                rows = Window(rank, before, n) /\ (n = size \/ faults' # faults)
      BY <2>1, <2>3, PageAnswered
    <2> HIDE DEF size, before, rows
    <2>5. PICK rank \in Rankings, n \in 0..size :
                rows = Window(rank, before, n) /\ (n = size \/ faults' # faults)
      BY <2>4
    <2>6. n \in Nat /\ n <= size
      BY <2>2
    <2>7. /\ \A p \in rows : Cardinality(Newer(p)) < before + n /\ Cardinality(AsNew(p)) > before
          /\ \A p \in rows, q \in Listed \ rows : q \in Newer(p) => Cardinality(Newer(q)) < before
          /\ \A p \in Listed \ rows : \/ Cardinality(Newer(p)) >= before + n
                                      \/ Cardinality(AsNew(p)) <= before
                                      \/ ~Alone(p)
          /\ IsFiniteSet(rows) /\ Cardinality(rows) <= n
          /\ Cardinality(rows) = n \/ before + Cardinality(rows) >= Cardinality(Listed)
      BY <2>1, <2>2, <2>5, <2>6, WindowOfRanking
    <2>8. Cardinality(rows) \in Nat /\ \A p \in rows : Cardinality(Newer(p)) \in Nat
      <3>1. rows \in SUBSET Listed
        BY <2>5 DEF Window
      <3> QED
        BY <2>1, <2>5, <2>7, <3>1, RankOfRow, FS_CardinalityType
    <2>9. \A p \in rows : Cardinality(Newer(p)) < before + size
      BY <2>2, <2>6, <2>7, <2>8
    <2>10. Cardinality(rows) <= size /\ call'[c].total <= Cardinality(Listed)
      BY <2>2, <2>4, <2>6, <2>7, <2>8
    <2> QED
      BY <2>5, <2>7, <2>9, <2>10 DEF size, before, rows
  <1>2. ListsInv /\ [Next]_vars => ListsInv' /\ [Answer]_vars
    BY <1>1, StepLists
  <1> QED
    BY <1>2, InitLists, PTL DEF Spec, PageIsWindow

=============================================================================

--------------------------- MODULE ProductCatalog ---------------------------
(***************************************************************************)
(* The product service: the table products                                 *)
(* (internal/product/repository/postgres.go) under the calls of the        *)
(* administrators, of browsing clients and of the order service            *)
(* (server.go, service/product_service.go), and the seeding of the table   *)
(* at every start (cmd/product-service/main.go).                           *)
(*                                                                         *)
(* One action is one SQL statement.  A call of two statements keeps what   *)
(* the first one told it and is not a transaction.                         *)
(***************************************************************************)
EXTENDS Integers, FiniteSets, Faults

CONSTANTS
    Ids,              \* Product ids.
    Skus,             \* Stock keeping units.
    Seeds,            \* The ids of the products the service is seeded with.
    SeedSku,          \* SeedSku[p] and
    SeedStock,        \* SeedStock[p] are the sku and the stock of seed p.
    Details,          \* What name, description, price and currency may say.
    SeedDetails,      \* What they say of a seed.
    IntMax,           \* The largest int32.
    DefaultPageSize,  \* 20 in the code.
    MaxPageSize,      \* 100 in the code.
    PageNumbers,      \* The page numbers that clients ask for.
    PageSizes,        \* The page sizes that clients ask for.
    Quantities,       \* The quantities that are reserved, released and set.
    Callers,          \* The calls of administrators and of browsing clients.
    NoProduct         \* What the table holds under an id that is not there.

Int32 == (-IntMax - 1)..IntMax

\* Where an int32 multiplication or addition ends up in Go.
Wrap(n) == ((n + IntMax + 1) % (2 * (IntMax + 1))) - (IntMax + 1)

Product == [sku : Skus, details : Details, stock : Int32, created : Nat]

ASSUME CatalogAssumption ==
    /\ IntMax \in Nat \ {0}
    /\ Seeds \subseteq Ids /\ IsFiniteSet(Seeds) /\ SeedDetails \in Details
    /\ SeedSku \in [Seeds -> Skus] /\ \A p, q \in Seeds : SeedSku[p] = SeedSku[q] => p = q
    /\ SeedStock \in [Seeds -> Int32]
    /\ DefaultPageSize \in 1..MaxPageSize /\ MaxPageSize \in 1..IntMax
    /\ PageNumbers \subseteq Int32 /\ PageSizes \subseteq Int32 /\ Quantities \subseteq Int32
    /\ NoProduct \notin Product

VARIABLES
    products,  \* The table, by id.
    clock,     \* The service's clock: has ticked whenever a product is inserted.
    call,      \* call[c]: where the call is (or how the last one ended), its product,
               \* the row or the count its first statement returned, the page it
               \* asks for, the total and the rows it answered with.
    walk,      \* walk[c]: the pages, one after the other from the first, that the
               \* lists of c answered whole: how many and of which size, the products
               \* of the table when the first was read, the rows seen (a history).
    account    \* account[p]: the last number the stock of p was set to, less what
               \* was reserved and plus what was released since (a history).

vars == <<products, clock, call, walk, account, faults>>

CallPcs == {"idle", "updating", "listing", "answered", "not_found", "failed"}

TypeOK ==
    /\ FaultsType
    /\ products \in [Ids -> Product \cup {NoProduct}]
    /\ clock \in Nat
    /\ account \in [Ids -> Int32]
    /\ call \in [Callers -> [pc : CallPcs, id : Ids \cup {NoProduct},
                             read : Product \cup {NoProduct}, page : Int32, size : Int32,
                             total : Nat, rows : SUBSET Ids]]
    /\ walk \in [Callers -> [pages : Nat, size : Int32, start : SUBSET Ids, seen : SUBSET Ids]]

CallRest == [pc |-> "idle", id |-> NoProduct, read |-> NoProduct, page |-> 0, size |-> 0,
             total |-> 0, rows |-> {}]

WalkRest == [pages |-> 0, size |-> 0, start |-> {}, seen |-> {}]

Free(c) == call[c].pc \notin {"updating", "listing"}

Listed == {p \in Ids : products[p] # NoProduct}
SkuTaken(sku) == \E p \in Listed : products[p].sku = sku

-----------------------------------------------------------------------------
(* The start of the service *)

Seed(p) == [sku |-> SeedSku[p], details |-> SeedDetails, stock |-> SeedStock[p],
            created |-> 0]

\* The table after the first start: the seeds, all of one instant.
Init ==
    /\ FaultsInit
    /\ products = [p \in Ids |-> IF p \in Seeds THEN Seed(p) ELSE NoProduct]
    /\ account = [p \in Ids |-> IF p \in Seeds THEN SeedStock[p] ELSE 0]
    /\ clock = 1
    /\ call = [c \in Callers |-> CallRest]
    /\ walk = [c \in Callers |-> WalkRest]

CallsDropped ==
    call' = [c \in Callers |-> IF Free(c) THEN call[c] ELSE [CallRest EXCEPT !.pc = "failed"]]

\* A later start inserts the seeds ON CONFLICT (sku) DO NOTHING: a seed whose sku is
\* taken changes nothing, and no product is ever deleted.
Restart ==
    /\ Fault("crash")
    /\ products' = [p \in Ids |->
          IF p \in Seeds /\ ~SkuTaken(SeedSku[p]) THEN Seed(p) ELSE products[p]]
    /\ CallsDropped
    /\ UNCHANGED <<clock, walk, account>>

-----------------------------------------------------------------------------
(* Calls of one statement *)

Ends(c, pc) == call' = [call EXCEPT ![c] = [CallRest EXCEPT !.pc = pc]]

\* CreateProduct under UNIQUE(sku).  The stock may be any int32, also a negative one.
\* The instant of creation is the one at which the call began, and calls that began
\* later may have inserted their products since.  The answer of a refused INSERT, like
\* that of any error, is Internal.
CreateProduct(c, p, sku, details, quantity) ==
    /\ Free(c)
    /\ products[p] = NoProduct
    /\ \/ /\ ~SkuTaken(sku)
          /\ \E began \in 1..clock :
                products' = [products EXCEPT ![p] =
                   [sku |-> sku, details |-> details, stock |-> quantity, created |-> began]]
          /\ account' = [account EXCEPT ![p] = quantity]
          /\ clock' = clock + 1
          /\ \/ Ends(c, "answered") /\ NoFault
             \/ Ends(c, "failed") /\ Fault("commit_unknown")
       \/ /\ SkuTaken(sku) /\ Ends(c, "failed") /\ NoFault
          /\ UNCHANGED <<products, account, clock>>
    /\ UNCHANGED walk

\* GetProduct
GetProduct(c, p) ==
    /\ Free(c)
    /\ \/ products[p] # NoProduct /\ Ends(c, "answered") /\ NoFault
       \/ products[p] = NoProduct /\ Ends(c, "not_found") /\ NoFault
       \/ Ends(c, "failed") /\ Fault("db_error")
    /\ UNCHANGED <<products, clock, walk, account>>

\* UpdateInventory sets the stock to an absolute number, whatever was reserved or
\* released since the caller last looked; any int32 passes, also a negative one.
UpdateInventory(c, p, quantity) ==
    /\ Free(c)
    /\ \/ /\ products[p] # NoProduct
          /\ products' = [products EXCEPT ![p].stock = quantity]
          /\ account' = [account EXCEPT ![p] = quantity]
          /\ \/ Ends(c, "answered") /\ NoFault
             \/ Ends(c, "failed") /\ Fault("commit_unknown")
       \/ /\ products[p] = NoProduct /\ Ends(c, "not_found") /\ NoFault
          /\ UNCHANGED <<products, account>>
    /\ UNCHANGED <<clock, walk>>

\* Mutant of ReserveStock: the UPDATE has no condition on the stock.
ReserveUnconditionally(p, quantity) ==
    /\ quantity > 0
    /\ products[p] # NoProduct
    /\ products' = [products EXCEPT ![p].stock = @ - quantity]
    /\ account' = [account EXCEPT ![p] = @ - quantity]
    /\ NoFault
    /\ UNCHANGED <<clock, call, walk>>

\* ReserveStock of the order service; with too few units it changes nothing.
ReserveStock(p, quantity) ==
    /\ quantity > 0
    /\ products[p] # NoProduct /\ products[p].stock >= quantity
    /\ products' = [products EXCEPT ![p].stock = @ - quantity]
    /\ account' = [account EXCEPT ![p] = @ - quantity]
    /\ NoFault
    /\ UNCHANGED <<clock, call, walk>>

\* Mutant of ReleaseStock: the sum is not checked against the column's type.
ReleaseUnchecked(p, quantity) ==
    /\ quantity > 0
    /\ products[p] # NoProduct
    /\ products' = [products EXCEPT ![p].stock = @ + quantity]
    /\ account' = [account EXCEPT ![p] = @ + quantity]
    /\ NoFault
    /\ UNCHANGED <<clock, call, walk>>

\* ReleaseStock: the database refuses a sum that is no INT.
ReleaseStock(p, quantity) ==
    /\ quantity > 0
    /\ products[p] # NoProduct /\ products[p].stock + quantity <= IntMax
    /\ products' = [products EXCEPT ![p].stock = @ + quantity]
    /\ account' = [account EXCEPT ![p] = @ + quantity]
    /\ NoFault
    /\ UNCHANGED <<clock, call, walk>>

-----------------------------------------------------------------------------
(* UpdateProduct: reads the row, and writes the details into it *)

UpdateRead(c, p) ==
    /\ Free(c)
    /\ \/ /\ products[p] # NoProduct
          /\ call' = [call EXCEPT ![c] = [CallRest EXCEPT !.pc = "updating", !.id = p, !.read = products[p]]]
          /\ NoFault
       \/ products[p] = NoProduct /\ Ends(c, "not_found") /\ NoFault
       \/ Ends(c, "failed") /\ Fault("db_error")
    /\ UNCHANGED <<products, clock, walk, account>>

\* Mutant of UpdateWrite: the whole row that was read is written back.
UpdateWholeRow(c, details) ==
    /\ call[c].pc = "updating"
    /\ products' = [products EXCEPT ![call[c].id] = [call[c].read EXCEPT !.details = details]]
    /\ Ends(c, "answered")
    /\ NoFault
    /\ UNCHANGED <<clock, walk, account>>

\* Mutant of UpdateWrite: created_at is written too.
UpdateTouchesCreated(c, details) ==
    /\ call[c].pc = "updating"
    /\ products' = [products EXCEPT ![call[c].id].details = details, ![call[c].id].created = clock]
    /\ clock' = clock + 1
    /\ Ends(c, "answered")
    /\ NoFault
    /\ UNCHANGED <<walk, account>>

\* The UPDATE names neither sku nor stock nor created_at.  The answer shows the stock that was read.
UpdateWrite(c, details) ==
    /\ call[c].pc = "updating"
    /\ \/ /\ products' = [products EXCEPT ![call[c].id].details = details]
          /\ \/ Ends(c, "answered") /\ NoFault
             \/ Ends(c, "failed") /\ Fault("commit_unknown")
       \/ UNCHANGED products /\ Ends(c, "failed") /\ Fault("db_error")
    /\ UNCHANGED <<clock, walk, account>>

-----------------------------------------------------------------------------
(* ListProducts: counts, then reads a page *)

\* The page and the size the server passes on, and answers with.
PageAsked(page) == IF page > 0 THEN page ELSE 1
SizeAsked(size) == IF size > 0 THEN size ELSE DefaultPageSize

\* What the repository makes of them; the multiplication is one of int32.
Limit(size) == IF size < 1 \/ size > MaxPageSize THEN DefaultPageSize ELSE size

\* Mutant of Offset: the first page is page 0.
OffsetFromZero(page, size) == Wrap(page * Limit(size))

Offset(page, size) == Wrap((page - 1) * Limit(size))

ListCount(c, page, size) ==
    /\ Free(c)
    /\ \/ /\ call' = [call EXCEPT ![c] = [CallRest EXCEPT !.pc = "listing", !.page = PageAsked(page),
                                           !.size = SizeAsked(size), !.total = Cardinality(Listed)]]
          /\ NoFault
       \/ Ends(c, "failed") /\ Fault("db_error")
    /\ UNCHANGED <<products, clock, walk, account>>

\* ORDER BY created_at DESC: products of one instant come in any order.
Rankings ==
    {rank \in [Listed -> 1..Cardinality(Listed)] :
        \A p, q \in Listed : p # q =>
            /\ rank[p] # rank[q]
            /\ products[p].created > products[q].created => rank[p] < rank[q]}

\* LIMIT and OFFSET.
Window(rank, offset, size) == {p \in Listed : rank[p] - offset \in 1..size}

\* The size is one that the repository accepts and the offset one that an int32 holds.
Fits(page, size) == size <= MaxPageSize /\ (page - 1) * size <= IntMax

\* What the caller of the pages w has read with one more whole page.
WalkOn(w, page, size, rows) ==
    IF ~Fits(page, size) THEN WalkRest
    ELSE IF page = 1 THEN [pages |-> 1, size |-> size, start |-> Listed, seen |-> rows]
    ELSE IF w.pages # 0 /\ page = w.pages + 1 /\ size = w.size
         THEN [w EXCEPT !.pages = page, !.seen = @ \cup rows]
    ELSE WalkRest

AnswersPage(c, rows) ==
    call' = [call EXCEPT ![c] = [CallRest EXCEPT !.pc = "answered", !.total = call[c].total,
                                                 !.rows = rows]]

\* The code asks for rows until there are none and never asks why there are none: a
\* connection lost between two rows, and an OFFSET that the database refuses because
\* it is negative, are answered like a page that ends there.
ListPage(c) ==
    /\ call[c].pc = "listing"
    /\ LET page == call[c].page
           size == call[c].size
           offset == Offset(page, size)
       IN  \/ \E rank \in Rankings :
                 /\ offset >= 0
                 /\ \/ LET rows == Window(rank, offset, Limit(size))
                       IN  /\ AnswersPage(c, rows)
                           /\ walk' = [walk EXCEPT ![c] = WalkOn(@, page, size, rows)]
                           /\ NoFault
                    \/ /\ \E n \in 0..(Limit(size) - 1) : AnswersPage(c, Window(rank, offset, n))
                       /\ walk' = [walk EXCEPT ![c] = WalkRest]
                       /\ Fault("partial_read")
           \/ /\ offset < 0
              /\ AnswersPage(c, {})
              /\ walk' = [walk EXCEPT ![c] = WalkRest]
              /\ NoFault
           \/ Ends(c, "failed") /\ UNCHANGED walk /\ Fault("db_error")
    /\ UNCHANGED <<products, clock, account>>

-----------------------------------------------------------------------------

Next ==
    \/ \E c \in Callers :
          \/ \E p \in Ids :
                \/ \E sku \in Skus, details \in Details, quantity \in Quantities :
                      CreateProduct(c, p, sku, details, quantity)
                \/ GetProduct(c, p)
                \/ \E quantity \in Quantities : UpdateInventory(c, p, quantity)
                \/ UpdateRead(c, p)
          \/ \E details \in Details : UpdateWrite(c, details)
          \/ \E page \in PageNumbers, size \in PageSizes : ListCount(c, page, size)
          \/ ListPage(c)
    \/ \E p \in Ids, quantity \in Quantities : ReserveStock(p, quantity) \/ ReleaseStock(p, quantity)
    \/ Restart

Spec == Init /\ [][Next]_vars

-----------------------------------------------------------------------------
(* What the catalogue guarantees *)

\* No reservation, release or inventory is lost: neither an update of a product that
\* read its row before them, nor a restart, takes the stock back to what it was.
NoLostStock ==
    \A p \in Listed : products[p].stock = account[p]

\* To the order service the table is the stock that ProductStock describes, whatever
\* goes on beside it: unless an administrator sets it, a stock changes by a
\* reservation that it covers or by a release.
StockOf(p) == products[p].stock
Stock == INSTANCE ProductStock WITH
    Products <- Seeds, InitialStock <- SeedStock, stock <- [p \in Seeds |-> StockOf(p)]
ImplementsStock ==
    [][\/ \A p \in Seeds : StockOf(p)' = StockOf(p)
       \/ \E c \in Callers, p \in Seeds, quantity \in Quantities : UpdateInventory(c, p, quantity)
       \/ \E p \in Seeds, quantity \in Quantities :
             Stock!ReserveStock(p, quantity) \/ Stock!ReleaseStock(p, quantity)]_vars

Newer(p) == {q \in Listed : products[q].created > products[p].created}
AsNew(p) == {q \in Listed : products[q].created >= products[p].created}
Alone(p) == \A q \in Listed \ {p} : products[q].created # products[p].created

\* The page of an answered list is the window its page number and page size name, or
\* the beginning of it: a row stands on it only if fewer rows are newer than the
\* window's end, and at least as many are as new as its start; no row newer than one
\* of the page is skipped; and the total is no more than there are products.  Unless
\* the connection was lost in the middle of it, no row of the window is missing (of
\* rows of one instant, some may be) and a short page is the last one.  This needs a
\* size that the repository accepts (up to 100) and an offset that fits in an int32,
\* and neither is checked.
PageIsWindow ==
    [][\A c \in Callers : call[c].pc = "listing" /\ call'[c].pc = "answered"
                         /\ Fits(call[c].page, call[c].size) =>
          LET size == call[c].size
              before == (call[c].page - 1) * size
              rows == call'[c].rows
          IN  /\ \A p \in rows : Cardinality(Newer(p)) < before + size
                               /\ Cardinality(AsNew(p)) > before
              /\ \A p \in rows, q \in Listed \ rows : q \in Newer(p) => Cardinality(Newer(q)) < before
              /\ Cardinality(rows) <= size /\ call'[c].total <= Cardinality(Listed)
              /\ faults' = faults =>
                    /\ \A p \in Listed \ rows : Cardinality(Newer(p)) >= before + size
                                               \/ Cardinality(AsNew(p)) <= before
                                               \/ ~Alone(p)
                    /\ Cardinality(rows) = size \/ before + Cardinality(rows) >= Cardinality(Listed)]_vars

\* Who reads page after page while products are created between the pages, which
\* shifts the rows that follow, misses none of the products that were there when the
\* walk began: one that has not been on a page yet stands behind the pages read so
\* far.  Products of one instant are no such: the order of their rows is not fixed,
\* and one may be on no page while another is on two.
WalkMissesNone ==
    \A c \in Callers : \A p \in walk[c].start \ walk[c].seen :
        Alone(p) => Cardinality(Newer(p)) >= walk[c].pages * walk[c].size

=============================================================================

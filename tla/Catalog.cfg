SPECIFICATION Spec
CONSTANTS
    p1 = p1  p2 = p2  p3 = p3  s1 = s1  s2 = s2  s3 = s3  a1 = a1  a2 = a2
    NoProduct = NoProduct
    Ids = {p1, p2, p3}
    Skus = {s1, s2, s3}
    Seeds = {p1}
    SeedSku <- MCSeedSku
    SeedStock <- MCSeedStock
    Details = {"details"}
    SeedDetails = "details"
    IntMax = 7
    DefaultPageSize = 3
    MaxPageSize = 3
    PageNumbers <- MCPages
    PageSizes <- MCSizes
    Quantities <- MCQuantities
    Callers = {a1, a2}
    FaultKinds = {"db_error", "commit_unknown", "crash", "partial_read"}
    MaxFaults = 1
SYMMETRY MCSymmetry
INVARIANTS
    TypeOK
    NoLostStock
    WalkMissesNone
PROPERTIES
    PageIsWindow
    ImplementsStock

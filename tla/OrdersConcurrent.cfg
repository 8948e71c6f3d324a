CONSTANTS
    Variants = {"v1", "v2"}
    Warehouses = {1, 2}
    Rows <- ConcurrentRows
    InitialStock <- ConcurrentStock
    DefaultWarehouse = 0
    Carts = {"c1", "c2"}
    Lines <- ConcurrentLines
    Requests = {"o1", "o2", "x1", "s1", "p1", "w1"}
    Op <- ConcurrentOp
    OrderOf <- ConcurrentOrderOf
    CartOf <- ConcurrentCartOf
    References = {"ref"}
    RefOf <- ConcurrentRefOf
    MayCrash = {"o1", "w1"}
    OrderlyCallers = FALSE
    NoOne = "none"
SPECIFICATION FairSpec
INVARIANTS TypeOK StockWithinBounds DraftsStayFresh PaidTogether CartClosedByOrder
PROPERTIES EveryRequestEnds

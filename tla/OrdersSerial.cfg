CONSTANTS
    Variants = {"v1", "v2"}
    Warehouses = {1}
    Rows <- SerialRows
    InitialStock <- SerialStock
    DefaultWarehouse = 1
    Carts = {"c1", "c2"}
    Lines <- SerialLines
    Requests = {"o1", "o2", "o3", "x1", "x2", "s1", "p1", "p2", "w1", "w2"}
    Op <- SerialOp
    OrderOf <- SerialOrderOf
    CartOf <- SerialCartOf
    References = {"ref"}
    RefOf <- SerialRefOf
    MayCrash = {"o1"}
    OrderlyCallers = TRUE
    NoOne = "none"
SPECIFICATION Spec
INVARIANTS StockMatchesOrders
PROPERTIES AtomicOperations
